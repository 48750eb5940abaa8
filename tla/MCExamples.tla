----------------------------- MODULE MCExamples -----------------------------
(* Each program with the limits and the formats of its arguments.          *)
EXTENDS Examples

CONSTANTS i1, i2, i3, null

Run(names, lims, mostNews, formats) ==
  [name : names, lim : lims, news : mostNews, format : formats]

SomeScenarios ==
  Run({"cam_demo_simple"}, {0, Limit}, {1}, {"none", "dma", "bgr", "wrong_size"})
    \cup Run({"camera_test1"}, {0, Limit}, {1}, {"none"})
    \cup Run({"cam_demo_ir"}, {0}, {1}, {"none"})
    \cup Run({"cam_demo_ir"}, {Limit}, {0}, {"none"})
    \cup Run({"camera_demo1", "camera_demo2", "camera_demo4", "cam_demo_multi", "g2d_demo"},
             {0}, {1}, {"none"})
=============================================================================
