------------------------------ MODULE G2dDemo -------------------------------
(***************************************************************************)
(* examples/g2d/g2d_demo.c: eight tests of the 2D engine, one after the    *)
(* other in one process.  The engine keeps what a test has set in it: the  *)
(* selected source, the surfaces, the rotation; a test sets what it needs  *)
(* and lives with what the tests before it have left.  Any call may fail,  *)
(* and the program exits.                                                  *)
(***************************************************************************)
EXTENDS Naturals, Sequences

VARIABLES
  row,       \* the row of main the program is at, one past the last: ended
  shape,     \* shape[s]: "none", or how the created surface s lies
  source,    \* source[i]: the surface set as the engine's i-th source
  selected,  \* which of the sources csi_g2d_surface_set_source sets
  target,    \* the engine's target
  rotation,  \* the engine's rotation, in degrees
  blending,  \* the engine blends what it copies with what is there
  filled,    \* the target has been filled since it became the target
  queued     \* the engine has work it was not told to finish

engine == <<source, selected, target, rotation, blending, filled>>
g2dVars == <<row, shape, engine, queued>>

(* A surface lies (640x480 and its multiples) or stands (480x640).         *)
Sources == <<"source1", "source2", "source3", "source4">>
Surface == {Sources[i] : i \in 1 .. 4} \cup {"target"}

(* A row of a test: a call, what it is about, and how.                     *)
Row(call, s, how) == [call |-> call, s |-> s, how |-> how]
Lying(s) == <<Row("create", s, "lying")>>
Standing(s) == <<Row("create", s, "standing")>>
Load(s) == <<Row("load", s, "")>>
Set(s) == <<Row(IF s = "target" THEN "set_target" ELSE "set_source", s, "")>>
Rotate(degrees) == <<Row("set_rotation", "", degrees)>>
Filled == <<Row("fill", "", "")>>
Rectangle == <<Row("rectangle", "", "")>>
Blit == <<Row("blit", "", {1})>>

(* The end the tests share: flush, save the target, destroy the surfaces.  *)
Finish(s) ==
  <<Row("flush", "", ""), Row("save", "target", "")>>
    \o s \o <<Row("destroy", "target", "")>>
Destroy(s) == <<Row("destroy", s, "")>>

g2d_test_bitblit ==
  Lying("source1") \o Lying("target") \o Load("source1") \o Set("source1")
    \o Set("target") \o Blit \o Finish(Destroy("source1"))

g2d_test_draw_rectangle ==
  Lying("target") \o Load("target") \o Set("target") \o Rectangle \o Finish(<<>>)

g2d_test_fill_rectangle == Lying("target") \o Set("target") \o Filled \o Finish(<<>>)

g2d_test_bitblit_with_rotation ==
  Lying("source1") \o Standing("target") \o Load("source1") \o Set("source1")
    \o Set("target") \o Rotate(90) \o Blit \o Finish(Destroy("source1"))

g2d_test_stretchblit_with_rotation ==
  Lying("source1") \o Standing("target") \o Load("source1") \o Set("source1")
    \o Set("target") \o Rotate(90) \o Blit \o Finish(Destroy("source1"))

(* Mutant: the rotation of the test before is left in place.               *)
Slip_RotationLeft ==
  Lying("source1") \o Lying("target") \o Load("source1") \o Set("source1")
    \o Set("target") \o Blit \o Finish(Destroy("source1"))

g2d_test_filterblit_with_rotation ==
  Lying("source1") \o Lying("target") \o Load("source1") \o Set("source1")
    \o Set("target") \o Rotate(0) \o Blit \o Finish(Destroy("source1"))

(* The source is drawn into as a target first; nobody turns the blending   *)
(* off again.                                                              *)
g2d_test_bitblit_with_alpha_blending ==
  Lying("source1") \o <<Row("set_target", "source1", "")>> \o Filled \o Filled
    \o Lying("target") \o Set("target") \o Filled \o Filled \o Set("source1")
    \o <<Row("blend", "", "")>> \o Blit \o Finish(Destroy("source1"))

(* Four sources, each set under its own number.                            *)
g2d_test_multisrc_blit ==
  LET Made(i) == Lying(Sources[i]) \o Load(Sources[i])
      Chosen(i) == <<Row("select", "", i)>> \o Set(Sources[i]) \o <<Row("clip", "", "")>>
  IN  Made(1) \o Made(2) \o Made(3) \o Made(4) \o Lying("target") \o Set("target")
        \o Filled \o Chosen(1) \o Chosen(2) \o Chosen(3) \o Chosen(4)
        \o <<Row("blit", "", 1 .. 4)>>
        \o Finish(Destroy(Sources[1]) \o Destroy(Sources[2])
                    \o Destroy(Sources[3]) \o Destroy(Sources[4]))

g2d_main ==
  <<Row("open", "", "")>> \o g2d_test_bitblit \o g2d_test_draw_rectangle
    \o g2d_test_fill_rectangle \o g2d_test_bitblit_with_rotation
    \o g2d_test_stretchblit_with_rotation \o g2d_test_filterblit_with_rotation
    \o g2d_test_bitblit_with_alpha_blending \o g2d_test_multisrc_blit
    \o <<Row("close", "", "")>>

-----------------------------------------------------------------------------
G2dEnded == row = Len(g2d_main) + 1
AtCall(call) == ~G2dEnded /\ g2d_main[row].call = call
This == g2d_main[row]

Done == row' = row + 1

SurfaceCreate ==
  /\ AtCall("create") /\ Done
  /\ shape' = [shape EXCEPT ![This.s] = This.how]
  /\ UNCHANGED <<engine, queued>>

SurfaceDestroy ==
  /\ AtCall("destroy") /\ Done
  /\ shape' = [shape EXCEPT ![This.s] = "none"]
  /\ UNCHANGED <<engine, queued>>

SetSource ==
  /\ \/ AtCall("set_source") /\ source' = [source EXCEPT ![selected] = This.s]
                             /\ UNCHANGED selected
     \/ AtCall("select") /\ selected' = This.how /\ UNCHANGED source
  /\ Done
  /\ UNCHANGED <<shape, target, rotation, blending, filled, queued>>

SetTarget ==
  /\ AtCall("set_target") /\ Done
  /\ target' = This.s
  /\ filled' = FALSE
  /\ UNCHANGED <<shape, source, selected, rotation, blending, queued>>

SetRotation ==
  /\ AtCall("set_rotation") /\ Done
  /\ rotation' = This.how
  /\ UNCHANGED <<shape, source, selected, target, blending, filled, queued>>

EnableBlend ==
  /\ AtCall("blend") /\ Done
  /\ blending' = TRUE
  /\ UNCHANGED <<shape, source, selected, target, rotation, filled, queued>>

Draw ==
  /\ \/ AtCall("fill") /\ filled' = TRUE
     \/ (AtCall("rectangle") \/ AtCall("blit")) /\ UNCHANGED filled
  /\ Done
  /\ queued' = TRUE
  /\ UNCHANGED <<shape, source, selected, target, rotation, blending>>

Flush ==
  /\ AtCall("flush") /\ Done
  /\ queued' = FALSE
  /\ UNCHANGED <<shape, engine>>

(* The CPU fills or reads the pixels of a surface: g2d_load_bitmap,        *)
(* g2d_save_bitmap; the rest changes nothing the tests can see.            *)
g2d_bitmap ==
  /\ AtCall("load") \/ AtCall("save") \/ AtCall("clip") \/ AtCall("open") \/ AtCall("close")
  /\ Done
  /\ UNCHANGED <<shape, engine, queued>>

(* A call fails.  main does not look at what the tests return, and the     *)
(* clipping of multisrc_blit returns instead of exiting.                   *)
G2dFail ==
  /\ ~G2dEnded
  /\ row' = IF AtCall("clip") THEN Len(g2d_main) ELSE Len(g2d_main) + 1
  /\ UNCHANGED <<shape, engine, queued>>

G2dInit ==
  /\ row = 1
  /\ shape = [s \in Surface |-> "none"]
  /\ source = [i \in 1 .. 4 |-> "none"]
  /\ selected = 1
  /\ target = "none"
  /\ rotation = 0
  /\ blending = FALSE
  /\ filled = FALSE
  /\ queued = FALSE

G2dNext ==
  \/ SurfaceCreate \/ SurfaceDestroy \/ SetSource \/ SetTarget \/ SetRotation
  \/ EnableBlend \/ Draw \/ Flush \/ g2d_bitmap \/ G2dFail

-----------------------------------------------------------------------------
(* Every test draws with the engine as it believes it to be, whatever the  *)
(* tests before it have left there: the surfaces the engine works on exist, *)
(* the target has the shape the rotation in force gives the source, what   *)
(* is blended, the blending perhaps left on, goes onto a target that was   *)
(* filled first, and the processor touches no pixels the engine is still   *)
(* working on.                                                             *)
DrawsAsItBelieves ==
  LET Exists(s) == s \in Surface /\ shape[s] # "none"
  IN  /\ AtCall("fill") \/ AtCall("rectangle") => Exists(target)
      /\ AtCall("blit") =>
           /\ Exists(target)
           /\ blending => filled
           /\ \A i \in This.how :
                /\ Exists(source[i]) /\ source[i] # target
                /\ (shape[source[i]] = shape[target]) <=> (rotation = 0)
      /\ AtCall("save") => ~queued
      /\ AtCall("load") => ~queued
      /\ AtCall("destroy") => ~queued
=============================================================================
