---------------------------- MODULE MCMediaFiles ----------------------------
(***************************************************************************)
(* Instance of MediaFiles for TLC: two calls, messages with one resource   *)
(* twice, with two, and with none; attachments of every source; sizes on   *)
(* both sides of every limit.                                              *)
(***************************************************************************)
EXTENDS MediaFiles

CONSTANTS c1, c2, t1, t2, t3

MCCalls == {c1, c2}
MCTemps == {t1, t2, t3}

Image(id) == [id |-> id, kind |-> "image"]
Video(id) == [id |-> id, kind |-> "video"]

\* "whole" has the largest size kept, "large" two bytes more.
MCSizeOf == [whole |-> 2, small |-> 1, large |-> 4]

MCMessages ==
    {[walked |-> <<Image("whole"), Image(""), Image("whole")>>,
      own |-> <<Video("small")>>],
     [walked |-> <<>>, own |-> <<Image("large")>>]}

ByUrl(size, image) == [size |-> size, image |-> image, source |-> "url"]
ByPath(image) == [size |-> 0, image |-> image, source |-> "path"]

MCBatches == {<<ByUrl(2, TRUE), ByPath(FALSE)>>, <<ByPath(TRUE), ByUrl(3, FALSE)>>}
MCHostSizes == 0..4
=============================================================================
