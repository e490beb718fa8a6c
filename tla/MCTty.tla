------------------------------- MODULE MCTty --------------------------------
(* The terminal with its reset flags, and three settings without line      *)
(* editing: VTIME alone, VMIN with VTIME, and VMIN alone.                   *)
EXTENDS Tty

Setting(flags, vmin, vtime, keys) == [flags |-> flags, vmin |-> vmin, vtime |-> vtime, keys |-> keys]

LineKeys == {"a", "CR", "BS", "^C", "^R", "^V", "^S", "^D"}

SomeSettings ==
  { Setting(ResetFlags, 1, 0, LineKeys),
    Setting({"ISIG", "IGNCR"}, 0, 1, {"a", "CR", "^Z"}),
    Setting({"ECHO"}, 2, 1, {"a"}),
    Setting({}, 2, 0, {"a"}) }
=============================================================================
