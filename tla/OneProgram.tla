------------------------------ MODULE OneProgram ------------------------------
(***************************************************************************)
(* What TfRun takes for granted of a command that streamCommand runs: it   *)
(* is one program, which is not started once the context is done, ends by  *)
(* itself unless the context is done and it is killed, and is answered for *)
(* once, after its end.  nil means that it ended well by itself.  Pipes,   *)
(* readers, helpers and exec's goroutine are left out; StreamCommand has   *)
(* them and implements this.                                               *)
(***************************************************************************)

VARIABLES
    ctxDone,  \* the context of the run is done
    stage,    \* "ready", "running" from cmd.Start on, or "over"
    ended,    \* how the program ended
    answer    \* what streamCommand returned

vars == <<ctxDone, stage, ended, answer>>

Init ==
    /\ ctxDone \in BOOLEAN
    /\ stage = "ready"
    /\ ended = "none"
    /\ answer = "none"

Cancel ==
    /\ stage # "over"
    /\ ctxDone' = TRUE
    /\ UNCHANGED <<stage, ended, answer>>

Start ==
    /\ stage = "ready"
    /\ ~ctxDone
    /\ stage' = "running"
    /\ UNCHANGED <<ctxDone, ended, answer>>

StartFails ==
    /\ stage = "ready"
    /\ stage' = "over"
    /\ answer' = "fail"
    /\ UNCHANGED <<ctxDone, ended>>

End(how) ==
    /\ stage = "running"
    /\ ended = "none"
    /\ how = "killed" => ctxDone
    /\ ended' = how
    /\ UNCHANGED <<ctxDone, stage, answer>>

\* An error for a program that ended well takes a context that is done.
Answer ==
    /\ stage = "running"
    /\ ended # "none"
    /\ stage' = "over"
    /\ \/ ended = "ok" /\ answer' = "ok"
       \/ (ended # "ok" \/ ctxDone) /\ answer' = "fail"
    /\ UNCHANGED <<ctxDone, ended>>

Next ==
    \/ Cancel \/ Start \/ StartFails
    \/ \E how \in {"ok", "fail", "killed"} : End(how)
    \/ Answer

Spec == Init /\ [][Next]_vars
=============================================================================
