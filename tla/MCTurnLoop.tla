----------------------------- MODULE MCTurnLoop -----------------------------
(* TurnLoop on small instances: one worker, one HTTP thread.                   *)
EXTENDS TurnLoop

\* The command line: one call at a time, restarts, no cancel; and the hook raises.
Cli == [overlap |-> FALSE, cancels |-> FALSE, raises |-> TRUE,
        plans |-> 1, messages |-> 2, crashes |-> 1]
\* The same with a message that nests the loop around two plans ...
Nested == [Cli EXCEPT !.plans = 2, !.messages = 1, !.crashes = 0]
\* ... and for longer: two exceptions, a restart, and a third plan.
Longer == [Cli EXCEPT !.plans = 3, !.messages = 0]
\* The command line with a Ctrl-C, and no message.
Interrupted == [overlap |-> FALSE, cancels |-> TRUE, raises |-> FALSE,
                plans |-> 2, messages |-> 0, crashes |-> 0]
\* The web host: messages and cancels at any step of the worker ...
Web == [overlap |-> TRUE, cancels |-> TRUE, raises |-> FALSE,
        plans |-> 0, messages |-> 2, crashes |-> 0]
\* ... and where the hook raises.
WebRaises == [Web EXCEPT !.raises = TRUE, !.messages = 1]

MCSettings == {Cli, Nested, Longer, Web, WebRaises}
MCInterrupted == {Interrupted}
=============================================================================
