--------------------------- MODULE MCControlPlane ---------------------------
(* Small instances of ControlPlane: a window of two receipts, two tabs. *)
EXTENDS ControlPlane

Q(i, o, t, d) == [id |-> i, op |-> o, tab |-> t, deadline |-> d]
P(o, t) == [op |-> o, tab |-> t]

\* Submissions that compete for a tab, a retry without the deadline, one of
\* another tab, an id used twice, and a tab that closes.
MixedRequests == {Q("q1", "send-composer", "t1", 1),
                  Q("q1", "send-composer", "t1", NoDeadline),
                  Q("q2", "send-composer", "t1", NoDeadline),
                  Q("q2", "send-keys", "t1", NoDeadline),
                  Q("q3", "send-composer", "t2", NoDeadline)}
MixedPlain == {P("set-composer", "t1"), P("cwd-send", "t2"),
               P("show-composer", "t2"), P("kill-window", "t1")}

\* Submissions only: no tab is ever closed.
SendRequests == {Q("q1", "send-composer", "t1", NoDeadline),
                 Q("q2", "send-composer", "t1", NoDeadline)}
SendPlain == {P("set-composer", "t1")}
=============================================================================
