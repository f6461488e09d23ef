-------------------------- MODULE MCStdioUpstream --------------------------
(* Small instances of StdioUpstream for TLC. *)
EXTENDS StdioUpstream

CONSTANTS d1, d2

\* One page, two, as many as the cap, one more than the cap; a definition that
\* moves to an earlier or a later page, that is listed twice, and that is gone.
Moving == { <<{d1}>>, <<{d1}, {d2}>>, <<{d2}, {d1}>>, <<{d1}, {}, {d2}>>,
            <<{d1}, {d2}, {d2}>>, <<{}, {}, {d1}, {d2}>> }
=============================================================================
