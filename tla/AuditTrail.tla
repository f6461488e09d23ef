----------------------------- MODULE AuditTrail -----------------------------
(***************************************************************************)
(* What the audit log says afterwards: the rows that Firewall.handle() and *)
(* approve_tools() write, set against what the agent was told, what the    *)
(* MCP server did and what was pinned.                                     *)
(*                                                                         *)
(* A handler decides, writes its row and returns without an await, but the *)
(* process may die between any two writes, a row may fail to be written,   *)
(* and a request that is cancelled at an await passes the "except          *)
(* Exception" of handle(), so it gets neither row nor answer.  A call that *)
(* was sent may reach the server after its handler has given up.           *)
(*                                                                         *)
(* Which stage denies a request is module Gateway's business; here every   *)
(* stage of the pipeline may, at the await after which it comes.  Rows are *)
(* a set; their ids and times are left out.                                *)
(***************************************************************************)
EXTENDS Naturals

CONSTANTS
    Call,           \* POST /api/request, each of them once
    Approval,       \* POST /api/tools/approve, each of them once
    Tool,
    Definition,     \* by fingerprint
    Unpinned,       \* no approved fingerprint
    None            \* no verdict

ASSUME AuditAssumption == /\ Call \cap Approval = {}
                          /\ Unpinned \notin Definition
                          /\ "rejected" \notin Definition
                          /\ "not_found" \notin Definition
                          /\ None \notin STRING

VARIABLES
    pc,         \* where each handler is
    verdict,    \* the stage of the result of each call
    \* The database.
    rows,       \* audit rows of calls
    approvals,  \* audit rows of approvals
    pinned,     \* tool_fingerprints
    \* The MCP server.
    sent,       \* calls handed to it
    executed,   \* calls it has processed
    \* History: no action reads these.
    lost,       \* calls whose row could not be written
    changed     \* the approvals that changed the pin of each tool

\* All but the places of the handlers.
data == <<verdict, rows, approvals, pinned, sent, executed, lost, changed>>

vars == <<pc, data>>

Stage == {"authentication", "rate_limit", "validation", "authorization",
          "integrity", "input_scan", "circuit_breaker", "upstream",
          "output_scan", "internal_error", "allowed"}

\* _STATUS_BY_STAGE of main.py.
StatusOf(stage) ==
    CASE stage = "authentication"  -> 401
      [] stage = "rate_limit"      -> 429
      [] stage = "validation"      -> 400
      [] stage = "circuit_breaker" -> 503
      [] stage = "upstream"        -> 502
      [] stage = "internal_error"  -> 500
      [] OTHER                     -> 403

Decision(stage) == IF stage = "allowed" THEN "ALLOW" ELSE "DENY"

\* tool_request(): 200 for what is allowed, the status of its stage otherwise.
Answer(c) == IF Decision(verdict[c]) = "ALLOW" THEN 200 ELSE StatusOf(verdict[c])

Init == /\ pc = [h \in Call \cup Approval |-> "new"]
        /\ verdict = [c \in Call |-> None]
        /\ rows = {}
        /\ approvals = {}
        /\ pinned = [tool \in Tool |-> Unpinned]
        /\ sent = {}
        /\ executed = {}
        /\ lost = {}
        /\ changed = [tool \in Tool |-> {}]

Goes(h, to) == pc' = [pc EXCEPT ![h] = to]
-----------------------------------------------------------------------------
(***************************************************************************)
(* handle()                                                                *)
(***************************************************************************)

\* Mistake: the row is written before the response is scanned.
RowBeforeScan(c, stage) ==
    LET known == IF stage = "output_scan" THEN "allowed" ELSE stage
    IN [by |-> c, stage |-> known, decision |-> Decision(known)]

\* The row of _audit_result().
CallRow(c, stage) == [by |-> c, stage |-> stage, decision |-> Decision(stage)]

\* The result is there: _audit_result() writes its row, or logs that it could
\* not.  The answer follows, unless the process dies first.
Decides(c, stage) ==
    /\ Goes(c, "audited")
    /\ verdict' = [verdict EXCEPT ![c] = stage]
    /\ \/ rows' = rows \cup {CallRow(c, stage)} /\ UNCHANGED lost
       \/ lost' = lost \cup {c} /\ UNCHANGED rows
    /\ UNCHANGED <<approvals, pinned, sent, executed, changed>>

\* Mistake: a refused session is filed as a failed login.
FiledAsLogin == {"login", "rate_limit", "validation", "authorization",
                 "internal_error"}

\* The stages that deny before the first await ...
DeniesEarly == {"authentication", "rate_limit", "validation", "authorization",
                "internal_error"}

\* ... between the awaits ...
DeniesListed == {"upstream", "integrity", "input_scan", "circuit_breaker",
                 "internal_error"}

\* ... and the verdicts on a response.
Responses == {"allowed", "output_scan", "internal_error"}

BeginsCall(c) ==
    /\ pc[c] = "new"
    /\ \/ \E stage \in DeniesEarly : Decides(c, stage)
       \/ /\ Goes(c, "listing")
          /\ UNCHANGED data

Listed(c) ==
    /\ pc[c] = "listing"
    /\ \/ \E stage \in DeniesListed : Decides(c, stage)
       \/ /\ Goes(c, "calling")
          /\ UNCHANGED data

\* Mistake: the call is on its way while its arguments are scanned.
SendsUnscanned(c) == pc[c] \in {"listing", "calling"}

\* call_tool() runs only when all checks have passed.
MaySend(c) == pc[c] = "calling"

\* call_tool() hands the request to the server.  It may also fail before.
Sends(c) == /\ MaySend(c) /\ c \notin sent
            /\ sent' = sent \cup {c}
            /\ UNCHANGED <<pc, verdict, rows, approvals, pinned, executed,
                           lost, changed>>

\* The server gets to it, at once or after the handler has given up.
Executes(c) == /\ c \in sent
               /\ executed' = executed \cup {c}
               /\ UNCHANGED <<pc, verdict, rows, approvals, pinned, sent,
                              lost, changed>>

Returns(c) == /\ pc[c] = "calling" /\ c \in executed
              /\ \E stage \in Responses : Decides(c, stage)

\* The call raises or times out, whether or not the server has executed it.
CallFails(c) == pc[c] = "calling" /\ Decides(c, "upstream")

\* A result or a list of outcomes is sent to the client.
Answers(h) == /\ pc[h] = "audited"
              /\ Goes(h, "answered")
              /\ UNCHANGED data
-----------------------------------------------------------------------------
(***************************************************************************)
(* approve_tools()                                                         *)
(***************************************************************************)

\* require_manager() lets the caller in, or it is an HTTP error and no row.
BeginsApproval(a) ==
    /\ pc[a] = "new"
    /\ Goes(a, "listing") \/ Goes(a, "failed")
    /\ UNCHANGED data

\* The status of what is found under a name, given the pin of that moment.
\* What can not be pinned is "not_found", or "rejected" as one of several
\* definitions or by the scanner.
StatusOfOffer(tool, offer) ==
    IF offer \notin Definition       THEN offer
    ELSE IF pinned[tool] = Unpinned  THEN "approved"
    ELSE IF pinned[tool] = offer     THEN "unchanged"
    ELSE                                  "updated"

ApprovalRow(a, tool, status) == [by |-> a, tool |-> tool, status |-> status]

\* Mistake: all names are pinned before the first row is written.
RowsAfterLoop(half) == half \subseteq Tool

\* The loop pins one name and writes its row before it takes the next.
AtMostOnePending(half) == \A t1, t2 \in half : t1 = t2

\* The loop, without an await: the names "done" are pinned, where they can
\* be, and recorded.  record() is not guarded here: if it raises, or the
\* process dies, the pin of the name in "half" has no row, the manager gets
\* an error at most, and the rest is not looked at.
Approves(a, offer, done, half, interrupted) ==
    LET pins == {tool \in done \cup half : offer[tool] \in Definition} IN
    /\ pc[a] = "listing"
    /\ done \cap half = {} /\ AtMostOnePending(half)
    /\ half # {} => interrupted
    /\ approvals' = approvals \cup
           {ApprovalRow(a, tool, StatusOfOffer(tool, offer[tool])) : tool \in done}
    /\ pinned' = [tool \in Tool |-> IF tool \in pins THEN offer[tool]
                                                     ELSE pinned[tool]]
    /\ changed' = [tool \in Tool |->
           IF tool \in pins /\ offer[tool] # pinned[tool]
           THEN changed[tool] \cup {a} ELSE changed[tool]]
    /\ Goes(a, IF interrupted THEN "failed" ELSE "audited")
    /\ UNCHANGED <<verdict, rows, sent, executed, lost>>
-----------------------------------------------------------------------------
(***************************************************************************)
(* Interruptions.                                                          *)
(***************************************************************************)

Waiting(h) == pc[h] \in {"listing", "calling"}

\* CancelledError at an await, or the list of an approval can not be had.
Cancelled(h) == /\ Waiting(h)
                /\ Goes(h, "failed")
                /\ UNCHANGED data

\* The process dies; what was written stays, what was sent is on its way.
Dies == /\ pc' = [h \in DOMAIN pc |-> IF Waiting(h) \/ pc[h] = "audited"
                                      THEN "failed" ELSE pc[h]]
        /\ UNCHANGED data

Offer == [Tool -> Definition \cup {"rejected", "not_found"}]

Next == \/ \E c \in Call : \/ BeginsCall(c)
                           \/ Listed(c)
                           \/ Sends(c)
                           \/ Executes(c)
                           \/ Returns(c)
                           \/ CallFails(c)
        \/ \E a \in Approval :
              \/ BeginsApproval(a)
              \/ \E offer \in Offer, done, half \in SUBSET Tool,
                    interrupted \in BOOLEAN :
                        Approves(a, offer, done, half, interrupted)
        \/ \E h \in Call \cup Approval : Answers(h) \/ Cancelled(h)
        \/ Dies

Spec == Init /\ [][Next]_vars
-----------------------------------------------------------------------------
CallRows == [by : Call, stage : Stage, decision : {"ALLOW", "DENY"}]

ApprovalRows == [by : Approval, tool : Tool,
                 status : {"approved", "unchanged", "updated", "rejected",
                           "not_found"}]

TypeOK == /\ pc \in [Call \cup Approval ->
                        {"new", "listing", "calling", "audited", "answered",
                         "failed"}]
          /\ verdict \in [Call -> Stage \cup {None}]
          /\ rows \in SUBSET CallRows
          /\ approvals \in SUBSET ApprovalRows
          /\ pinned \in [Tool -> Definition \cup {Unpinned}]
          /\ sent \in SUBSET Call
          /\ executed \in SUBSET sent
          /\ lost \in SUBSET Call
          /\ changed \in [Tool -> SUBSET Approval]

RowsOf(c) == {r \in rows : r.by = c}

\* The agent and the log are told the same: an answered call has exactly one
\* row, with the decision and the stage its HTTP status stands for, unless
\* that row was lost.
AgentAndLogAgree ==
    \A c \in Call \ lost : pc[c] = "answered" =>
        \E r \in rows : /\ RowsOf(c) = {r}
                        /\ r.decision = "ALLOW" <=> Answer(c) = 200
                        /\ r.decision = "DENY" => Answer(c) = StatusOf(r.stage)

\* The log tells what the server executed: a call that was executed is still
\* awaited, or was interrupted, or lost its row, or has a row of a stage that
\* comes after the call (of which "upstream" and "internal_error" leave it open
\* whether it was executed); one that was executed for certain, was.
LogTellsExecution ==
    /\ \A c \in executed : pc[c] \notin {"calling", "failed"} /\ c \notin lost =>
           \E r \in RowsOf(c) : r.stage \in Responses \cup {"upstream"}
    /\ \A r \in rows :
           /\ r.stage \in {"allowed", "output_scan"} => r.by \in executed
           /\ r.by \in executed => r.stage \in Responses \cup {"upstream"}

Claims(tool) == {a \in Approval : \E r \in approvals :
                    /\ r.by = a /\ r.tool = tool
                    /\ r.status \in {"approved", "updated"}}

\* The log tells how each pin came about, although managers approve at the
\* same time and approvals break off: it claims no change that was not made,
\* misses none of an approval that was answered and one at most of any other,
\* and says of a tool only once that it was approved for the first time.
PinsExplained ==
    /\ \A tool \in Tool :
           /\ Claims(tool) \subseteq changed[tool]
           /\ \A a \in changed[tool] \ Claims(tool) : pc[a] = "failed"
           /\ \A r1, r2 \in approvals :
                 /\ r1.tool = tool /\ r2.tool = tool
                 /\ r1.status = "approved" /\ r2.status = "approved"
                 => r1 = r2
    /\ \A a \in Approval : \A t1, t2 \in Tool :
           a \in changed[t1] \ Claims(t1) /\ a \in changed[t2] \ Claims(t2)
               => t1 = t2
=============================================================================
