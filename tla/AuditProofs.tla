---------------------------- MODULE AuditProofs ----------------------------
(***************************************************************************)
(* What module AuditTrail's log can be relied on for, for every number of  *)
(* requests, managers, tools and definitions, and what the file it is kept *)
(* in, module Store, for any number of commits.                            *)
(***************************************************************************)
EXTENDS AuditTrail, Store, TLAPS

\* A call that has its verdict has its row, or lost it; one that has none yet
\* has no row.
RowWithVerdict ==
    \A c \in Call :
        /\ pc[c] \in {"new", "listing", "calling"} => RowsOf(c) = {}
        /\ pc[c] \in {"audited", "answered"} =>
               /\ verdict[c] \in Stage
               /\ c \in lost \/ RowsOf(c) = {CallRow(c, verdict[c])}

\* What is sent has passed all checks, and its row says so.
SentKnown ==
    /\ \A c \in sent : pc[c] \notin {"new", "listing"}
    /\ \A r \in rows :
           /\ r.stage \in {"allowed", "output_scan"} => r.by \in executed
           /\ r.by \in sent => r.stage \in Responses \cup {"upstream"}

\* An approval that has not come to its loop has changed and recorded nothing,
\* and a tool that was approved is pinned.
LoopOnce ==
    /\ \A a \in Approval : pc[a] \in {"new", "listing"} =>
           /\ \A tool \in Tool : a \notin changed[tool]
           /\ \A r \in approvals : r.by # a
    /\ \A r \in approvals : r.status = "approved" => pinned[r.tool] # Unpinned

IInv == TypeOK /\ RowWithVerdict /\ SentKnown /\ LoopOnce /\ PinsExplained
-----------------------------------------------------------------------------
(***************************************************************************)
(* Calls.                                                                  *)
(***************************************************************************)

\* The stages a call may be denied or answered with are stages.
LEMMA StagesAreStages ==
    DeniesEarly \cup DeniesListed \cup Responses \cup {"upstream"} \subseteq Stage
BY DEF DeniesEarly, DeniesListed, Responses, Stage

\* A step that decides nothing keeps the invariants about calls, if it moves
\* calls only along the pipeline.
LEMMA CallsKept ==
    ASSUME RowWithVerdict, SentKnown,
           UNCHANGED <<verdict, rows, sent, executed, lost>>,
           \A c \in Call :
              /\ pc'[c] \in {"new", "listing", "calling"} =>
                     pc[c] \in {"new", "listing", "calling"}
              /\ pc'[c] \in {"audited", "answered"} =>
                     pc[c] \in {"audited", "answered"}
              /\ pc'[c] \in {"new", "listing"} => pc[c] \in {"new", "listing"},
           sent \subseteq Call
    PROVE  RowWithVerdict' /\ SentKnown'
<1>1. RowWithVerdict'
  <2> SUFFICES ASSUME NEW c \in Call
               PROVE  /\ pc'[c] \in {"new", "listing", "calling"} => RowsOf(c) = {}
                      /\ pc'[c] \in {"audited", "answered"} =>
                            /\ verdict[c] \in Stage
                            /\ c \in lost \/ RowsOf(c) = {CallRow(c, verdict[c])}
    BY DEF RowWithVerdict, RowsOf
  <2> QED
    BY DEF RowWithVerdict
<1>2. SentKnown'
  BY DEF SentKnown
<1> QED
  BY <1>1, <1>2

\* A decision keeps them, if what was sent is decided by a response or as an
\* upstream failure, and "allowed" or "output_scan" only once executed.
LEMMA DecisionKept ==
    ASSUME TypeOK, RowWithVerdict, SentKnown, NEW c \in Call, NEW stage \in Stage,
           pc[c] \in {"new", "listing", "calling"},
           c \in sent => stage \in Responses \cup {"upstream"},
           stage \in {"allowed", "output_scan"} => c \in executed,
           Decides(c, stage)
    PROVE  TypeOK' /\ RowWithVerdict' /\ SentKnown'
<1> DEFINE row == CallRow(c, stage)
<1>1. /\ pc' = [pc EXCEPT ![c] = "audited"]
      /\ verdict' = [verdict EXCEPT ![c] = stage]
      /\ UNCHANGED <<approvals, pinned, sent, executed, changed>>
      /\ \/ rows' = rows \cup {row} /\ lost' = lost
         \/ lost' = lost \cup {c} /\ rows' = rows
  BY DEF Decides, Goes
<1>2. row \in CallRows /\ row.by = c /\ row.stage = stage
  BY DEF CallRow, CallRows, Decision
<1>3. TypeOK'
  BY <1>1, <1>2 DEF TypeOK
<1>4. RowsOf(c) = {} /\ row \notin rows
  BY <1>2 DEF RowWithVerdict, RowsOf
<1>5. RowWithVerdict'
  <2> SUFFICES ASSUME NEW d \in Call
               PROVE  /\ pc'[d] \in {"new", "listing", "calling"} => RowsOf(d)' = {}
                      /\ pc'[d] \in {"audited", "answered"} =>
                            /\ verdict'[d] \in Stage
                            /\ d \in lost' \/ RowsOf(d)' = {CallRow(d, verdict'[d])}
    BY DEF RowWithVerdict
  <2>1. CASE d = c
    <3>1. pc'[c] = "audited" /\ verdict'[c] = stage
      BY <1>1 DEF TypeOK
    <3>2. c \in lost' \/ RowsOf(c)' = {row}
      BY <1>1, <1>2, <1>4 DEF RowsOf
    <3> QED
      BY <2>1, <3>1, <3>2
  <2>2. CASE d # c
    <3>1. pc'[d] = pc[d] /\ verdict'[d] = verdict[d]
      BY <1>1, <2>2 DEF TypeOK
    <3>2. RowsOf(d)' = RowsOf(d)
      BY <1>1, <1>2, <2>2 DEF RowsOf
    <3>3. lost \subseteq lost'
      BY <1>1
    <3> QED
      BY <3>1, <3>2, <3>3 DEF RowWithVerdict
  <2> QED
    BY <2>1, <2>2
<1>6. SentKnown'
  <2>1. \A d \in sent' : pc'[d] \notin {"new", "listing"}
    BY <1>1 DEF SentKnown, TypeOK
  <2>2. \A r \in rows' : r \in rows \/ r = row
    BY <1>1
  <2> QED
    BY <1>1, <1>2, <2>1, <2>2 DEF SentKnown
<1> QED
  BY <1>3, <1>5, <1>6
-----------------------------------------------------------------------------
(***************************************************************************)
(* Approvals.                                                              *)
(***************************************************************************)

\* A step that is not the loop of approve_tools() keeps the invariants about
\* approvals, if a failed one stays failed and none comes to its loop twice.
LEMMA ApprovalsKept ==
    ASSUME TypeOK, LoopOnce, PinsExplained, UNCHANGED <<approvals, pinned, changed>>,
           \A a \in Approval :
              /\ pc'[a] \in {"new", "listing"} => pc[a] \in {"new", "listing"}
              /\ pc[a] = "failed" => pc'[a] = "failed"
    PROVE  LoopOnce' /\ PinsExplained'
<1>1. \A tool \in Tool : Claims(tool)' = Claims(tool)
  BY DEF Claims
<1>2. LoopOnce'
  BY DEF LoopOnce
<1>3. \A tool \in Tool : changed'[tool] = changed[tool] /\ changed[tool] \subseteq Approval
  BY DEF TypeOK
<1>4. PinsExplained'
  BY <1>1, <1>3 DEF PinsExplained
<1> QED
  BY <1>2, <1>4

\* The loop keeps them, wherever it breaks off.
LEMMA LoopKept ==
    ASSUME TypeOK, LoopOnce, PinsExplained, NEW a \in Approval,
           NEW offer \in Offer, NEW done \in SUBSET Tool, NEW half \in SUBSET Tool,
           NEW interrupted \in BOOLEAN, Approves(a, offer, done, half, interrupted)
    PROVE  TypeOK' /\ LoopOnce' /\ PinsExplained'
<1> DEFINE pins == {tool \in done \cup half : offer[tool] \in Definition}
           row(tool) == ApprovalRow(a, tool, StatusOfOffer(tool, offer[tool]))
           Known == {"approved", "unchanged", "updated", "rejected", "not_found"}
<1>1. /\ pc[a] = "listing" /\ done \cap half = {}
      /\ \A t1, t2 \in half : t1 = t2
      /\ half # {} => interrupted
      /\ approvals' = approvals \cup {row(tool) : tool \in done}
      /\ pinned' = [tool \in Tool |-> IF tool \in pins THEN offer[tool]
                                                       ELSE pinned[tool]]
      /\ changed' = [tool \in Tool |->
             IF tool \in pins /\ offer[tool] # pinned[tool]
             THEN changed[tool] \cup {a} ELSE changed[tool]]
      /\ pc' = [pc EXCEPT ![a] = IF interrupted THEN "failed" ELSE "audited"]
      /\ UNCHANGED <<verdict, rows, sent, executed, lost>>
  BY DEF Approves, Goes, AtMostOnePending
<1>2. \A tool \in Tool : /\ offer[tool] \in Definition \cup {"rejected", "not_found"}
                         /\ pinned[tool] \in Definition \cup {Unpinned}
                         /\ changed[tool] \subseteq Approval
  BY DEF Offer, TypeOK
<1>3. \A tool \in Tool :
         /\ StatusOfOffer(tool, offer[tool]) \in Known
         /\ StatusOfOffer(tool, offer[tool]) \in {"approved", "updated"}
               <=> offer[tool] \in Definition /\ offer[tool] # pinned[tool]
         /\ StatusOfOffer(tool, offer[tool]) = "approved"
               <=> offer[tool] \in Definition /\ pinned[tool] = Unpinned
  BY <1>2, AuditAssumption DEF StatusOfOffer
<1>4. \A tool \in done : /\ row(tool) \in ApprovalRows /\ row(tool).by = a
                         /\ row(tool).tool = tool
                         /\ row(tool).status = StatusOfOffer(tool, offer[tool])
  BY <1>3 DEF ApprovalRow, ApprovalRows
<1>5. TypeOK'
  <2>1. approvals' \subseteq ApprovalRows
    BY <1>1, <1>4 DEF TypeOK
  <2>2. pinned' \in [Tool -> Definition \cup {Unpinned}]
    BY <1>1, <1>2
  <2>3. changed' \in [Tool -> SUBSET Approval]
    BY <1>1, <1>2
  <2>4. pc' \in [Call \cup Approval ->
                    {"new", "listing", "calling", "audited", "answered", "failed"}]
    BY <1>1 DEF TypeOK
  <2> QED
    BY <1>1, <2>1, <2>2, <2>3, <2>4 DEF TypeOK
<1>6. \A r \in approvals' : r \in approvals \/ \E tool \in done : r = row(tool)
  BY <1>1
<1>7. /\ \A tool \in Tool : a \notin changed[tool]
      /\ \A r \in approvals : r.by # a
  BY <1>1 DEF LoopOnce
<1>8. \A b \in Approval \ {a} : pc'[b] = pc[b]
  BY <1>1 DEF TypeOK
<1>9. pc'[a] = IF interrupted THEN "failed" ELSE "audited"
  BY <1>1 DEF TypeOK
<1>10. \A tool \in Tool : pinned[tool] # Unpinned => pinned'[tool] # Unpinned
  BY <1>1, <1>2, AuditAssumption
<1>11. LoopOnce'
  <2>1. \A b \in Approval : pc'[b] \in {"new", "listing"} =>
            /\ \A tool \in Tool : b \notin changed'[tool]
            /\ \A r \in approvals' : r.by # b
    <3> SUFFICES ASSUME NEW b \in Approval, pc'[b] \in {"new", "listing"}
                 PROVE  /\ \A tool \in Tool : b \notin changed'[tool]
                        /\ \A r \in approvals' : r.by # b
      OBVIOUS
    <3>1. b # a /\ pc[b] \in {"new", "listing"}
      BY <1>8, <1>9
    <3>2. \A tool \in Tool : b \notin changed[tool]
      BY <3>1 DEF LoopOnce
    <3>3. \A r \in approvals : r.by # b
      BY <3>1 DEF LoopOnce
    <3> QED
      BY <1>1, <1>4, <1>6, <3>1, <3>2, <3>3
  <2>2. ASSUME NEW r \in approvals', r.status = "approved"
        PROVE  pinned'[r.tool] # Unpinned
    <3>1. CASE r \in approvals
      BY <1>10, <2>2, <3>1 DEF LoopOnce, TypeOK, ApprovalRows
    <3>2. CASE \E tool \in done : r = row(tool)
      <4>1. PICK tool \in done : r = row(tool)
        BY <3>2
      <4>2. offer[tool] \in Definition /\ r.tool = tool
        BY <1>3, <1>4, <2>2, <4>1
      <4> QED
        BY <1>1, <4>2, AuditAssumption
    <3> QED
      BY <1>6, <3>1, <3>2
  <2> QED
    BY <2>1, <2>2 DEF LoopOnce
<1>12. ASSUME NEW tool \in Tool
       PROVE  Claims(tool)' = IF /\ tool \in done /\ offer[tool] \in Definition
                                 /\ offer[tool] # pinned[tool]
                              THEN Claims(tool) \cup {a} ELSE Claims(tool)
  <2>1. \A r \in approvals' : r.tool = tool => r \in approvals \/ (r = row(tool) /\ tool \in done)
    BY <1>4, <1>6
  <2>2. \A b \in Approval \ {a} : b \in Claims(tool)' <=> b \in Claims(tool)
    BY <1>1, <1>4, <2>1 DEF Claims
  <2>3. a \notin Claims(tool)
    BY <1>7 DEF Claims
  <2>4. a \in Claims(tool)' <=> /\ tool \in done /\ offer[tool] \in Definition
                                /\ offer[tool] # pinned[tool]
    <3>1. ASSUME a \in Claims(tool)'
          PROVE  /\ tool \in done /\ offer[tool] \in Definition
                 /\ offer[tool] # pinned[tool]
      <4>1. PICK r \in approvals' : /\ r.by = a /\ r.tool = tool
                                    /\ r.status \in {"approved", "updated"}
        BY <3>1 DEF Claims
      <4>2. r = row(tool) /\ tool \in done
        BY <1>7, <2>1, <4>1
      <4> QED
        BY <1>3, <1>4, <4>1, <4>2
    <3>2. ASSUME tool \in done, offer[tool] \in Definition,
                 offer[tool] # pinned[tool]
          PROVE  a \in Claims(tool)'
      <4>1. row(tool) \in approvals'
        BY <1>1, <3>2
      <4> QED
        BY <1>3, <1>4, <3>2, <4>1 DEF Claims
    <3> QED
      BY <3>1, <3>2
  <2>5. Claims(tool)' \subseteq Approval /\ Claims(tool) \subseteq Approval
    BY DEF Claims
  <2> QED
    BY <2>2, <2>3, <2>4, <2>5
<1>13. \A tool \in Tool : changed'[tool] =
           IF tool \in pins /\ offer[tool] # pinned[tool]
           THEN changed[tool] \cup {a} ELSE changed[tool]
  BY <1>1
<1>14. \A tool \in Tool, b \in Approval :
           b \in changed'[tool] \ Claims(tool)' =>
               \/ b \in changed[tool] \ Claims(tool) /\ b # a
               \/ b = a /\ tool \in half
  <2> SUFFICES ASSUME NEW tool \in Tool, NEW b \in Approval,
                      b \in changed'[tool], b \notin Claims(tool)'
               PROVE  \/ b \in changed[tool] \ Claims(tool) /\ b # a
                      \/ b = a /\ tool \in half
    OBVIOUS
  <2>1. CASE b = a
    <3>1. tool \in pins /\ offer[tool] # pinned[tool]
      BY <1>7, <1>13, <2>1
    <3>2. tool \notin done
      BY <1>12, <2>1, <3>1
    <3> QED
      BY <2>1, <3>1, <3>2
  <2>2. CASE b # a
    <3>1. b \in changed[tool]
      BY <1>13, <2>2
    <3>2. b \notin Claims(tool)
      BY <1>12
    <3> QED
      BY <2>2, <3>1, <3>2
  <2> QED
    BY <2>1, <2>2
<1>15. PinsExplained'
  <2>1. ASSUME NEW tool \in Tool PROVE Claims(tool)' \subseteq changed'[tool]
    <3>1. Claims(tool) \subseteq changed[tool]
      BY DEF PinsExplained
    <3>2. changed[tool] \subseteq changed'[tool]
      BY <1>13
    <3>3. tool \in done /\ offer[tool] \in Definition /\ offer[tool] # pinned[tool]
              => a \in changed'[tool]
      BY <1>13
    <3>4. Claims(tool)' \subseteq Claims(tool) \cup {a}
      BY <1>12
    <3>5. a \in Claims(tool)' => \/ a \in Claims(tool)
                               \/ /\ tool \in done /\ offer[tool] \in Definition
                                  /\ offer[tool] # pinned[tool]
      BY <1>12
    <3> QED
      BY <3>1, <3>2, <3>3, <3>4, <3>5
  <2>2. ASSUME NEW tool \in Tool, NEW b \in changed'[tool] \ Claims(tool)'
        PROVE  pc'[b] = "failed"
    <3>1. b \in Approval
      BY <1>5 DEF TypeOK
    <3> QED
      BY <1>1, <1>8, <1>9, <1>14, <3>1 DEF PinsExplained
  <2>3. ASSUME NEW tool \in Tool, NEW r1 \in approvals', NEW r2 \in approvals',
               r1.tool = tool, r2.tool = tool,
               r1.status = "approved", r2.status = "approved"
        PROVE  r1 = r2
    <3>1. \A r \in approvals' : r.tool = tool => r \in approvals \/ (r = row(tool) /\ tool \in done)
      BY <1>4, <1>6
    <3>2. CASE r1 \in approvals /\ r2 \in approvals
      BY <2>3, <3>2 DEF PinsExplained
    <3>3. CASE r1 = row(tool) /\ r2 = row(tool)
      BY <3>3
    <3>4. ASSUME NEW r \in approvals, r.tool = tool, r.status = "approved",
                 tool \in done, row(tool).status = "approved"
          PROVE  FALSE
      <4>1. pinned[tool] = Unpinned
        BY <1>3, <1>4, <3>4
      <4>2. pinned[tool] # Unpinned
        BY <3>4 DEF LoopOnce
      <4> QED
        BY <4>1, <4>2
    <3> QED
      BY <2>3, <3>1, <3>2, <3>3, <3>4
  <2>4. ASSUME NEW b \in Approval, NEW t1 \in Tool, NEW t2 \in Tool,
               b \in changed'[t1] \ Claims(t1)', b \in changed'[t2] \ Claims(t2)'
        PROVE  t1 = t2
    <3>1. CASE b = a
      BY <1>1, <1>14, <2>4, <3>1
    <3>2. CASE b # a
      <4>1. b \in changed[t1] \ Claims(t1) /\ b \in changed[t2] \ Claims(t2)
        BY <1>14, <2>4, <3>2
      <4> QED
        BY <4>1 DEF PinsExplained
    <3> QED
      BY <3>1, <3>2
  <2> QED
    BY <2>1, <2>2, <2>3, <2>4 DEF PinsExplained
<1> QED
  BY <1>5, <1>11, <1>15
-----------------------------------------------------------------------------
(***************************************************************************)
(* The invariant.                                                          *)
(***************************************************************************)

LEMMA InitInv == Init => IInv
<1> SUFFICES ASSUME Init PROVE IInv
  OBVIOUS
<1>1. TypeOK
  BY DEF Init, TypeOK
<1>2. RowWithVerdict /\ SentKnown /\ LoopOnce
  BY DEF Init, RowWithVerdict, RowsOf, SentKnown, LoopOnce
<1>3. PinsExplained
  BY DEF Init, PinsExplained, Claims
<1> QED
  BY <1>1, <1>2, <1>3 DEF IInv

\* Every decision of a call comes from one of four places.
LEMMA DecisionsKeep ==
    ASSUME IInv, NEW c \in Call, NEW stage,
           \/ pc[c] = "new" /\ stage \in DeniesEarly
           \/ pc[c] = "listing" /\ stage \in DeniesListed
           \/ pc[c] = "calling" /\ c \in executed /\ stage \in Responses
           \/ pc[c] = "calling" /\ stage = "upstream",
           Decides(c, stage)
    PROVE  IInv'
<1>1. stage \in Stage /\ pc[c] \in {"new", "listing", "calling"}
  BY StagesAreStages
<1>2. c \in sent => stage \in Responses \cup {"upstream"}
  BY DEF IInv, SentKnown
<1>3. stage \in {"allowed", "output_scan"} => c \in executed
  BY DEF DeniesEarly, DeniesListed
<1>4. TypeOK' /\ RowWithVerdict' /\ SentKnown'
  BY <1>1, <1>2, <1>3, DecisionKept DEF IInv
<1>5. \A a \in Approval : pc'[a] = pc[a]
  BY AuditAssumption DEF IInv, TypeOK, Decides, Goes
<1>6. UNCHANGED <<approvals, pinned, changed>>
  BY DEF Decides
<1>7. LoopOnce' /\ PinsExplained'
  BY <1>5, <1>6, ApprovalsKept DEF IInv
<1> QED
  BY <1>4, <1>7 DEF IInv

\* Steps that move one handler and nothing else.
LEMMA MovesKeep ==
    ASSUME IInv, NEW h \in Call \cup Approval, NEW to,
           \/ pc[h] = "new" /\ to = "listing"
           \/ pc[h] \in {"new", "listing"} /\ to = "failed"
           \/ h \in Call /\ pc[h] = "calling" /\ to = "failed"
           \/ h \in Approval /\ pc[h] = "calling" /\ to = "failed"
           \/ pc[h] = "listing" /\ to = "calling" /\ h \in Call
           \/ pc[h] = "audited" /\ to = "answered",
           Goes(h, to),
           UNCHANGED data
    PROVE  IInv'
<1>1. /\ pc'[h] = to
      /\ \A g \in Call \cup Approval : g # h => pc'[g] = pc[g]
      /\ pc' \in [Call \cup Approval ->
                     {"new", "listing", "calling", "audited", "answered", "failed"}]
  BY DEF IInv, TypeOK, Goes
<1>2. TypeOK'
  BY <1>1 DEF IInv, TypeOK, data
<1>3. RowWithVerdict' /\ SentKnown'
  BY <1>1, CallsKept DEF IInv, TypeOK, data
<1>4. LoopOnce' /\ PinsExplained'
  BY <1>1, ApprovalsKept DEF IInv, data
<1> QED
  BY <1>2, <1>3, <1>4 DEF IInv

LEMMA StepInv == IInv /\ [Next]_vars => IInv'
<1> SUFFICES ASSUME IInv, [Next]_vars PROVE IInv'
  OBVIOUS
<1>1. ASSUME NEW c \in Call, BeginsCall(c) PROVE IInv'
  BY <1>1, DecisionsKeep, MovesKeep DEF BeginsCall
<1>2. ASSUME NEW c \in Call, Listed(c) PROVE IInv'
  BY <1>2, DecisionsKeep, MovesKeep DEF Listed
<1>3. ASSUME NEW c \in Call, Sends(c) PROVE IInv'
  <2>1. pc[c] = "calling" /\ sent' = sent \cup {c}
        /\ UNCHANGED <<pc, verdict, rows, approvals, pinned, executed, lost, changed>>
    BY <1>3 DEF Sends, MaySend
  <2>2. TypeOK'
    BY <2>1 DEF IInv, TypeOK
  <2>3. RowWithVerdict'
    BY <2>1 DEF IInv, RowWithVerdict, RowsOf
  <2>4. SentKnown'
    BY <2>1 DEF IInv, SentKnown, RowWithVerdict, RowsOf
  <2>5. LoopOnce' /\ PinsExplained'
    BY <2>1, ApprovalsKept DEF IInv
  <2> QED
    BY <2>2, <2>3, <2>4, <2>5 DEF IInv
<1>4. ASSUME NEW c \in Call, Executes(c) PROVE IInv'
  <2>1. c \in sent /\ executed' = executed \cup {c}
        /\ UNCHANGED <<pc, verdict, rows, approvals, pinned, sent, lost, changed>>
    BY <1>4 DEF Executes
  <2>2. TypeOK'
    BY <2>1 DEF IInv, TypeOK
  <2>3. RowWithVerdict' /\ SentKnown'
    BY <2>1 DEF IInv, RowWithVerdict, RowsOf, SentKnown
  <2>4. LoopOnce' /\ PinsExplained'
    BY <2>1, ApprovalsKept DEF IInv
  <2> QED
    BY <2>2, <2>3, <2>4 DEF IInv
<1>5. ASSUME NEW c \in Call, Returns(c) PROVE IInv'
  BY <1>5, DecisionsKeep DEF Returns
<1>6. ASSUME NEW c \in Call, CallFails(c) PROVE IInv'
  BY <1>6, DecisionsKeep DEF CallFails
<1>7. ASSUME NEW a \in Approval, BeginsApproval(a) PROVE IInv'
  BY <1>7, MovesKeep DEF BeginsApproval
<1>8. ASSUME NEW a \in Approval, NEW offer \in Offer, NEW done \in SUBSET Tool,
             NEW half \in SUBSET Tool, NEW interrupted \in BOOLEAN,
             Approves(a, offer, done, half, interrupted)
      PROVE  IInv'
  <2>1. TypeOK' /\ LoopOnce' /\ PinsExplained'
    BY <1>8, LoopKept DEF IInv
  <2>2. /\ \A c \in Call : pc'[c] = pc[c]
        /\ UNCHANGED <<verdict, rows, sent, executed, lost>>
    BY <1>8, AuditAssumption DEF Approves, Goes, IInv, TypeOK
  <2>3. RowWithVerdict' /\ SentKnown'
    BY <2>2, CallsKept DEF IInv, TypeOK
  <2> QED
    BY <2>1, <2>3 DEF IInv
<1>9. ASSUME NEW h \in Call \cup Approval, Answers(h) PROVE IInv'
  BY <1>9, MovesKeep DEF Answers
<1>10. ASSUME NEW h \in Call \cup Approval, Cancelled(h) PROVE IInv'
  <2>1. \/ pc[h] = "listing"
        \/ h \in Call /\ pc[h] = "calling"
        \/ h \in Approval /\ pc[h] = "calling"
    BY <1>10 DEF Cancelled, Waiting
  <2> QED
    BY <1>10, <2>1, MovesKeep DEF Cancelled
<1>11. ASSUME Dies PROVE IInv'
  <2>1. /\ \A h \in Call \cup Approval :
              pc'[h] = IF pc[h] \in {"listing", "calling", "audited"}
                       THEN "failed" ELSE pc[h]
        /\ pc' \in [Call \cup Approval ->
                      {"new", "listing", "calling", "audited", "answered", "failed"}]
        /\ UNCHANGED <<verdict, rows, approvals, pinned, sent, executed, lost,
                       changed>>
    BY <1>11 DEF Dies, Waiting, IInv, TypeOK, data
  <2>2. TypeOK'
    BY <2>1 DEF IInv, TypeOK
  <2>3. RowWithVerdict' /\ SentKnown'
    BY <2>1, CallsKept DEF IInv, TypeOK
  <2>4. LoopOnce' /\ PinsExplained'
    BY <2>1, ApprovalsKept DEF IInv
  <2> QED
    BY <2>2, <2>3, <2>4 DEF IInv
<1>12. CASE UNCHANGED vars
  <2>1. TypeOK'
    BY <1>12 DEF vars, data, IInv, TypeOK
  <2>2. RowWithVerdict' /\ SentKnown'
    BY <1>12, CallsKept DEF vars, data, IInv, TypeOK
  <2>3. LoopOnce' /\ PinsExplained'
    BY <1>12, ApprovalsKept DEF vars, data, IInv
  <2> QED
    BY <2>1, <2>2, <2>3 DEF IInv
<1>13. CASE \E c \in Call : \/ BeginsCall(c) \/ Listed(c) \/ Sends(c)
                            \/ Executes(c) \/ Returns(c) \/ CallFails(c)
  BY <1>1, <1>2, <1>3, <1>4, <1>5, <1>6, <1>13
<1>14. CASE \E a \in Approval : \E offer \in Offer, done, half \in SUBSET Tool,
                  interrupted \in BOOLEAN :
                      Approves(a, offer, done, half, interrupted)
  BY <1>8, <1>14
<1>15. CASE \E a \in Approval : BeginsApproval(a)
  BY <1>7, <1>15
<1>16. CASE \E h \in Call \cup Approval : Answers(h) \/ Cancelled(h)
  BY <1>9, <1>10, <1>16
<1> QED
  BY <1>11, <1>12, <1>13, <1>14, <1>15, <1>16, Zenon DEF Next

\* The log's rows, the pins and the history of each handler fit together.
THEOREM AuditInvariant == Spec => []IInv
  BY InitInv, StepInv, PTL DEF Spec

\* The tables, the handlers and their history keep their shape.
THEOREM AuditTypeCorrect == Spec => []TypeOK
<1>1. IInv => TypeOK
  BY DEF IInv
<1> QED
  BY <1>1, AuditInvariant, PTL

\* The agent and the log are told the same, in any interleaving of requests,
\* cancellations and crashes, unless the row was lost.
THEOREM AgentAndLogAgreeHolds == Spec => []AgentAndLogAgree
<1>1. IInv => AgentAndLogAgree
  <2> SUFFICES ASSUME IInv, NEW c \in Call, c \notin lost, pc[c] = "answered"
               PROVE  \E r \in rows : /\ RowsOf(c) = {r}
                                      /\ r.decision = "ALLOW" <=> Answer(c) = 200
                                      /\ r.decision = "DENY" =>
                                            Answer(c) = StatusOf(r.stage)
    BY DEF AgentAndLogAgree
  <2> DEFINE r == CallRow(c, verdict[c])
  <2>1. verdict[c] \in Stage /\ RowsOf(c) = {r}
    BY DEF IInv, RowWithVerdict
  <2>2. r \in rows
    BY <2>1 DEF RowsOf
  <2>3. r.decision = Decision(verdict[c]) /\ r.stage = verdict[c]
    BY DEF CallRow
  <2>4. StatusOf(verdict[c]) # 200
    BY DEF StatusOf
  <2>5. /\ r.decision = "ALLOW" <=> Answer(c) = 200
        /\ r.decision = "DENY" => Answer(c) = StatusOf(r.stage)
    BY <2>3, <2>4 DEF Answer, Decision
  <2> QED
    BY <2>1, <2>2, <2>5
<1> QED
  BY <1>1, AuditInvariant, PTL

\* The log tells what the server executed, however late it got to a call.
THEOREM LogTellsExecutionHolds == Spec => []LogTellsExecution
<1>1. IInv => LogTellsExecution
  <2> SUFFICES ASSUME IInv PROVE LogTellsExecution
    OBVIOUS
  <2>1. ASSUME NEW c \in executed, pc[c] \notin {"calling", "failed"}, c \notin lost
        PROVE  \E r \in RowsOf(c) : r.stage \in Responses \cup {"upstream"}
    <3>1. c \in Call /\ c \in sent /\ pc[c] \in {"audited", "answered"}
      BY <2>1 DEF IInv, TypeOK, SentKnown
    <3>2. CallRow(c, verdict[c]) \in RowsOf(c)
      BY <2>1, <3>1 DEF IInv, RowWithVerdict
    <3> QED
      BY <3>1, <3>2 DEF RowsOf, IInv, SentKnown
  <2>2. \A r \in rows : /\ r.stage \in {"allowed", "output_scan"} => r.by \in executed
                        /\ r.by \in executed => r.stage \in Responses \cup {"upstream"}
    BY DEF IInv, SentKnown, TypeOK
  <2> QED
    BY <2>1, <2>2 DEF LogTellsExecution
<1> QED
  BY <1>1, AuditInvariant, PTL

\* The log explains every pin but one per interrupted approval.
THEOREM PinsExplainedHolds == Spec => []PinsExplained
<1>1. IInv => PinsExplained
  BY DEF IInv
<1> QED
  BY <1>1, AuditInvariant, PTL
-----------------------------------------------------------------------------
(***************************************************************************)
(* A call loses its row only if a write to the log fails.  When a write    *)
(* can fail, and what becomes of the reads then, is up to the store.       *)
(***************************************************************************)

\* However the server, the other processes and crashes interleave, the server
\* holds the write lock only inside a transaction, and no transaction of its
\* sees more of the file than has been committed.
THEOREM StoreTypeCorrect == StoreSpec => []StoreTypeOK
<1>1. StoreInit => StoreTypeOK
  BY DEF StoreInit, StoreTypeOK, Causes
<1>2. StoreTypeOK /\ [StoreNext]_storeVars => StoreTypeOK'
  <2> SUFFICES ASSUME StoreTypeOK, [StoreNext]_storeVars
               PROVE  StoreTypeOK'
    OBVIOUS
  <2>1. CASE Queries
    BY <2>1 DEF Queries, QueryReads, StoreTypeOK
  <2>2. CASE Asks
    BY <2>2 DEF Asks, StoreTypeOK
  <2>3. CASE Inserts
    BY <2>3 DEF Inserts, MayWrite, StoreTypeOK
  <2>4. CASE Fails
    BY <2>4 DEF Fails, StoreTypeOK, Causes
  <2>5. CASE Refused
    BY <2>5 DEF Refused, MayWrite, StoreTypeOK, Causes
  <2>6. CASE Breaks
    BY <2>6 DEF Breaks, MayWrite, StoreTypeOK, Causes
  <2>7. CASE Commits
    BY <2>7 DEF Commits, StoreTypeOK
  <2>8. CASE OtherLocks
    BY <2>8 DEF OtherLocks, StoreTypeOK
  <2>9. CASE OtherEnds
    BY <2>9 DEF OtherEnds, StoreTypeOK
  <2>10. CASE Restarts
    BY <2>10 DEF Restarts, StoreTypeOK
  <2>11. CASE UNCHANGED storeVars
    BY <2>11 DEF storeVars, StoreTypeOK
  <2>12. QED
    BY <2>1, <2>2, <2>3, <2>4, <2>5, <2>6, <2>7, <2>8, <2>9, <2>10, <2>11
       DEF StoreNext
<1>3. QED
  BY <1>1, <1>2, PTL DEF StoreSpec
-----------------------------------------------------------------------------
(***************************************************************************)
(* A transaction the server leaves open between two operations is left by  *)
(* a lock or by a refused row.  As long as no write has met a lock, it is  *)
(* of a refused row, so it holds the lock, and the file cannot change      *)
(* under its snapshot.                                                     *)
(***************************************************************************)
Guarded == /\ txn # "none" /\ op = "idle" => writer = "server"
           /\ txn = "reading" => writer = "server" /\ snapshot = commits
           /\ seen.saw = seen.was

StoreIInv == /\ "locked" \notin failed => Guarded /\ "stale" \notin failed
             /\ LockLeftByRefusal

LEMMA StoreIInvInit == StoreInit => StoreIInv
BY DEF StoreInit, StoreIInv, Guarded, LockLeftByRefusal

LEMMA GuardedStep ==
    ASSUME StoreTypeOK, StoreIInv, [StoreNext]_storeVars, "locked" \notin failed'
    PROVE  Guarded' /\ failed' \in {failed, failed \cup {"disk"},
                                    failed \cup {"refused"}, {}}
<1>1. ASSUME "locked" \notin failed
      PROVE  Guarded /\ "stale" \notin failed
  BY <1>1 DEF StoreIInv
<1>2. CASE Queries
  BY <1>1, <1>2 DEF Queries, QueryReads, Guarded, StoreTypeOK
<1>3. CASE Asks
  BY <1>1, <1>3 DEF Asks, Guarded
<1>4. CASE Inserts
  BY <1>1, <1>4 DEF Inserts, MayWrite, Guarded
<1>5. CASE Fails
  BY <1>1, <1>5 DEF Fails, Stale, Guarded
<1>6. CASE Refused
  BY <1>1, <1>6 DEF Refused, Guarded
<1>7. CASE Breaks
  BY <1>1, <1>7 DEF Breaks, Guarded
<1>8. CASE Commits
  BY <1>1, <1>8 DEF Commits, Guarded
<1>9. CASE OtherLocks
  BY <1>1, <1>9 DEF OtherLocks, Guarded
<1>10. CASE OtherEnds
  BY <1>1, <1>10 DEF OtherEnds, Guarded
<1>11. CASE Restarts
  BY <1>11 DEF Restarts, Guarded
<1>12. CASE UNCHANGED storeVars
  BY <1>1, <1>12 DEF storeVars, Guarded
<1>13. QED
  BY <1>2, <1>3, <1>4, <1>5, <1>6, <1>7, <1>8, <1>9, <1>10, <1>11, <1>12
     DEF StoreNext

LEMMA LeftLockStep ==
    ASSUME StoreTypeOK, StoreIInv, [StoreNext]_storeVars
    PROVE  LockLeftByRefusal'
BY DEF StoreTypeOK, StoreIInv, LockLeftByRefusal, StoreNext, Queries, Asks,
       Inserts, Fails, Refused, Breaks, Commits, OtherLocks, OtherEnds,
       Restarts, storeVars

LEMMA StoreIInvStep ==
    StoreTypeOK /\ StoreIInv /\ [StoreNext]_storeVars => StoreIInv'
<1> SUFFICES ASSUME StoreTypeOK, StoreIInv, [StoreNext]_storeVars
             PROVE  StoreIInv'
  OBVIOUS
<1>1. ASSUME "locked" \notin failed'
      PROVE  Guarded' /\ "stale" \notin failed'
  <2>1. Guarded' /\ failed' \in {failed, failed \cup {"disk"},
                                 failed \cup {"refused"}, {}}
    BY <1>1, GuardedStep
  <2>2. QED
    BY <1>1, <2>1 DEF StoreIInv
<1>2. QED
  BY <1>1, LeftLockStep DEF StoreIInv

LEMMA StoreIInvHolds == StoreSpec => []StoreIInv
BY StoreIInvInit, StoreIInvStep, StoreTypeCorrect, PTL DEF StoreSpec

\* Until one of its writes has met a lock that outlasts the busy timeout,
\* every read of the server is current, even after writes that failed for a
\* full disk or a refused row.
THEOREM CurrentUntilLockedHolds == StoreSpec => []CurrentUntilLocked
<1>1. StoreIInv => CurrentUntilLocked
  BY DEF StoreIInv, Guarded, CurrentUntilLocked
<1>2. QED
  BY <1>1, StoreIInvHolds, PTL

\* No full disk and no refused row makes later writes fail: for that, one
\* write has met a lock.
THEOREM OutageNeedsLockHolds == StoreSpec => []OutageNeedsLock
<1>1. StoreIInv => OutageNeedsLock
  BY DEF StoreIInv, OutageNeedsLock
<1>2. QED
  BY <1>1, StoreIInvHolds, PTL

\* The server keeps the write lock between two operations only after a refused
\* row.
THEOREM LockLeftByRefusalHolds == StoreSpec => []LockLeftByRefusal
<1>1. StoreIInv => LockLeftByRefusal
  BY DEF StoreIInv
<1>2. QED
  BY <1>1, StoreIInvHolds, PTL

\* If no other process holds the lock for longer than the busy timeout, every
\* write that fails does so for a disk or a row of its own, and every read is
\* current, however many writes fail: both findings about the store need a
\* lock that outlasts the timeout, once.
THEOREM HealthyUnlessOutlasted ==
    ~LockOutlasts => (StoreSpec => [](FailsByItself /\ ReadsAreCurrent))
<1> DEFINE Unlocked == "locked" \notin failed
<1> SUFFICES ASSUME ~LockOutlasts
             PROVE  StoreSpec => [](FailsByItself /\ ReadsAreCurrent)
  OBVIOUS
<1>1. StoreInit => Unlocked
  BY DEF StoreInit
<1>2. Unlocked /\ StoreIInv /\ [StoreNext]_storeVars => Unlocked'
  <2> SUFFICES ASSUME Unlocked, StoreIInv, [StoreNext]_storeVars
               PROVE  Unlocked'
    OBVIOUS
  <2>1. ~Fails \/ failed' = failed \cup {"stale"}
    BY DEF StoreIInv, Guarded, Fails
  <2>2. QED
    BY <2>1 DEF StoreNext, Queries, Asks, Inserts, Refused, Breaks, Commits,
       OtherLocks, OtherEnds, Restarts, storeVars
<1>3. Unlocked /\ StoreIInv => FailsByItself /\ ReadsAreCurrent
  BY DEF StoreIInv, Guarded, FailsByItself, ReadsAreCurrent
<1>4. QED
  BY <1>1, <1>2, <1>3, StoreIInvHolds, PTL DEF StoreSpec
=============================================================================
