------------------------------ MODULE Summaries ------------------------------
(***************************************************************************)
(* The AI summary of a finding: the request of a user marks it pending and *)
(* enqueues a task, the agent writes one summary for all findings of the   *)
(* same signature.  The cache of signatures and the findings are updated   *)
(* one after the other.  (The scans enqueue no summaries: the call is      *)
(* commented out.)                                                         *)
(***************************************************************************)
EXTENDS Tasks, TLC

CONSTANTS
  Summarized,  \* findings
  Described,   \* those that carry a description of their own
  Signature    \* the fingerprint of scanner, rule, title and raw payload

VARIABLES
  summaries,    \* of each finding: its state, and whether the text and the fingerprint are there
  summaryCache, \* of each fingerprint known: its status and whether there is a text
  forsaken      \* history: fingerprints whose request or task was lost

summaryVars == <<summaries, summaryCache, forsaken>>

SummariesInit ==
  /\ summaries = [f \in Summarized |-> [state |-> "none", text |-> FALSE, signed |-> FALSE]]
  /\ summaryCache = <<>> /\ forsaken = {}

Summarize(f) == Task("summarize", f)

-----------------------------------------------------------------------------
(* PrepareAISummary, for a request and for the agent: `then` says which.   *)
(* It reads the finding and the cache, writes the cache, then the finding. *)

Prepared(c, state) == [c EXCEPT !.op = c.then, !.state = state]

PrepareAISummary(h) ==
  /\ At(h, "prepare")
  /\ LET c == call[h]
         fp == Signature[c.finding]
         known == fp \in DOMAIN summaryCache /\ summaryCache[fp].text
         found == IF fp \in DOMAIN summaryCache THEN summaryCache[fp].status ELSE "absent"
     IN
       \/ /\ c.finding \in Described
          /\ summaries' = [summaries EXCEPT ![c.finding].state = "none"]
          /\ Proceed(h, Prepared(c, "none")) /\ UNCHANGED summaryCache
       \/ /\ c.finding \notin Described /\ known
          /\ summaries' = [summaries EXCEPT ![c.finding] = [state |-> "ready", text |-> TRUE, signed |-> TRUE]]
          /\ Proceed(h, Prepared(c, "ready")) /\ UNCHANGED summaryCache
       \/ /\ c.finding \notin Described /\ ~known
          /\ Proceed(h, [c EXCEPT !.op = IF found = "pending" THEN "mark" ELSE "claim",
                               !.state = found])
          /\ UNCHANGED <<summaries, summaryCache>>
  /\ UNCHANGED <<forsaken, taskVars>>

\* INSERT ... DO NOTHING of a new entry, or the reset of one that was found
\* failed, whatever it has become.
ClaimSummary(h) ==
  /\ At(h, "claim")
  /\ LET fp == Signature[call[h].finding] IN
       summaryCache' = IF call[h].state = "failed"
                         THEN [summaryCache EXCEPT ![fp].status = "pending"]
                         ELSE AddRow(summaryCache, fp, [status |-> "pending", text |-> FALSE])
  /\ Proceed(h, [call[h] EXCEPT !.op = "mark", !.claimed = TRUE])
  /\ UNCHANGED <<summaries, forsaken, taskVars>>

MarkPending(h) ==
  /\ At(h, "mark")
  /\ summaries' = [summaries EXCEPT ![call[h].finding] =
                     [@ EXCEPT !.state = "pending", !.signed = TRUE]]
  /\ Proceed(h, Prepared(call[h], "pending"))
  /\ UNCHANGED <<summaryCache, forsaken, taskVars>>

-----------------------------------------------------------------------------
(* The request.                                                            *)

RequestFindingSummary(h, f) ==
  /\ summaries[f].state \notin {"pending", "ready"}
  /\ Begin("summary", h, [op |-> "prepare", finding |-> f, then |-> "enqueue",
                          state |-> "unknown", claimed |-> FALSE])
  /\ UNCHANGED <<summaryVars, taskVars>>

\* A failed preparation is logged, and the task enqueued all the same.
PrepareFails(h) ==
  /\ call[h].op \in {"prepare", "claim", "mark"} /\ call[h].then = "enqueue"
  /\ Count("fault")
  /\ call' = [call EXCEPT ![h] = Prepared(@, "unknown")]
  /\ UNCHANGED <<summaryVars, taskVars>>

\* asynq.Unique: the task of the finding that is there already is enough.
Submitted(f) ==
  \/ \E n \in 0..MaxRetry : BagIn([Summarize(f) EXCEPT !.tries = n], tasks)
  \/ \E g \in Handlers : Works(g) /\ call[g].task.to = "summarize" /\ call[g].task.about = f

\* Faulty: only the request that claimed the entry enqueues.
EnqueueIfClaimed(h) ==
  /\ At(h, "enqueue")
  /\ LET c == call[h] IN
       IF c.state = "ready" \/ ~c.claimed \/ Submitted(c.finding)
         THEN UNCHANGED taskVars
         ELSE Enqueue({Summarize(c.finding)})
  /\ Return(h)
  /\ UNCHANGED summaryVars

EnqueueSummary(h) ==
  /\ At(h, "enqueue")
  /\ LET c == call[h] IN
       IF c.state = "ready" \/ Submitted(c.finding)
         THEN UNCHANGED taskVars
         ELSE Enqueue({Summarize(c.finding)})
  /\ Return(h)
  /\ UNCHANGED summaryVars

-----------------------------------------------------------------------------
(* The agent.                                                              *)

HandleFindingSummarize(h, t) ==
  /\ t.to = "summarize"
  /\ Lease(h, t, [op |-> "source", finding |-> t.about, then |-> "generate",
                  state |-> "unknown", claimed |-> FALSE, task |-> t])
  /\ UNCHANGED summaryVars

GetSummarySource(h) ==
  /\ At(h, "source")
  /\ LET f == call[h].finding IN
       IF f \in Described \/ summaries[f].text
         THEN Acknowledge(h)
         ELSE Proceed(h, [call[h] EXCEPT !.op = "prepare"]) /\ UNCHANGED taskVars
  /\ UNCHANGED summaryVars

\* The provider answers, or fails, or its answer is empty.
GenerateSummary(h) ==
  /\ At(h, "generate")
  /\ LET c == call[h] IN
       \/ c.state = "ready" /\ Acknowledge(h)
       \/ c.state # "ready" /\ Proceed(h, [c EXCEPT !.op = "store"]) /\ UNCHANGED taskVars
       \/ /\ c.state # "ready" /\ Count("fault") /\ UNCHANGED taskVars
          /\ call' = [call EXCEPT ![h].op = "fail"]
  /\ UNCHANGED summaryVars

StoreAISummary(h) ==
  /\ At(h, "store")
  /\ summaryCache' = PutRow(summaryCache, Signature[call[h].finding], [status |-> "ready", text |-> TRUE])
  /\ Proceed(h, [call[h] EXCEPT !.op = "stored"])
  /\ UNCHANGED <<summaries, forsaken, taskVars>>

\* All findings that carry the fingerprint by now.
SignedBy(fp) == {f \in Summarized : summaries[f].signed /\ Signature[f] = fp}

ShareSummary(h) ==
  /\ At(h, "stored")
  /\ LET shared == SignedBy(Signature[call[h].finding]) IN
       summaries' = [f \in Summarized |-> IF f \in shared
                       THEN [summaries[f] EXCEPT !.state = "ready", !.text = TRUE] ELSE summaries[f]]
  /\ Acknowledge(h)
  /\ UNCHANGED <<summaryCache, forsaken>>

\* Whatever the entry has become in between.
MarkAISummaryFailed(h) ==
  /\ At(h, "fail")
  /\ summaryCache' = [summaryCache EXCEPT ![Signature[call[h].finding]].status = "failed"]
  /\ Proceed(h, [call[h] EXCEPT !.op = "failed"])
  /\ UNCHANGED <<summaries, forsaken, taskVars>>

ShareFailure(h) ==
  /\ At(h, "failed")
  /\ LET shared == SignedBy(Signature[call[h].finding]) IN
       summaries' = [f \in Summarized |-> IF f \in shared
                       THEN [summaries[f] EXCEPT !.state = "failed"] ELSE summaries[f]]
  /\ Fail(h)
  /\ UNCHANGED <<summaryCache, forsaken>>

SummariesNext ==
  \E h \in Handlers :
    \/ PrepareAISummary(h) \/ ClaimSummary(h) \/ MarkPending(h)
    \/ \E f \in Summarized : RequestFindingSummary(h, f)
    \/ PrepareFails(h) \/ EnqueueSummary(h)
    \/ \E t \in BagToSet(tasks) : HandleFindingSummarize(h, t)
    \/ GetSummarySource(h) \/ GenerateSummary(h)
    \/ StoreAISummary(h) \/ ShareSummary(h) \/ MarkAISummaryFailed(h) \/ ShareFailure(h)

Summarizing(h) == "then" \in DOMAIN call[h]

\* A request is gone; a task is gone after its last try.
SummariesCutOff(h) ==
  /\ forsaken' = IF Summarizing(h) /\ (Works(h) => call[h].task.tries = MaxRetry)
                   THEN forsaken \cup {Signature[call[h].finding]} ELSE forsaken
  /\ UNCHANGED <<summaries, summaryCache>>

-----------------------------------------------------------------------------
\* A finding that has no summary and is pending gets one: a request or an
\* agent of its own is at work, or its own task waits, so that it need not
\* wait for those of its signature.  The writers of a signature, of which one
\* fails while another prepares, leave none behind; only a lost request does
\* (PrepareAISummary).  A finding that is pending although its text is there
\* may stay so: MarkPending overtakes the agent, and the next agent returns
\* when it sees the text.
SummariesAreAwaited ==
  \A f \in Summarized :
    summaries[f].state = "pending" /\ ~summaries[f].text =>
      \/ Signature[f] \in forsaken
      \/ Submitted(f)
      \/ \E h \in Handlers : Summarizing(h) /\ call[h].finding = f
=============================================================================
