---------------------------- MODULE QueueLedger ----------------------------
(***************************************************************************)
(* What the prompt queue promises about each prompt (the header and        *)
(* SerializedQueueTransactions of src/agent/promptQueue.ts, sendQueued of  *)
(* src/ui/ChatApp.tsx): a prompt is sent at most once, only from the       *)
(* queue, and once sent it is never queued again, whatever saves fail,     *)
(* whatever session the view has moved to and wherever the plugin is       *)
(* restarted.  PromptQueue implements it.                                  *)
(***************************************************************************)
CONSTANT Entries      \* the prompts

VARIABLE fate         \* what has become of each prompt

Fates == {"fresh", "offered", "queued", "sent", "gone"}

Init == fate = [e \in Entries |-> "fresh"]

\* A prompt is offered once; it enters the queue or is dropped; it leaves the
\* queue by being sent or discarded.  A restart drops an offer, and may bring
\* back a discarded prompt whose discard never reached the disk.
MayBecome(f) ==
    CASE f = "fresh"   -> {"fresh", "offered"}
      [] f = "offered" -> {"offered", "queued", "gone"}
      [] f = "queued"  -> {"queued", "sent", "gone"}
      [] f = "gone"    -> {"gone", "queued"}
      [] f = "sent"    -> {"sent"}

Next ==
    /\ fate' \in [Entries -> Fates]
    /\ \A e \in Entries : fate'[e] \in MayBecome(fate[e])

Spec == Init /\ [][Next]_fate
=============================================================================
