----------------------------- MODULE SearchIndex -----------------------------
(***************************************************************************)
(* The full-text index of a workspace's notes.  Every change of notes      *)
(* commits an intent to sync them; the handler of the intent reads the     *)
(* notes again and writes what it has read.  An operator may rebuild the   *)
(* index meanwhile.  The index keeps no version: the last write wins.      *)
(*                                                                         *)
(* A document stands for the state of its note, named by the moment of its *)
(* last change.  A page of the rebuild holds every note here.              *)
(***************************************************************************)
EXTENDS JobConsumer, FiniteSets

CONSTANTS
    Notes,
    MaxChanges,    \* bound: transactions that change notes
    MaxReindexes   \* bound: rebuilds begun

ASSUME SearchAssumption == MaxChanges \in Nat

NoDocument == 0    \* no document, and the state of a note that is trashed or gone

VARIABLES
    stateOf,       \* the state of each note
    clock,         \* moment of the last change
    batch,         \* the notes of each intent
    index,         \* the document of each note
    syncing,       \* what each invocation is doing, and the notes it has read
    reindex,       \* the rebuild under way
    overlapped     \* whether a writer of the index ever overlapped another

searchVars == <<jobVars, stateOf, clock, batch, index, syncing, reindex, overlapped>>

Blank == [n \in Notes |-> NoDocument]
LiveNotes(ids) == {n \in ids : stateOf[n] # NoDocument}
Documents(state, ids) == [n \in Notes |-> IF n \in ids THEN state[n] ELSE NoDocument]
Present(documents) == {n \in Notes : documents[n] # NoDocument}

Idle == [pc |-> "idle", read |-> Blank, ids |-> {}]
NoReindex == [pc |-> "none", read |-> Blank, ids |-> {}, boundary |-> 0, begun |-> 0,
              quiet |-> FALSE]

IndexInit ==
    /\ stateOf = Blank
    /\ clock = 0
    /\ batch = [j \in Jobs |-> {}]
    /\ index = Blank
    /\ syncing = [w \in Workers |-> Idle]
    /\ reindex = NoReindex
    /\ overlapped = FALSE

SearchInit == JobInit /\ IndexInit

Upsert(documents) ==
    index' = [n \in Notes |-> IF documents[n] # NoDocument THEN documents[n] ELSE index[n]]
Remove(ids) == index' = [n \in Notes |-> IF n \in ids THEN NoDocument ELSE index[n]]

\* A writer is at work between its reading and its writing.
Writing == {w \in Workers : syncing[w].pc # "idle"}
AtWork == Writing # {} \/ reindex.pc # "none"
Overlap == overlapped' = (overlapped \/ AtWork)

----------------------------------------------------------------------------
(* Changes of notes, and scheduleSearchSync in their transactions.         *)

\* A created, edited or restored note is in a new state; a trashed or deleted one has none.
change(j, ids, live) ==
    /\ clock < MaxChanges
    /\ ids # {}
    /\ ~live => ids = LiveNotes(ids)
    /\ clock' = clock + 1
    /\ stateOf' = [n \in Notes |-> IF n \notin ids THEN stateOf[n]
                                ELSE IF live THEN clock + 1 ELSE NoDocument]
    /\ Accept(j)
    /\ batch' = [batch EXCEPT ![j] = ids]
    /\ reindex' = [reindex EXCEPT !.quiet = FALSE]
    /\ UNCHANGED <<index, syncing, overlapped>>

----------------------------------------------------------------------------
(* The handler of note.search.sync.                                        *)

Syncing(w, pc) == syncing[w].pc = pc
Sync(w, s) == syncing' = [syncing EXCEPT ![w] = s]
Unread == <<stateOf, clock, batch>>

\* loadDocumentsForNoteIds.
handleRead(w, j) ==
    /\ Begin(w, j)
    /\ Sync(w, [pc |-> "upsert", read |-> Documents(stateOf, batch[j]), ids |-> batch[j]])
    /\ Overlap
    /\ reindex' = [reindex EXCEPT !.quiet = FALSE]
    /\ UNCHANGED <<Unread, index>>

handleUpsert(w) ==
    /\ Syncing(w, "upsert")
    /\ Upsert(syncing[w].read)
    /\ Sync(w, [syncing[w] EXCEPT !.pc = "delete"])
    /\ UNCHANGED <<jobVars, Unread, reindex, overlapped>>

\* Mutant: what was not found is left in the index.
handleKeeps(w) ==
    /\ Syncing(w, "delete")
    /\ Sync(w, Idle)
    /\ Returns(w)
    /\ UNCHANGED <<Unread, index, reindex, overlapped>>

\* deleteWorkspaceDocumentsByIds: those that were not found.
handleDelete(w) ==
    /\ Syncing(w, "delete")
    /\ Remove(syncing[w].ids \ Present(syncing[w].read))
    /\ Sync(w, Idle)
    /\ Returns(w)
    /\ UNCHANGED <<Unread, reindex, overlapped>>

\* The process dies, or a read or a write fails.
handleFails(w) ==
    /\ syncing[w].pc # "idle"
    /\ Fails(w) \/ Dies(w)
    /\ Sync(w, Idle)
    /\ UNCHANGED <<Unread, index, reindex, overlapped>>

around == Around /\ UNCHANGED <<Unread, index, syncing, reindex, overlapped>>

----------------------------------------------------------------------------
(* reindexActiveWorkspace.                                                 *)

Reindexing(pc) == reindex.pc = pc
Reindex(pc, documents, ids) ==
    reindex' = [reindex EXCEPT !.pc = pc, !.read = documents, !.ids = ids]
Elsewhere == UNCHANGED <<jobVars, Unread, syncing>>

\* The notes changed up to the boundary.
reindexPage ==
    /\ Reindexing("none") /\ reindex.begun < MaxReindexes
    /\ reindex' = [pc |-> "project", read |-> Documents(stateOf, Notes), ids |-> {},
                   boundary |-> clock, begun |-> reindex.begun + 1,
                   quiet |-> Writing = {} /\ \A j \in Jobs : phase[j] # "executing"]
    /\ Overlap
    /\ Elsewhere /\ UNCHANGED index

reindexProject ==
    /\ Reindexing("project")
    /\ Upsert(reindex.read)
    /\ Reindex("list", Blank, {})
    /\ Elsewhere /\ UNCHANGED overlapped

\* A page of the index.
reindexList ==
    /\ Reindexing("list")
    /\ Reindex("liveness", Blank, Present(index))
    /\ Elsewhere /\ UNCHANGED <<index, overlapped>>

\* loadNoteLiveness: what is stale is kept in ids, what changed since is read again.
reindexLiveness ==
    /\ Reindexing("liveness")
    /\ Reindex("drift",
               Documents(stateOf, {n \in LiveNotes(reindex.ids) : stateOf[n] > reindex.boundary}),
               reindex.ids \ LiveNotes(reindex.ids))
    /\ Elsewhere /\ UNCHANGED <<index, overlapped>>

reindexDrift ==
    /\ Reindexing("drift")
    /\ Upsert(reindex.read)
    /\ Reindex("stale", Blank, reindex.ids)
    /\ Elsewhere /\ UNCHANGED overlapped

\* Mutant: the rebuild writes documents and removes none.
reindexKeepsStale ==
    /\ Reindexing("stale")
    /\ Reindex("recreated", Blank, reindex.ids)
    /\ Elsewhere /\ UNCHANGED <<index, overlapped>>

reindexStale ==
    /\ Reindexing("stale")
    /\ Remove(reindex.ids)
    /\ Reindex("recreated", Blank, reindex.ids)
    /\ Elsewhere /\ UNCHANGED overlapped

\* A note that came back meanwhile; its documents are read, then written.
reindexRecreated ==
    /\ Reindexing("recreated")
    /\ Reindex("finish", Documents(stateOf, reindex.ids), {})
    /\ Elsewhere /\ UNCHANGED <<index, overlapped>>

reindexFinish ==
    /\ Reindexing("finish")
    /\ Upsert(reindex.read)
    /\ Reindex("none", Blank, {})
    /\ Elsewhere /\ UNCHANGED overlapped

----------------------------------------------------------------------------

Handling(w) == handleUpsert(w) \/ handleDelete(w)
ReindexStep ==
    \/ reindexProject \/ reindexList \/ reindexLiveness
    \/ reindexDrift \/ reindexStale \/ reindexRecreated \/ reindexFinish

SearchNext ==
    \/ \E j \in Jobs, ids \in SUBSET Notes, live \in BOOLEAN : change(j, ids, live)
    \/ \E w \in Workers :
          \/ \E j \in Jobs : handleRead(w, j)
          \/ Handling(w) \/ handleFails(w)
    \/ around
    \/ reindexPage \/ ReindexStep

SearchSpec == SearchInit /\ [][SearchNext]_searchVars

\* Accepted intents are delivered, handlers and rebuilds go on.
SearchFairness ==
    /\ \A j \in Jobs : WF_searchVars(\E w \in Workers : handleRead(w, j))
    /\ \A w \in Workers : WF_searchVars(Handling(w))
    /\ WF_searchVars(ReindexStep)

----------------------------------------------------------------------------
(* Properties.                                                             *)

\* The variables keep their types; an invocation that syncs handles an intent.
SearchTypeOK ==
    /\ stateOf \in [Notes -> 0..MaxChanges]
    /\ index \in [Notes -> 0..MaxChanges]
    /\ \A w \in Workers : syncing[w].pc # "idle" => handling[w] # NoJob

\* The index holds the current state of every note in the end, unless two writers of it
\* were at work at the same time (scheduleSearchSync, note-index-job-handler.service.ts).
LoneWriterConverges == <>[](Struck \/ overlapped \/ index = stateOf)

\* A rebuild repairs the index, whatever was lost before, if nothing changed meanwhile.
RebuildRepairs ==
    [][Reindexing("finish") /\ reindex.quiet /\ reindex'.pc = "none" => index' = stateOf]_searchVars

\* A document that is not the note's current state has an open intent, an overlap of two
\* writers or a fault to blame for it: a rebuild by itself puts nothing out of date.
DriftIsExplained ==
    Struck \/ overlapped \/ \A n \in Notes :
        index[n] # stateOf[n] =>
            \E j \in Jobs : n \in batch[j] /\ phase[j] \in {"accepted", "executing"}

\* The index is explained at every moment.
IndexInv == SearchTypeOK /\ DriftIsExplained
=============================================================================
