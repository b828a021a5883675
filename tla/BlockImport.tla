---------------------------- MODULE BlockImport ----------------------------
(***************************************************************************)
(* Import of block files: ImportBlocks (kernel/blockimport.cpp) rebuilds   *)
(* the block index from the blk files after -reindex and then reads the    *)
(* -loadblock files, each through ImportExternalBlockFile                  *)
(* (kernel/block_import_pipeline.cpp).  A block found before its parent is *)
(* deferred by its position in a bounded index.  The node may be           *)
(* interrupted, may crash, and is started again; a flag in the block tree  *)
(* database says that the rebuilding is to be continued.  Clients of the   *)
(* kernel bring headers, and blocks once the files are indexed, meanwhile. *)
(***************************************************************************)
EXTENDS Integers, Sequences, FiniteSets, SequencesExt

CONSTANTS
  Genesis, None,
  Blocks,         \* the blocks other than genesis
  Parent,         \* block -> previous block
  HeaderBad,      \* blocks whose header breaks a rule
  BodyBad,        \* blocks that break a rule AcceptBlock checks
  Scenarios,      \* what is on disk and asked for, see Init
  MaxInterrupts, MaxCrashes  \* bounds

Tree == Blocks \cup {Genesis}
\* A record of a file: a block, or a damaged copy of it that has the same header.
Records == [hash : Tree, body : {"good", "mutated", "unreadable"}]

ASSUME ImportAssumption ==
  /\ Genesis \notin Blocks /\ None \notin Tree /\ IsFiniteSet(Blocks)
  /\ Parent \in [Blocks -> Tree]
  /\ HeaderBad \subseteq Blocks /\ BodyBad \subseteq Blocks
  /\ \A s \in Scenarios : s.files \in Seq(Seq(Records)) /\ s.load \in Seq(Seq(Records)) /\ s.max \in Nat

VARIABLES
  scenario,   \* files, load: the blk and the -loadblock files; max: m_max_entries;
              \* prune: prune mode; headers, blocks: what the clients bring
  index,      \* block index: [known, have, failed |-> sets of blocks, rebuilt |-> it stems
              \* from a complete scan (history)]
  tip,        \* of the active chain, None before genesis is connected
  disk,       \* block tree and coins databases: [index, tip, reindexing |-> DB_REINDEX_FLAG]
  m_blockfiles_indexed, m_importing,
  m_interrupt,
  blocks_with_unknown_parent,  \* UnknownParentIndex: records in the order they were added
  step,       \* of the import thread, "down" when there is no process
  status,     \* what ImportBlocks returned, None before
  loading,    \* a -loadblock file is being read
  file, pos,  \* where the scanner is
  queue,      \* blocks whose deferred children are to be looked for
  children,   \* children taken out of the index and not read yet
  stored,     \* the record read last was stored
  interrupts, crashes

chain == <<index, tip, disk, m_blockfiles_indexed>>
local == <<loading, file, pos, queue, children, stored>>
vars == <<scenario, index, tip, disk, m_blockfiles_indexed, m_importing, m_interrupt,
          blocks_with_unknown_parent, step, status, loading, file, pos, queue, children, stored,
          interrupts, crashes>>

LoadingBlocks == m_importing \/ ~m_blockfiles_indexed

Ancestors ==
  LET above[b \in Tree] == IF b = Genesis THEN {} ELSE {Parent[b]} \cup above[Parent[b]]
  IN  [b \in Tree |-> above[b]]
Height(b) == Cardinality(Ancestors[b])
Below(b) == {c \in Tree : b # None /\ Height(c) <= Height(b)}

EmptyIndex == [known |-> {}, have |-> {}, failed |-> {}, rebuilt |-> FALSE]

-----------------------------------------------------------------------------
(* Admission and activation.                                               *)

\* AcceptBlockHeader
HeaderAccepted(ix, b) ==
  IF b \in ix.known THEN b \notin ix.failed
  ELSE b = Genesis \/ (b \notin HeaderBad /\ Parent[b] \in ix.known \ ix.failed)

\* AcceptBlock with ForceStore.  A rule broken by more than the copy marks the block and
\* what is known above it as failed (InvalidBlockFound).
Admitted(ix, rec) ==
  LET b == rec.hash
  IN IF ~HeaderAccepted(ix, b) THEN ix
     ELSE IF b \in ix.have THEN ix
     ELSE IF rec.body = "mutated" THEN [ix EXCEPT !.known = @ \cup {b}]
     ELSE IF b \in BodyBad
          THEN [ix EXCEPT !.known = @ \cup {b},
                          !.failed = @ \cup {b} \cup {c \in ix.known : b \in Ancestors[c]}]
     ELSE [ix EXCEPT !.known = @ \cup {b}, !.have = @ \cup {b}]

\* Faulty form: only the children of the record just read are looked for.
OpensDeferredChildren_Never(ix, rec) == FALSE

\* ImportAdmission::AdmitBlock: stored or already known, not rejected.
OpensDeferredChildren(ix, rec) ==
  HeaderAccepted(ix, rec.hash) /\ rec.hash \in Admitted(ix, rec).have

\* The best tips ActivateBestChain may choose: all the data is there and nothing failed.
Linked(ix) == {b \in ix.have \ ix.failed : Ancestors[b] \subseteq ix.have \ ix.failed}
BestTips(ix) == {b \in Linked(ix) : \A c \in Linked(ix) : Height(c) <= Height(b)}

\* ActivateBestChain: the chain moves to a best tip, or part of the way when interrupted,
\* and FlushStateToDisk writes both databases when it is time to.
ActivateBestChain(ix) ==
  /\ IF tip \in BestTips(ix) \/ BestTips(ix) = {} THEN tip' = tip
     ELSE \E b \in BestTips(ix) : tip' = b \/ (m_interrupt /\ tip' \in Ancestors[b] \ Below(tip))
  /\ disk' \in {disk, [disk EXCEPT !.index = ix, !.tip = tip']}

-----------------------------------------------------------------------------
(* Start and stop.                                                         *)

\* A node started with -reindex, whose databases are wiped and the flag set; or, with
\* no files to index, one that has only genesis.
Init ==
  /\ scenario \in Scenarios
  /\ LET fresh == scenario.files = <<>>
         ix == IF fresh THEN [EmptyIndex EXCEPT !.known = {Genesis}, !.have = {Genesis}] ELSE EmptyIndex
     IN /\ index = ix
        /\ tip = IF fresh THEN Genesis ELSE None
        /\ disk = [index |-> ix, tip |-> tip, reindexing |-> ~fresh]
        /\ m_blockfiles_indexed = fresh
  /\ m_importing = FALSE /\ m_interrupt = FALSE
  /\ blocks_with_unknown_parent = <<>>
  /\ step = "start" /\ status = None
  /\ loading = FALSE /\ file = 1 /\ pos = 1 /\ queue = <<>> /\ children = <<>> /\ stored = FALSE
  /\ interrupts = 0 /\ crashes = 0

\* The next start, without -reindex: LoadBlockIndexDB reads the index and the flag, and
\* LoadGenesisBlock adds genesis unless the rebuilding is to go on.
Start ==
  /\ step = "down"
  /\ m_blockfiles_indexed' = ~disk.reindexing
  /\ index' = IF disk.reindexing THEN disk.index
              ELSE [disk.index EXCEPT !.known = @ \cup {Genesis}, !.have = @ \cup {Genesis}]
  /\ tip' = disk.tip
  /\ step' = "start"
  /\ UNCHANGED <<scenario, disk, m_importing, m_interrupt, blocks_with_unknown_parent, status,
                 local, interrupts, crashes>>

\* The memory of the process is gone.
Down ==
  /\ step' = "down"
  /\ status' = None /\ m_importing' = FALSE /\ m_interrupt' = FALSE
  /\ blocks_with_unknown_parent' = <<>>
  /\ loading' = FALSE /\ file' = 1 /\ pos' = 1 /\ queue' = <<>> /\ children' = <<>> /\ stored' = FALSE
  /\ index' = EmptyIndex /\ tip' = None /\ m_blockfiles_indexed' = TRUE

Crash ==
  /\ step # "down" /\ crashes < MaxCrashes
  /\ crashes' = crashes + 1
  /\ Down
  /\ UNCHANGED <<scenario, disk, interrupts>>

Interrupt ==
  /\ step # "down" /\ ~m_interrupt /\ interrupts < MaxInterrupts
  /\ m_interrupt' = TRUE /\ interrupts' = interrupts + 1
  /\ UNCHANGED <<scenario, chain, m_importing, blocks_with_unknown_parent, step, status, local, crashes>>

\* Shutdown waits for the import thread and writes the databases.
Shutdown ==
  /\ m_interrupt /\ step = "over"
  /\ disk' = [disk EXCEPT !.index = index, !.tip = tip]
  /\ Down
  /\ UNCHANGED <<scenario, interrupts, crashes>>

-----------------------------------------------------------------------------
(* ImportBlocks.                                                           *)

Files == IF loading THEN scenario.load ELSE scenario.files
Current == Files[file][pos]
AtEof == pos > Len(Files[file])

Scan(f, p) == step' = "scan" /\ file' = f /\ pos' = p
NextRecord == Scan(file, pos + 1)

\* ImportBlocks returns, and ImportingNow is destroyed.
Return(outcome) ==
  /\ step' = "over" /\ status' = outcome
  /\ m_importing' = FALSE
  /\ UNCHANGED <<file, pos>>

\* The -loadblock files, or what comes after the last.
LoadFiles ==
  IF scenario.load = <<>> THEN step' = "activate" /\ UNCHANGED <<loading, file, pos>>
  ELSE loading' = TRUE /\ Scan(1, 1)

ImportBlocks ==
  /\ step = "start" /\ m_importing' = TRUE
  /\ IF m_blockfiles_indexed THEN LoadFiles
     ELSE Scan(1, 1) /\ UNCHANGED loading
  /\ UNCHANGED <<scenario, chain, m_interrupt, blocks_with_unknown_parent, status, queue, children,
                 stored, interrupts, crashes>>

\* Faulty form: the number of the file is not increased.
NextFile_Again ==
  /\ step = "scan" /\ AtEof
  /\ Scan(file, 1)
  /\ UNCHANGED <<scenario, chain, m_importing, m_interrupt, blocks_with_unknown_parent, status, loading,
                 queue, children, stored, interrupts, crashes>>

\* The end of a file.  After the last blk file WriteReindexing(false) erases the flag, and
\* LoadGenesisBlock adds genesis if no file had it.
NextFile ==
  /\ step = "scan" /\ AtEof
  /\ IF file < Len(Files)
     THEN Scan(file + 1, 1) /\ UNCHANGED <<index, disk, m_blockfiles_indexed, loading>>
     ELSE IF loading
     THEN step' = "activate" /\ UNCHANGED <<file, pos, index, disk, m_blockfiles_indexed, loading>>
     ELSE /\ disk' = [disk EXCEPT !.reindexing = FALSE]
          /\ m_blockfiles_indexed' = TRUE
          /\ index' = [index EXCEPT !.known = @ \cup {Genesis}, !.have = @ \cup {Genesis}, !.rebuilt = TRUE]
          /\ LoadFiles
  /\ UNCHANGED <<scenario, tip, m_importing, m_interrupt, blocks_with_unknown_parent, status, queue,
                 children, stored, interrupts, crashes>>

\* ActivateBestChains at the end.
Activate ==
  /\ step = "activate"
  /\ ActivateBestChain(index)
  /\ Return("Completed")
  /\ UNCHANGED <<scenario, index, m_blockfiles_indexed, m_interrupt, blocks_with_unknown_parent,
                 loading, queue, children, stored, interrupts, crashes>>

-----------------------------------------------------------------------------
(* ImportExternalBlockFile.                                                *)

OutOfOrder(b) == b # Genesis /\ Parent[b] \notin index.known

\* The scanner looks at the interrupt before each record, and may look once more before it
\* finds the end of the file.
ScanInterrupted ==
  /\ step = "scan" /\ m_interrupt
  /\ Return("Interrupted")
  /\ UNCHANGED <<scenario, chain, m_interrupt, blocks_with_unknown_parent, loading, queue, children,
                 stored, interrupts, crashes>>

\* Faulty form: a full index drops the block.
Deferred_Drops ==
  /\ NextRecord
  /\ blocks_with_unknown_parent' = IF Len(blocks_with_unknown_parent) < scenario.max
                                   THEN Append(blocks_with_unknown_parent, Current)
                                   ELSE blocks_with_unknown_parent
  /\ UNCHANGED <<status, m_importing>>

\* UnknownParentIndex::Add, and the end of the import when the index is full.
Deferred ==
  IF Len(blocks_with_unknown_parent) < scenario.max
  THEN /\ blocks_with_unknown_parent' = Append(blocks_with_unknown_parent, Current)
       /\ NextRecord
       /\ UNCHANGED <<status, m_importing>>
  ELSE /\ Return("ResourceLimit")
       /\ UNCHANGED blocks_with_unknown_parent

\* The first look at the index: a block before its parent is deferred, or passed over in a
\* -loadblock file.
ScanRecord ==
  /\ step = "scan" /\ ~AtEof /\ ~m_interrupt
  /\ stored' = FALSE
  /\ IF OutOfOrder(Current.hash)
     THEN IF loading THEN NextRecord /\ UNCHANGED <<blocks_with_unknown_parent, status, m_importing>>
          ELSE Deferred
     ELSE /\ step' = IF Current.hash \in index.have THEN "admitted" ELSE "decode"
          /\ UNCHANGED <<file, pos, blocks_with_unknown_parent, status, m_importing>>
  /\ UNCHANGED <<scenario, chain, m_interrupt, loading, queue, children, interrupts, crashes>>

\* The record is read without the lock; a copy that does not deserialize is passed over.
\* The second look at the index, and AcceptBlock.
Decode ==
  /\ step = "decode"
  /\ IF Current.body = "unreadable" THEN NextRecord /\ UNCHANGED <<index, stored>>
     ELSE /\ index' = Admitted(index, Current)
          /\ stored' = (index'.have # index.have)
          /\ step' = "admitted" /\ UNCHANGED <<file, pos>>
  /\ UNCHANGED <<scenario, tip, disk, m_blockfiles_indexed, m_importing, m_interrupt,
                 blocks_with_unknown_parent, status, loading, queue, children, interrupts, crashes>>

\* ActivateGenesisIfNeeded, ActivatePruneModeIfNeeded
NeedsActivation ==
  \/ Current.hash = Genesis /\ tip = None
  \/ stored /\ scenario.prune /\ m_blockfiles_indexed

AfterAdmission ==
  /\ step = "admitted"
  /\ IF NeedsActivation THEN ActivateBestChain(index) ELSE UNCHANGED <<tip, disk>>
  /\ IF loading THEN NextRecord /\ UNCHANGED queue
     ELSE step' = "open" /\ queue' = <<Current.hash>> /\ UNCHANGED <<file, pos>>
  /\ UNCHANGED <<scenario, index, m_blockfiles_indexed, m_importing, m_interrupt,
                 blocks_with_unknown_parent, status, loading, children, stored, interrupts, crashes>>

\* UnknownParentIndex::TakeChildrenOf
ChildrenOf(b, recs) == SelectSeq(recs, LAMBDA r : Parent[r.hash] = b)
WithoutChildrenOf(b, recs) == SelectSeq(recs, LAMBDA r : Parent[r.hash] # b)

\* The head of the loop over the earlier encountered successors.
OpenChildren ==
  /\ step = "open" /\ children = <<>>
  /\ \/ /\ queue = <<>>
        /\ NextRecord
        /\ UNCHANGED <<queue, children, blocks_with_unknown_parent, status, m_importing>>
     \/ /\ queue # <<>> /\ m_interrupt
        /\ Return("Interrupted")
        /\ UNCHANGED <<queue, children, blocks_with_unknown_parent>>
     \/ /\ queue # <<>> /\ ~m_interrupt
        /\ children' = ChildrenOf(Head(queue), blocks_with_unknown_parent)
        /\ blocks_with_unknown_parent' = WithoutChildrenOf(Head(queue), blocks_with_unknown_parent)
        /\ queue' = Tail(queue)
        /\ UNCHANGED <<step, file, pos, status, m_importing>>
  /\ UNCHANGED <<scenario, chain, m_interrupt, loading, stored, interrupts, crashes>>

\* One child: it is read from its position, where a record that does not deserialize ends
\* the import with a fatal error, and given to AcceptBlock.
AdmitChild ==
  /\ step = "open" /\ children # <<>>
  /\ LET child == Head(children)
     IN IF child.body = "unreadable"
        THEN /\ Return("Failed") /\ m_interrupt' = TRUE
             /\ UNCHANGED <<index, queue>>
        ELSE /\ index' = Admitted(index, child)
             /\ queue' = IF OpensDeferredChildren(index, child) THEN Append(queue, child.hash) ELSE queue
             /\ UNCHANGED <<step, status, m_importing, file, pos, m_interrupt>>
  /\ children' = Tail(children)
  /\ UNCHANGED <<scenario, tip, disk, m_blockfiles_indexed, blocks_with_unknown_parent, loading, stored,
                 interrupts, crashes>>

-----------------------------------------------------------------------------
(* Clients on other threads.                                               *)

\* ProcessNewBlockHeaders
ProcessHeader(b) ==
  /\ step # "down"
  /\ b \in scenario.headers \ index.known /\ HeaderAccepted(index, b)
  /\ index' = [index EXCEPT !.known = @ \cup {b}]
  /\ UNCHANGED <<scenario, tip, disk, m_blockfiles_indexed, m_importing, m_interrupt,
                 blocks_with_unknown_parent, step, status, local, interrupts, crashes>>

\* ProcessNewBlock, once the files are indexed.
ProcessBlock(b) ==
  /\ step # "down" /\ m_blockfiles_indexed
  /\ b \in scenario.blocks \ index.have
  /\ index' = Admitted(index, [hash |-> b, body |-> "good"])
  /\ b \in index'.have
  /\ ActivateBestChain(index')
  /\ UNCHANGED <<scenario, m_blockfiles_indexed, m_importing, m_interrupt,
                 blocks_with_unknown_parent, step, status, local, interrupts, crashes>>

-----------------------------------------------------------------------------
ImportThread ==
  \/ ImportBlocks \/ NextFile \/ Activate \/ ScanInterrupted \/ ScanRecord \/ Decode
  \/ AfterAdmission \/ OpenChildren \/ AdmitChild

\* The node is left running.
Idle == step = "over" /\ ~m_interrupt /\ UNCHANGED vars

Next ==
  \/ ImportThread
  \/ Start \/ Crash \/ Interrupt \/ Shutdown
  \/ \E b \in Blocks : ProcessHeader(b) \/ ProcessBlock(b)
  \/ Idle

Spec == Init /\ [][Next]_vars
FairSpec == Spec /\ WF_vars(ImportThread) /\ WF_vars(Start) /\ WF_vars(Shutdown)

-----------------------------------------------------------------------------
(* Properties.                                                             *)

TypeOK ==
  /\ \A ix \in {index, disk.index} :
       ix.have \cup ix.failed \subseteq ix.known /\ ix.known \subseteq Tree /\ ix.rebuilt \in BOOLEAN
  /\ {tip, disk.tip} \subseteq Tree \cup {None}
  /\ {disk.reindexing, m_blockfiles_indexed, m_importing, m_interrupt, loading, stored} \subseteq BOOLEAN
  /\ {blocks_with_unknown_parent, children} \subseteq Seq(Records) /\ queue \in Seq(Tree)
  /\ status \in {None, "Completed", "Interrupted", "ResourceLimit", "Failed"}

Valid(b) == \A a \in Ancestors[b] \cup {b} : a \notin HeaderBad \cup BodyBad
Good(recs) == {r.hash : r \in {r \in Range(recs) : r.body = "good"}}

\* Reference: the blocks whose whole chain is in the blk files, in whatever order ...
Importable == {b \in Tree : Valid(b) /\ Ancestors[b] \cup {b} \subseteq Good(FlattenSeq(scenario.files))}
\* ... and those that come after their ancestors in the -loadblock files.
Loadable == FoldLeft(LAMBDA s, r : IF r.body = "good" /\ Valid(r.hash) /\ Ancestors[r.hash] \subseteq s
                                   THEN s \cup {r.hash} ELSE s,
                     {Genesis}, FlattenSeq(scenario.load))

\* ImportBlocks and ImportExternalBlockFile: once the blk files count as indexed, every block
\* whose chain is in them has its data in the index, whatever the order of the records, damaged
\* and repeated copies, interrupted and crashed attempts, and headers that arrive meanwhile; the
\* same holds of the blocks of -loadblock files that follow their ancestors; and after a
\* complete import the active chain ends in the best of them.
ImportComplete ==
  /\ TypeOK
  /\ index.rebuilt => Importable \subseteq index.have
  /\ status = "Completed" =>
       /\ Loadable \subseteq index.have
       /\ ~m_interrupt => tip \in BestTips(index)

\* UnknownParentIndex: between two records no block waits for a parent that has been stored, and
\* none is forgotten: each record passed over so far is stored or waits, unless it is damaged or
\* its block or an ancestor is invalid.
DeferredWait ==
  step = "scan" /\ ~loading =>
    /\ \A r \in Range(blocks_with_unknown_parent) : Parent[r.hash] \notin index.have
    /\ \A f \in 1..file : \A p \in 1..(IF f = file THEN pos - 1 ELSE Len(scenario.files[f])) :
         LET r == scenario.files[f][p]
         IN r.body = "good" /\ Valid(r.hash) =>
              r.hash \in index.have \/ r \in Range(blocks_with_unknown_parent)

\* ImportBlocks, ImportingNow and the flag on disk: if the records are readable and the index of
\* deferred blocks is large enough for them, the node stops loading blocks for good, however
\* often it was interrupted or crashed before.
ImportFinishes ==
  (/\ scenario.max >= Len(FlattenSeq(scenario.files))
   /\ \A r \in Range(FlattenSeq(scenario.files)) : r.body # "unreadable")
  => <>[]~LoadingBlocks

\* WriteReindexing(false) after the scan: a node that does not continue the rebuilding at its
\* next start has the rebuilt index on disk.
RebuiltBeforeFlagErased == ~disk.reindexing /\ scenario.files # <<>> => disk.index.rebuilt
=============================================================================
