------------------------------- MODULE MMyISAM --------------------------------
(***************************************************************************)
(* The storage engine's sessions (MMyISAM.cpp): the normal database and    *)
(* the safe-mode sessions a client opens under a registry index, works in, *)
(* and commits or aborts.                                                  *)
(*                                                                         *)
(* A value lies in a value file, one record after the other; an index maps *)
(* a key to the record of its value.  The normal database has one index    *)
(* and one value file, every session an index of its own, which starts as  *)
(* the normal one, and a value file of its own.  A session's index says    *)
(* for each record in which of the two files it lies (_dataOptrLocation).  *)
(*                                                                         *)
(* Indexes are maps here: how the B-tree and its copy-on-write nodes store *)
(* them is not modelled.  Values have one size.  Callers add keys that the *)
(* database does not hold; in this program a key is the hash of a          *)
(* transaction output or of a block header.                                *)
(***************************************************************************)
EXTENDS Naturals, FiniteSets, Functions

CONSTANTS
  Keys, Values,
  Registries,    \* registry indexes clients use, at most ALLOWED_SAFE_REGISTRY_COUNT
  Normal,        \* the normal database's value file
  MaxRecords,    \* bound: records of a value file
  NoValue,       \* no value under a key, or bytes nobody has written
  NoSession      \* a null entry of _activeSafeIndexManagerArray

ASSUME KeysAssumption == IsFiniteSet(Keys)
ASSUME RecordsAssumption == MaxRecords \in Nat
ASSUME NamesAssumption == NoValue \notin Values /\ Normal \notin Registries

VARIABLES
  index,      \* the normal index: key -> record, 0 when the key is absent
  file,       \* value files: file[s][n] is record n of file s
  brk,        \* brk[s]: records allocated in file s
  session,    \* the sessions that are open
  formatted,  \* the normal index file starts with FORMAT_CODE
  up          \* the database thread has not been terminated

vars == <<index, file, brk, session, formatted, up>>

Records == 1 .. MaxRecords
Files == Registries \cup {Normal}
Entries == [rec : 0 .. MaxRecords, loc : {"normal", "safe"}]
Contents == [Keys -> Values \cup {NoValue}]
Sessions == [idx : [Keys -> Entries], base : Contents, touched : BOOLEAN]

IsOpen(r) == session[r] # NoSession

----------------------------------------------------------------------------
(* What the database and a session hold                                    *)

Content == [k \in Keys |-> IF index[k] = 0 THEN NoValue ELSE file[Normal][index[k]]]

\* The value file of registry index r: its path contains r.
StoreShared(r) == CHOOSE q \in Registries : TRUE         \* mutant of Store
Store(r) == r

\* What session r means each key to have.
ViewOf(s, r) ==
  [k \in Keys |-> IF s.idx[k].rec = 0 THEN NoValue
                  ELSE file[IF s.idx[k].loc = "safe" THEN Store(r) ELSE Normal][s.idx[k].rec]]
View(r) == ViewOf(session[r], r)

Append1(s, v) == [file EXCEPT ![s] = [file[s] EXCEPT ![brk[s] + 1] = v]]

----------------------------------------------------------------------------
(* Operations in normal mode (registryIndex < 0)                           *)

\* clearSafeMode
NoSessions == [r \in Registries |-> NoSession]

\* add: value store, then index, then every session is closed.
NormalAdd(k, v) ==
  /\ up
  /\ index[k] = 0
  /\ brk[Normal] < MaxRecords                            \* bound
  /\ file' = Append1(Normal, v)
  /\ brk' = [brk EXCEPT ![Normal] = @ + 1]
  /\ index' = [index EXCEPT ![k] = brk[Normal] + 1]
  /\ session' = NoSessions
  /\ UNCHANGED <<formatted, up>>

NormalRemoveKeepsSessions(k) ==                          \* mutant of NormalRemove
  /\ up
  /\ index' = [index EXCEPT ![k] = 0]
  /\ UNCHANGED <<file, brk, session, formatted, up>>

\* remove: the value stays in the value file.
NormalRemove(k) ==
  /\ up
  /\ index' = [index EXCEPT ![k] = 0]
  /\ session' = NoSessions
  /\ UNCHANGED <<file, brk, formatted, up>>

----------------------------------------------------------------------------
(* Sessions                                                                *)

\* migrateToSafeMode: the session's files are reformatted, their old bytes stay.
Open(r) ==
  /\ up
  /\ session' = [session EXCEPT ![r] =
       [ idx     |-> [k \in Keys |-> [rec |-> index[k], loc |-> "normal"]],
         base    |-> Content,
         touched |-> FALSE ]]
  /\ brk' = [brk EXCEPT ![Store(r)] = 0]
  /\ UNCHANGED <<index, file, formatted, up>>

\* A session's index gets a new entry: the nodes it changes are first copied into
\* the session's index file.
SetEntry(s, k, e) == [s EXCEPT !.idx = [s.idx EXCEPT ![k] = e], !.touched = TRUE]

\* add in a session; without a session it answers false.
SessionAdd(r, k, v) ==
  /\ up
  /\ IsOpen(r)
  /\ session[r].idx[k].rec = 0
  /\ brk[Store(r)] < MaxRecords                          \* bound
  /\ file' = Append1(Store(r), v)
  /\ brk' = [brk EXCEPT ![Store(r)] = @ + 1]
  /\ session' = [session EXCEPT ![r] =
       SetEntry(session[r], k, [rec |-> brk[Store(r)] + 1, loc |-> "safe"])]
  /\ UNCHANGED <<index, formatted, up>>

\* remove in a session; a missing key changes nothing.
SessionRemove(r, k) ==
  /\ up
  /\ IsOpen(r)
  /\ session[r].idx[k].rec # 0
  /\ session' = [session EXCEPT ![r] =
       SetEntry(session[r], k, [rec |-> 0, loc |-> "normal"])]
  /\ UNCHANGED <<index, file, brk, formatted, up>>

\* get of a key the session does not have: SafeOBtree::find returns nullptr and
\* SafeIndexManager::find dereferences it.  Every other get changes nothing.
SessionGetMissing(r, k) ==
  /\ up
  /\ IsOpen(r)
  /\ session[r].idx[k].rec = 0
  /\ up' = FALSE
  /\ UNCHANGED <<index, file, brk, session, formatted>>

\* mergeDataOptr: the session's own records move behind the normal ones, in the
\* order of an unordered_map.
Own(s) == {k \in Keys : s.idx[k].rec # 0 /\ s.idx[k].loc = "safe"}
Placements(s) ==
  Injection(Own(s), (brk[Normal] + 1) .. (brk[Normal] + Cardinality(Own(s))))
Merged(s, r, pos) ==
  [n \in Records |-> IF \E k \in Own(s) : pos[k] = n
                     THEN file[Store(r)][s.idx[CHOOSE k \in Own(s) : pos[k] = n].rec]
                     ELSE file[Normal][n]]

\* mergeSafeBtree: the session's nodes replace the normal ones, with the pointers
\* that mergeDataOptr moved.
MergedIndex(s, pos) == [k \in Keys |-> IF k \in Own(s) THEN pos[k] ELSE s.idx[k].rec]

CommitWithoutMerge(r) ==                                 \* mutant of Commit
  /\ up
  /\ IsOpen(r)
  /\ index' = [k \in Keys |-> session[r].idx[k].rec]
  /\ session' = NoSessions
  /\ UNCHANGED <<file, brk, formatted, up>>

\* safeCommitExit.  Before the records and the index are merged, the first 100
\* bytes of the session's index file are copied over those of the normal one;
\* once the session has written an index node, they are the bytes of a node,
\* because Open formats the file a second time after its head was reserved.
Commit(r) ==
  LET s == session[r] IN
  /\ up
  /\ IsOpen(r)
  /\ brk[Normal] + Cardinality(Own(s)) <= MaxRecords     \* bound
  /\ \E pos \in Placements(s) :
       /\ file' = [file EXCEPT ![Normal] = Merged(s, r, pos)]
       /\ index' = MergedIndex(s, pos)
  /\ brk' = [brk EXCEPT ![Normal] = @ + Cardinality(Own(s))]
  /\ session' = NoSessions
  /\ formatted' = (formatted /\ ~s.touched)
  /\ UNCHANGED up

\* safeAbortExit: every session is closed, not only session r.
Abort(r) ==
  /\ up
  /\ session' = NoSessions
  /\ UNCHANGED <<index, file, brk, formatted, up>>

----------------------------------------------------------------------------
\* The process starts again.  OBtree takes an index file without FORMAT_CODE for
\* a new one and gives it an empty root.
Restart ==
  /\ session' = NoSessions
  /\ index' = IF formatted THEN index ELSE [k \in Keys |-> 0]
  /\ formatted' = TRUE
  /\ up' = TRUE
  /\ UNCHANGED <<file, brk>>

Init ==
  /\ index = [k \in Keys |-> 0]
  /\ file = [s \in Files |-> [n \in Records |-> NoValue]]
  /\ brk = [s \in Files |-> 0]
  /\ session = NoSessions
  /\ formatted = TRUE
  /\ up = TRUE

NormalStep == \E k \in Keys : NormalRemove(k) \/ \E v \in Values : NormalAdd(k, v)

InSession(r) ==
  \/ Open(r)
  \/ \E k \in Keys, v \in Values : SessionAdd(r, k, v)
  \/ \E k \in Keys : SessionRemove(r, k) \/ SessionGetMissing(r, k)

Next ==
  \/ NormalStep
  \/ \E r \in Registries : InSession(r) \/ Commit(r) \/ Abort(r)
  \/ Restart

Spec == Init /\ [][Next]_vars

----------------------------------------------------------------------------
(* Properties                                                              *)

\* Every data pointer of the normal index leads to an allocated record of the
\* normal value file, every data pointer of a session to an allocated record of
\* the file its location flag names.
PointersValid ==
  /\ \A k \in Keys : index[k] <= brk[Normal]
  /\ \A r \in Registries : IsOpen(r) => \A k \in Keys :
       session[r].idx[k].rec <= brk[IF session[r].idx[k].loc = "safe" THEN Store(r) ELSE Normal]

TypeOK ==
  /\ index \in [Keys -> 0 .. MaxRecords]
  /\ file \in [Files -> [Records -> Values \cup {NoValue}]]
  /\ brk \in [Files -> 0 .. MaxRecords]
  /\ session \in [Registries -> Sessions \cup {NoSession}]
  /\ formatted \in BOOLEAN
  /\ up \in BOOLEAN
  /\ PointersValid

\* A session works on the database as it is: no change of the normal database,
\* by a client in normal mode or by another session's commit, leaves a session
\* open that was opened before it.  So no commit undoes a change it never saw.
SessionsFresh == \A r \in Registries : IsOpen(r) => session[r].base = Content

\* A record a session inherited is one of the normal index's own records, and
\* none of the session's records lies in another session's file.
Inherited ==
  \A r \in Registries, k \in Keys :
    IsOpen(r) /\ session[r].idx[k].loc = "normal" => session[r].idx[k].rec \in {0, index[k]}

IInv == TypeOK /\ SessionsFresh /\ Inherited

\* A commit installs exactly what its session meant the database to hold: the
\* values it added, the keys it removed, and everything else unchanged.
CommitInstalls == [][\A r \in Registries : Commit(r) => Content' = View(r)]_vars

\* What happens inside a session stays there: opening, adding, removing and
\* aborting leave the normal database alone, and the first three leave every
\* other session's view alone.
SessionsIsolated ==
  [][\A r \in Registries :
       /\ InSession(r) \/ Abort(r) => Content' = Content
       /\ InSession(r) => \A q \in Registries \ {r} :
            IsOpen(q) => IsOpen(q)' /\ View(q)' = View(q)]_vars

\* What is committed stays: a restart brings the database back as it was.
RestartKeeps == [][Restart => Content' = Content]_vars

=============================================================================
