---------------------------- MODULE MMyISAMProofs -----------------------------
(***************************************************************************)
(* Proofs about MMyISAM, for every finite set of keys and every number of  *)
(* records.  What a commit installs rests on where the records lie: a      *)
(* record a session inherited lies among the allocated ones of the normal  *)
(* file, and the merge only writes behind them.                            *)
(***************************************************************************)
EXTENDS MMyISAM, FiniteSetTheorems, TLAPS

\* What the parts of the state are, for sessions that are open.
LEMMA TypeFacts ==
  ASSUME TypeOK
  PROVE  /\ \A k \in Keys : index[k] \in 0 .. MaxRecords
         /\ \A s \in Files : brk[s] \in 0 .. MaxRecords
         /\ \A s \in Files, n \in Records : file[s][n] \in Values \cup {NoValue}
         /\ \A r \in Registries : IsOpen(r) => session[r] \in Sessions
         /\ \A r \in Registries, k \in Keys : IsOpen(r) =>
              /\ session[r].idx[k].rec \in 0 .. MaxRecords
              /\ session[r].idx[k].loc \in {"normal", "safe"}
<1>1. \A r \in Registries : IsOpen(r) => session[r] \in Sessions
  BY DEF TypeOK, IsOpen
<1>2. ASSUME NEW r \in Registries, NEW k \in Keys, IsOpen(r)
      PROVE  session[r].idx[k] \in Entries
  BY <1>1, <1>2 DEF Sessions
<1> QED BY <1>1, <1>2 DEF TypeOK, Entries

\* The database holds values.
LEMMA ContentType ==
  ASSUME TypeOK
  PROVE  Content \in Contents
<1>1. ASSUME NEW k \in Keys, index[k] # 0
      PROVE  file[Normal][index[k]] \in Values \cup {NoValue}
  BY <1>1, TypeFacts DEF Files, Records
<1> QED BY <1>1 DEF Content, Contents

\* The value files of the sessions are not the normal one.
LEMMA StoreFacts ==
  ASSUME NEW r \in Registries
  PROVE  Store(r) \in Files /\ Store(r) # Normal /\ Store(r) = r
BY NamesAssumption DEF Store, Files

\* A record appended to another file leaves the normal one as it is.
LEMMA AppendFacts ==
  ASSUME TypeOK, NEW s \in Files, NEW v \in Values, brk[s] < MaxRecords
  PROVE  /\ Append1(s, v) \in [Files -> [Records -> Values \cup {NoValue}]]
         /\ Append1(s, v)[s][brk[s] + 1] = v
         /\ \A q \in Files \ {s} : Append1(s, v)[q] = file[q]
<1>1. brk[s] + 1 \in Records
  BY TypeFacts, RecordsAssumption DEF Records
<1>2. file \in [Files -> [Records -> Values \cup {NoValue}]]
  BY DEF TypeOK
<1> QED BY <1>1, <1>2 DEF Append1

\* Steps that leave the normal index and the normal value file alone leave the
\* content alone, and the sessions that stay open stay fresh.
LEMMA ContentKept ==
  ASSUME index' = index, file'[Normal] = file[Normal]
  PROVE  Content' = Content
BY DEF Content

----------------------------------------------------------------------------
\* What a step that closes every session has to show.
LEMMA AllClosed ==
  ASSUME session' = NoSessions,
         index' \in [Keys -> 0 .. MaxRecords],
         file' \in [Files -> [Records -> Values \cup {NoValue}]],
         brk' \in [Files -> 0 .. MaxRecords],
         formatted' \in BOOLEAN, up' \in BOOLEAN,
         \A k \in Keys : index'[k] <= brk'[Normal]
  PROVE  IInv'
<1>1. \A r \in Registries : ~IsOpen(r)'
  BY DEF NoSessions, IsOpen
<1>2. PointersValid'
  BY <1>1 DEF PointersValid
<1>3. session' \in [Registries -> Sessions \cup {NoSession}]
  BY DEF NoSessions
<1>4. TypeOK'
  BY <1>2, <1>3 DEF TypeOK
<1>5. SessionsFresh' /\ Inherited'
  BY <1>1 DEF SessionsFresh, Inherited
<1> QED BY <1>4, <1>5 DEF IInv

\* The initial state.
LEMMA InitInv == Init => IInv
<1> SUFFICES ASSUME Init PROVE IInv
  OBVIOUS
<1>1. \A r \in Registries : ~IsOpen(r)
  BY DEF Init, NoSessions, IsOpen
<1>2. Normal \in Files
  BY DEF Files
<1>3. PointersValid
  BY <1>1, <1>2 DEF PointersValid, Init
<1>4. session \in [Registries -> Sessions \cup {NoSession}]
  BY DEF Init, NoSessions
<1>5. brk \in [Files -> 0 .. MaxRecords] /\ index \in [Keys -> 0 .. MaxRecords]
  BY RecordsAssumption DEF Init
<1>6. file \in [Files -> [Records -> Values \cup {NoValue}]]
  BY DEF Init
<1>7. TypeOK
  BY <1>3, <1>4, <1>5, <1>6 DEF TypeOK, Init
<1>8. SessionsFresh /\ Inherited
  BY <1>1 DEF SessionsFresh, Inherited
<1> QED BY <1>7, <1>8 DEF IInv

LEMMA NormalAddInv ==
  ASSUME IInv, NEW k \in Keys, NEW v \in Values, NormalAdd(k, v)
  PROVE  IInv'
<1>1. TypeOK /\ Normal \in Files
  BY DEF IInv, Files
<1>2. brk[Normal] \in 0 .. MaxRecords /\ brk[Normal] < MaxRecords
  BY <1>1, TypeFacts DEF NormalAdd
<1>3. brk' \in [Files -> 0 .. MaxRecords] /\ brk'[Normal] = brk[Normal] + 1
  BY <1>1, <1>2, RecordsAssumption DEF NormalAdd, TypeOK
<1>4. index' \in [Keys -> 0 .. MaxRecords]
  BY <1>1, <1>2, RecordsAssumption DEF NormalAdd, TypeOK
<1>5. \A j \in Keys : index'[j] <= brk'[Normal]
  <2>1. \A j \in Keys : index[j] <= brk[Normal] /\ index[j] \in Nat
    BY <1>1, TypeFacts DEF TypeOK, PointersValid
  <2> QED BY <2>1, <1>1, <1>2, <1>3, RecordsAssumption DEF NormalAdd, TypeOK
<1>6. file' \in [Files -> [Records -> Values \cup {NoValue}]]
  BY <1>1, <1>2, AppendFacts DEF NormalAdd
<1>7. session' = NoSessions /\ formatted' \in BOOLEAN /\ up' \in BOOLEAN
  BY <1>1 DEF NormalAdd, TypeOK
<1> QED BY <1>3, <1>4, <1>5, <1>6, <1>7, AllClosed

LEMMA NormalRemoveInv ==
  ASSUME IInv, NEW k \in Keys, NormalRemove(k)
  PROVE  IInv'
<1>1. TypeOK /\ Normal \in Files
  BY DEF IInv, Files
<1>2. index' \in [Keys -> 0 .. MaxRecords]
  BY <1>1, RecordsAssumption DEF NormalRemove, TypeOK
<1>3. \A j \in Keys : index'[j] <= brk'[Normal]
  <2>1. \A j \in Keys : index[j] <= brk[Normal]
    BY <1>1 DEF TypeOK, PointersValid
  <2>2. brk[Normal] \in Nat
    BY <1>1, TypeFacts, RecordsAssumption
  <2> QED BY <2>1, <2>2, <1>1 DEF NormalRemove, TypeOK
<1> QED BY <1>1, <1>2, <1>3, AllClosed DEF NormalRemove, TypeOK

LEMMA AbortInv ==
  ASSUME IInv, NEW r \in Registries, Abort(r)
  PROVE  IInv'
<1>1. TypeOK
  BY DEF IInv
<1>2. \A j \in Keys : index'[j] <= brk'[Normal]
  BY <1>1 DEF Abort, TypeOK, PointersValid
<1> QED BY <1>1, <1>2, AllClosed DEF Abort, TypeOK

\* A restart keeps the index or, without FORMAT_CODE, starts with an empty one.
LEMMA RestartInv ==
  ASSUME IInv, Restart
  PROVE  IInv'
<1>1. TypeOK /\ Normal \in Files
  BY DEF IInv, Files
<1>2. index' = index \/ index' = [k \in Keys |-> 0]
  BY DEF Restart
<1>3. index' \in [Keys -> 0 .. MaxRecords]
  BY <1>1, <1>2, RecordsAssumption DEF TypeOK
<1>4. brk[Normal] \in Nat /\ \A j \in Keys : index[j] <= brk[Normal]
  BY <1>1, TypeFacts, RecordsAssumption DEF TypeOK, PointersValid
<1>5. \A j \in Keys : index'[j] <= brk'[Normal]
  BY <1>2, <1>4 DEF Restart
<1> QED BY <1>1, <1>3, <1>5, AllClosed DEF Restart, TypeOK

----------------------------------------------------------------------------
\* What a step of session r has to show: the normal database is left alone, and
\* of the sessions only r changes.
LEMMA OneSession ==
  ASSUME IInv, NEW r \in Registries, NEW s \in Sessions,
         index' = index, file'[Normal] = file[Normal],
         file' \in [Files -> [Records -> Values \cup {NoValue}]],
         brk' \in [Files -> 0 .. MaxRecords],
         \A q \in Files \ {r} : brk'[q] = brk[q],
         formatted' \in BOOLEAN, up' \in BOOLEAN,
         session' = [session EXCEPT ![r] = s],
         s.base = Content,
         \A k \in Keys : s.idx[k].loc = "normal" => s.idx[k].rec \in {0, index[k]},
         \A k \in Keys : s.idx[k].loc = "safe" => s.idx[k].rec <= brk'[r]
  PROVE  IInv'
<1>1. TypeOK /\ Normal \in Files /\ r \in Files /\ Normal # r
  BY NamesAssumption DEF IInv, Files
<1>2. Content' = Content
  BY ContentKept
<1>3. /\ session \in [Registries -> Sessions \cup {NoSession}]
      /\ session'[r] = s
      /\ \A q \in Registries \ {r} : session'[q] = session[q]
      /\ session' \in [Registries -> Sessions \cup {NoSession}]
  BY <1>1 DEF TypeOK
<1>4. brk'[Normal] = brk[Normal]
  BY <1>1
<1>5. \A k \in Keys : index'[k] <= brk'[Normal] /\ brk[Normal] \in Nat
  BY <1>1, <1>4, TypeFacts, RecordsAssumption DEF TypeOK, PointersValid
<1>6. ASSUME NEW q \in Registries, IsOpen(q)', NEW k \in Keys
      PROVE  session'[q].idx[k].rec <=
               brk'[IF session'[q].idx[k].loc = "safe" THEN Store(q)' ELSE Normal]
  <2>1. Store(q)' = q
    BY DEF Store
  <2>2. CASE q = r
    <3>1. s.idx[k] \in Entries
      BY DEF Sessions
    <3>2. s.idx[k].rec \in 0 .. MaxRecords /\ s.idx[k].loc \in {"normal", "safe"}
      BY <3>1 DEF Entries
    <3>3. CASE s.idx[k].loc = "safe"
      BY <3>3, <2>1, <2>2, <1>3
    <3>4. CASE s.idx[k].loc # "safe"
      <4>1. s.idx[k].rec <= brk'[Normal]
        BY <3>2, <3>4, <1>4, <1>5
      <4> QED BY <4>1, <3>4, <2>2, <1>3
    <3> QED BY <3>3, <3>4
  <2>3. CASE q # r
    <3>1. session'[q] = session[q] /\ IsOpen(q) /\ brk'[q] = brk[q]
      BY <2>3, <1>3, <1>6 DEF IsOpen, Files
    <3>2. session[q].idx[k].rec <=
            brk[IF session[q].idx[k].loc = "safe" THEN Store(q) ELSE Normal]
      BY <3>1, <1>1 DEF TypeOK, PointersValid
    <3> QED BY <3>1, <3>2, <2>1, <1>4 DEF Store
  <2> QED BY <2>2, <2>3
<1>7. PointersValid'
  BY <1>5, <1>6 DEF PointersValid
<1>8. TypeOK'
  BY <1>1, <1>3, <1>7 DEF TypeOK
<1>9. SessionsFresh'
  <2>1. SessionsFresh
    BY DEF IInv
  <2>2. ASSUME NEW q \in Registries, IsOpen(q)'
        PROVE  session'[q].base = Content'
    BY <1>2, <1>3, <2>1, <2>2 DEF SessionsFresh, IsOpen
  <2> QED BY <2>2 DEF SessionsFresh
<1>10. Inherited'
  <2>1. Inherited
    BY DEF IInv
  <2>2. ASSUME NEW q \in Registries, NEW k \in Keys, IsOpen(q)',
               session'[q].idx[k].loc = "normal"
        PROVE  session'[q].idx[k].rec \in {0, index'[k]}
    BY <1>3, <2>1, <2>2 DEF Inherited, IsOpen
  <2> QED BY <2>2 DEF Inherited
<1> QED BY <1>8, <1>9, <1>10 DEF IInv

LEMMA OpenInv ==
  ASSUME IInv, NEW r \in Registries, Open(r)
  PROVE  IInv'
<1> DEFINE s == [ idx |-> [k \in Keys |-> [rec |-> index[k], loc |-> "normal"]],
                  base |-> Content, touched |-> FALSE ]
<1>1. TypeOK /\ r \in Files
  BY DEF IInv, Files
<1>2. s \in Sessions
  <2>1. [k \in Keys |-> [rec |-> index[k], loc |-> "normal"]] \in [Keys -> Entries]
    BY <1>1, TypeFacts DEF Entries
  <2>2. Content \in Contents
    BY <1>1, ContentType
  <2> QED BY <2>1, <2>2 DEF Sessions
<1>3. /\ s.base = Content
      /\ \A k \in Keys : s.idx[k].loc = "normal" /\ s.idx[k].rec = index[k]
  OBVIOUS
<1>4. session' = [session EXCEPT ![r] = s]
  BY DEF Open
<1>5. brk' = [brk EXCEPT ![r] = 0]
  BY DEF Open, Store
<1>6. /\ brk' \in [Files -> 0 .. MaxRecords]
      /\ \A q \in Files \ {r} : brk'[q] = brk[q]
  BY <1>1, <1>5, RecordsAssumption DEF TypeOK
<1>7. /\ index' = index /\ file' = file
      /\ file' \in [Files -> [Records -> Values \cup {NoValue}]]
      /\ formatted' \in BOOLEAN /\ up' \in BOOLEAN
  BY <1>1 DEF Open, TypeOK
<1> HIDE DEF s
<1> QED BY <1>2, <1>3, <1>4, <1>6, <1>7, OneSession

LEMMA SessionAddInv ==
  ASSUME IInv, NEW r \in Registries, NEW k \in Keys, NEW v \in Values, SessionAdd(r, k, v)
  PROVE  IInv'
<1> DEFINE e == [rec |-> brk[r] + 1, loc |-> "safe"]
           s == SetEntry(session[r], k, e)
<1>1. TypeOK /\ r \in Files /\ Normal \in Files /\ Normal # r /\ IsOpen(r)
  BY NamesAssumption DEF IInv, Files, SessionAdd
<1>2. brk[r] \in 0 .. MaxRecords /\ brk[r] < MaxRecords
  BY <1>1, TypeFacts DEF SessionAdd, Store
<1>3. session[r] \in Sessions
  BY <1>1, TypeFacts
<1>4. e \in Entries
  BY <1>2, RecordsAssumption DEF Entries
<1>5. /\ s \in Sessions
      /\ s.base = session[r].base
      /\ s.idx[k] = e
      /\ \A j \in Keys \ {k} : s.idx[j] = session[r].idx[j]
  <2> HIDE DEF e
  <2> QED BY <1>3, <1>4 DEF Sessions, SetEntry
<1>6. session' = [session EXCEPT ![r] = s]
  BY DEF SessionAdd, Store
<1>7. s.base = Content
  BY <1>1, <1>5 DEF IInv, SessionsFresh
<1>8. /\ brk' \in [Files -> 0 .. MaxRecords]
      /\ brk'[r] = brk[r] + 1
      /\ \A q \in Files \ {r} : brk'[q] = brk[q]
  BY <1>1, <1>2, RecordsAssumption DEF SessionAdd, Store, TypeOK
<1>9. /\ file' \in [Files -> [Records -> Values \cup {NoValue}]]
      /\ file'[Normal] = file[Normal]
  BY <1>1, <1>2, AppendFacts DEF SessionAdd, Store
<1>10. ASSUME NEW j \in Keys, s.idx[j].loc = "normal"
       PROVE  s.idx[j].rec \in {0, index[j]}
  <2>1. j # k
    BY <1>5, <1>10
  <2> QED BY <2>1, <1>1, <1>5, <1>10 DEF IInv, Inherited
<1>11. ASSUME NEW j \in Keys, s.idx[j].loc = "safe"
       PROVE  s.idx[j].rec <= brk'[r]
  <2>1. CASE j = k
    BY <2>1, <1>2, <1>5, <1>8
  <2>2. CASE j # k
    <3>1. session[r].idx[j].loc = "safe" /\ s.idx[j] = session[r].idx[j]
      BY <2>2, <1>5, <1>11
    <3>2. session[r].idx[j].rec <= brk[r]
      BY <3>1, <1>1 DEF TypeOK, PointersValid, Store
    <3>3. session[r].idx[j].rec \in 0 .. MaxRecords
      BY <1>1, TypeFacts
    <3> QED BY <3>1, <3>2, <3>3, <1>2, <1>8
  <2> QED BY <2>1, <2>2
<1>12. index' = index /\ formatted' \in BOOLEAN /\ up' \in BOOLEAN
  BY <1>1 DEF SessionAdd, TypeOK
<1> HIDE DEF s
<1> QED BY <1>5, <1>6, <1>7, <1>8, <1>9, <1>10, <1>11, <1>12, OneSession

LEMMA SessionRemoveInv ==
  ASSUME IInv, NEW r \in Registries, NEW k \in Keys, SessionRemove(r, k)
  PROVE  IInv'
<1> DEFINE e == [rec |-> 0, loc |-> "normal"]
           s == SetEntry(session[r], k, e)
<1>1. TypeOK /\ r \in Files /\ IsOpen(r)
  BY DEF IInv, Files, SessionRemove
<1>2. session[r] \in Sessions
  BY <1>1, TypeFacts
<1>3. e \in Entries
  BY RecordsAssumption DEF Entries
<1>4. /\ s \in Sessions
      /\ s.base = session[r].base
      /\ s.idx[k] = e
      /\ \A j \in Keys \ {k} : s.idx[j] = session[r].idx[j]
  <2> HIDE DEF e
  <2> QED BY <1>2, <1>3 DEF Sessions, SetEntry
<1>5. session' = [session EXCEPT ![r] = s]
  BY DEF SessionRemove
<1>6. s.base = Content
  BY <1>1, <1>4 DEF IInv, SessionsFresh
<1>7. ASSUME NEW j \in Keys, s.idx[j].loc = "normal"
      PROVE  s.idx[j].rec \in {0, index[j]}
  <2>1. CASE j = k
    BY <2>1, <1>4
  <2>2. CASE j # k
    BY <2>2, <1>1, <1>4, <1>7 DEF IInv, Inherited
  <2> QED BY <2>1, <2>2
<1>8. ASSUME NEW j \in Keys, s.idx[j].loc = "safe"
      PROVE  s.idx[j].rec <= brk[r]
  <2>1. j # k
    BY <1>4, <1>8
  <2> QED BY <2>1, <1>1, <1>4, <1>8 DEF TypeOK, PointersValid, Store
<1>9. /\ index' = index /\ file' = file /\ brk' = brk
      /\ file \in [Files -> [Records -> Values \cup {NoValue}]]
      /\ brk \in [Files -> 0 .. MaxRecords]
      /\ formatted' \in BOOLEAN /\ up' \in BOOLEAN
  BY <1>1 DEF SessionRemove, TypeOK
<1> HIDE DEF s
<1> QED BY <1>4, <1>5, <1>6, <1>7, <1>8, <1>9, OneSession

LEMMA SessionGetMissingInv ==
  ASSUME IInv, NEW r \in Registries, NEW k \in Keys, SessionGetMissing(r, k)
  PROVE  IInv'
BY DEF IInv, TypeOK, PointersValid, SessionsFresh, Inherited, IsOpen, Content, Store,
       SessionGetMissing

----------------------------------------------------------------------------
(* Commit                                                                  *)

\* The session's own keys are finitely many, so the merge places each of their
\* records in a range of their number behind the allocated ones.
LEMMA PlacementFacts ==
  ASSUME IInv, NEW r \in Registries, IsOpen(r), NEW pos \in Placements(session[r])
  PROVE  /\ Cardinality(Own(session[r])) \in Nat
         /\ brk[Normal] \in Nat
         /\ \A k \in Own(session[r]) :
              /\ k \in Keys
              /\ pos[k] \in Nat
              /\ brk[Normal] < pos[k]
              /\ pos[k] <= brk[Normal] + Cardinality(Own(session[r]))
         /\ \A j, k \in Own(session[r]) : pos[j] = pos[k] => j = k
<1> DEFINE O == Own(session[r])
           c == Cardinality(O)
<1>1. O \subseteq Keys
  BY DEF Own
<1>2. c \in Nat
  <2> HIDE DEF O
  <2>1. IsFiniteSet(O)
    BY <1>1, KeysAssumption, FS_Subset
  <2> QED BY <2>1, FS_CardinalityType
<1>3. brk[Normal] \in Nat
  BY TypeFacts, RecordsAssumption DEF IInv, Files
<1>4. pos \in [O -> (brk[Normal] + 1) .. (brk[Normal] + c)] /\ IsInjective(pos)
  BY DEF Placements, Injection
<1>5. \A j, k \in O : pos[j] = pos[k] => j = k
  <2> HIDE DEF O, c
  <2> QED BY <1>4 DEF IsInjective
<1>6. \A k \in O : pos[k] \in Nat /\ brk[Normal] < pos[k] /\ pos[k] <= brk[Normal] + c
  <2> HIDE DEF O, c
  <2> QED BY <1>2, <1>3, <1>4
<1> QED BY <1>1, <1>2, <1>3, <1>5, <1>6

\* Merged keeps the allocated records and puts the record of an own key at its
\* place.
LEMMA MergedFacts ==
  ASSUME IInv, NEW r \in Registries, IsOpen(r), NEW pos \in Placements(session[r]),
         brk[Normal] + Cardinality(Own(session[r])) <= MaxRecords
  PROVE  /\ Merged(session[r], r, pos) \in [Records -> Values \cup {NoValue}]
         /\ \A n \in Records : n <= brk[Normal] =>
              Merged(session[r], r, pos)[n] = file[Normal][n]
         /\ \A k \in Own(session[r]) :
              /\ pos[k] \in Records
              /\ Merged(session[r], r, pos)[pos[k]] = file[Store(r)][session[r].idx[k].rec]
<1> DEFINE O == Own(session[r])
           M == Merged(session[r], r, pos)
           At(n) == CHOOSE k \in O : pos[k] = n
<1>1. TypeOK /\ Normal \in Files /\ Store(r) \in Files
  BY StoreFacts DEF IInv, Files
<1>2. ASSUME NEW k \in O
      PROVE  k \in Keys /\ session[r].idx[k].rec \in Records
  BY <1>1, TypeFacts, RecordsAssumption DEF Own, Records
<1>3. \A k \in O : pos[k] \in Nat /\ brk[Normal] < pos[k] /\ pos[k] \in Records
  BY PlacementFacts, RecordsAssumption DEF Records
<1>4. ASSUME NEW n \in Records
      PROVE  M[n] = IF \E k \in O : pos[k] = n
                    THEN file[Store(r)][session[r].idx[At(n)].rec] ELSE file[Normal][n]
  BY DEF Merged
<1>5. ASSUME NEW n \in Records, NEW k \in O, pos[k] = n
      PROVE  At(n) = k
  <2>1. At(n) \in O /\ pos[At(n)] = n
    BY <1>5
  <2> HIDE DEF O, At
  <2>2. \A i, j \in O : pos[i] = pos[j] => i = j
    BY PlacementFacts DEF O
  <2> QED BY <2>1, <2>2, <1>5
<1>6. DOMAIN M = Records /\ M = [n \in Records |-> M[n]]
  BY DEF Merged
<1> HIDE DEF M, At, O
<1>7. ASSUME NEW k \in O
      PROVE  M[pos[k]] = file[Store(r)][session[r].idx[k].rec]
  <2>1. M[pos[k]] = file[Store(r)][session[r].idx[At(pos[k])].rec]
    BY <1>3, <1>4
  <2>2. At(pos[k]) = k
    BY <1>3, <1>5
  <2> QED BY <2>1, <2>2
<1>8. ASSUME NEW n \in Records, n <= brk[Normal]
      PROVE  M[n] = file[Normal][n]
  <2>1. n \in Nat /\ brk[Normal] \in Nat
    BY <1>1, TypeFacts, RecordsAssumption DEF Records
  <2>2. ~ \E k \in O : pos[k] = n
    BY <2>1, <1>3, <1>8
  <2> QED BY <2>2, <1>4
<1>9. ASSUME NEW n \in Records
      PROVE  M[n] \in Values \cup {NoValue}
  <2>1. CASE \E k \in O : pos[k] = n
    <3>1. PICK k \in O : pos[k] = n
      BY <2>1
    <3>2. M[n] = file[Store(r)][session[r].idx[k].rec]
      BY <3>1, <1>7
    <3>3. session[r].idx[k].rec \in Records
      BY <1>2
    <3> QED BY <3>2, <3>3, <1>1, TypeFacts
  <2>2. CASE ~ \E k \in O : pos[k] = n
    BY <2>2, <1>1, <1>4, TypeFacts
  <2> QED BY <2>1, <2>2
<1> QED BY <1>3, <1>6, <1>7, <1>8, <1>9 DEF M, O

LEMMA CommitInv ==
  ASSUME IInv, NEW r \in Registries, Commit(r)
  PROVE  IInv'
<1> DEFINE c == Cardinality(Own(session[r]))
<1>1. TypeOK /\ Normal \in Files /\ IsOpen(r) /\ brk[Normal] + c <= MaxRecords
  BY DEF IInv, Files, Commit
<1>2. PICK pos \in Placements(session[r]) :
        /\ file' = [file EXCEPT ![Normal] = Merged(session[r], r, pos)]
        /\ index' = [k \in Keys |-> IF k \in Own(session[r]) THEN pos[k]
                                    ELSE session[r].idx[k].rec]
  BY DEF Commit, MergedIndex
<1>3. brk' = [brk EXCEPT ![Normal] = brk[Normal] + c]
  BY DEF Commit
<1>4. /\ c \in Nat /\ brk[Normal] \in Nat
      /\ \A k \in Own(session[r]) : pos[k] \in Nat /\ pos[k] <= brk[Normal] + c
  BY <1>1, PlacementFacts
<1>5. \A k \in Keys : k \notin Own(session[r]) =>
        session[r].idx[k].rec \in Nat /\ session[r].idx[k].rec <= brk[Normal]
  <2> SUFFICES ASSUME NEW k \in Keys, k \notin Own(session[r])
               PROVE  session[r].idx[k].rec \in Nat /\ session[r].idx[k].rec <= brk[Normal]
    OBVIOUS
  <2>1. session[r].idx[k].rec \in 0 .. MaxRecords
    BY <1>1, TypeFacts
  <2>2. CASE session[r].idx[k].rec = 0
    BY <2>2, <1>4
  <2>3. CASE session[r].idx[k].loc # "safe"
    BY <2>1, <2>3, <1>1 DEF TypeOK, PointersValid
  <2> QED BY <2>2, <2>3 DEF Own
<1> HIDE DEF c
<1>6. ASSUME NEW k \in Keys
      PROVE  index'[k] \in Nat /\ index'[k] <= brk[Normal] + c
  BY <1>2, <1>4, <1>5
<1>7. brk' \in [Files -> 0 .. MaxRecords] /\ brk'[Normal] = brk[Normal] + c
  BY <1>1, <1>3, <1>4, RecordsAssumption DEF TypeOK
<1>8. index' \in [Keys -> 0 .. MaxRecords]
  <2>1. \A k \in Keys : index'[k] \in 0 .. MaxRecords
    BY <1>1, <1>4, <1>6, RecordsAssumption
  <2> QED BY <2>1, <1>2
<1>9. file' \in [Files -> [Records -> Values \cup {NoValue}]]
  <2>1. Merged(session[r], r, pos) \in [Records -> Values \cup {NoValue}]
    BY <1>1, MergedFacts DEF c
  <2> QED BY <2>1, <1>1, <1>2 DEF TypeOK
<1>10. session' = NoSessions /\ formatted' \in BOOLEAN /\ up' \in BOOLEAN
  BY <1>1 DEF Commit, TypeOK
<1> QED BY <1>6, <1>7, <1>8, <1>9, <1>10, AllClosed

\* Every step keeps the invariant.
LEMMA NextInv == IInv /\ [Next]_vars => IInv'
<1> SUFFICES ASSUME IInv, [Next]_vars PROVE IInv'
  OBVIOUS
<1>1. CASE NormalStep
  BY <1>1, NormalAddInv, NormalRemoveInv DEF NormalStep
<1>2. ASSUME NEW r \in Registries, InSession(r)
      PROVE  IInv'
  BY <1>2, OpenInv, SessionAddInv, SessionRemoveInv, SessionGetMissingInv DEF InSession
<1>3. ASSUME NEW r \in Registries, Commit(r)
      PROVE  IInv'
  BY <1>3, CommitInv
<1>4. ASSUME NEW r \in Registries, Abort(r)
      PROVE  IInv'
  BY <1>4, AbortInv
<1>5. CASE Restart
  BY <1>5, RestartInv
<1>6. CASE UNCHANGED vars
  BY <1>6 DEF IInv, TypeOK, PointersValid, SessionsFresh, Inherited, IsOpen, Content,
              Store, vars
<1> QED BY <1>1, <1>2, <1>3, <1>4, <1>5, <1>6 DEF Next

----------------------------------------------------------------------------
\* In every reachable state of the storage engine the data pointers lead to
\* allocated records, the sessions are fresh and inherit only records of the
\* normal index (MMyISAM.cpp, every operation).
THEOREM SessionsInvariant == Spec => []IInv
<1>1. Init => IInv
  BY InitInv
<1>2. IInv /\ [Next]_vars => IInv'
  BY NextInv
<1> QED BY <1>1, <1>2, PTL DEF Spec

\* Every operation keeps types and data pointers (MMyISAM.cpp, value_store_manager.cpp).
THEOREM SessionsTypeOK == Spec => []TypeOK
<1>1. IInv => TypeOK
  BY DEF IInv
<1> QED BY <1>1, SessionsInvariant, PTL

\* clearSafeMode is called wherever it is needed: a session that is open works on
\* the database as it is.
THEOREM NoStaleSession == Spec => []SessionsFresh
<1>1. IInv => SessionsFresh
  BY DEF IInv
<1> QED BY <1>1, SessionsInvariant, PTL

\* A commit step installs the session's view.
LEMMA CommitStep ==
  ASSUME IInv, NEW r \in Registries, Commit(r)
  PROVE  Content' = View(r)
<1>1. /\ TypeOK /\ Normal \in Files /\ IsOpen(r)
      /\ brk[Normal] + Cardinality(Own(session[r])) <= MaxRecords
  BY DEF IInv, Files, Commit
<1>2. PICK pos \in Placements(session[r]) :
        /\ file' = [file EXCEPT ![Normal] = Merged(session[r], r, pos)]
        /\ index' = [k \in Keys |-> IF k \in Own(session[r]) THEN pos[k]
                                    ELSE session[r].idx[k].rec]
  BY DEF Commit, MergedIndex
<1>3. file'[Normal] = Merged(session[r], r, pos)
  BY <1>1, <1>2 DEF TypeOK
<1>4. ASSUME NEW k \in Keys
      PROVE  Content'[k] = View(r)[k]
  <2>1. Content'[k] = IF index'[k] = 0 THEN NoValue
                      ELSE Merged(session[r], r, pos)[index'[k]]
    BY <1>3 DEF Content
  <2>2. View(r)[k] = IF session[r].idx[k].rec = 0 THEN NoValue
                     ELSE file[IF session[r].idx[k].loc = "safe" THEN Store(r)
                               ELSE Normal][session[r].idx[k].rec]
    BY DEF View, ViewOf
  <2>3. CASE k \in Own(session[r])
    <3>1. session[r].idx[k].rec # 0 /\ session[r].idx[k].loc = "safe"
      BY <2>3 DEF Own
    <3>2. index'[k] = pos[k] /\ pos[k] # 0
      BY <2>3, <1>1, <1>2, PlacementFacts
    <3>3. Merged(session[r], r, pos)[pos[k]] = file[Store(r)][session[r].idx[k].rec]
      BY <2>3, <1>1, MergedFacts
    <3> QED BY <2>1, <2>2, <3>1, <3>2, <3>3
  <2>4. CASE k \notin Own(session[r])
    <3>1. index'[k] = session[r].idx[k].rec
      BY <2>4, <1>2
    <3>2. CASE session[r].idx[k].rec = 0
      BY <2>1, <2>2, <3>1, <3>2
    <3>3. CASE session[r].idx[k].rec # 0
      <4>1. session[r].idx[k].loc # "safe"
        BY <2>4, <3>3 DEF Own
      <4>2. session[r].idx[k].rec <= brk[Normal] /\ session[r].idx[k].rec \in Records
        BY <4>1, <3>3, <1>1, TypeFacts, RecordsAssumption DEF TypeOK, PointersValid, Records
      <4>3. Merged(session[r], r, pos)[session[r].idx[k].rec]
              = file[Normal][session[r].idx[k].rec]
        BY <4>2, <1>1, MergedFacts
      <4> QED BY <2>1, <2>2, <3>1, <3>3, <4>1, <4>3
    <3> QED BY <3>2, <3>3
  <2> QED BY <2>3, <2>4
<1>5. Content' = [k \in Keys |-> Content'[k]] /\ View(r) = [k \in Keys |-> View(r)[k]]
  BY DEF Content, View, ViewOf
<1> HIDE DEF Content, View
<1> QED BY <1>4, <1>5

\* safeCommitExit installs exactly what the session holds: added values, removed
\* keys, everything else unchanged.
THEOREM CommitIsExact == Spec => CommitInstalls
<1>1. IInv /\ [Next]_vars => [\A r \in Registries : Commit(r) => Content' = View(r)]_vars
  BY CommitStep
<1> QED BY <1>1, SessionsInvariant, PTL DEF Spec, CommitInstalls

\* A step inside session r leaves the normal database and the other sessions alone.
LEMMA InSessionStep ==
  ASSUME IInv, NEW r \in Registries, InSession(r)
  PROVE  /\ Content' = Content
         /\ \A q \in Registries \ {r} : IsOpen(q) => IsOpen(q)' /\ View(q)' = View(q)
<1>1. TypeOK /\ Normal \in Files /\ r \in Files /\ r # Normal
  BY NamesAssumption DEF IInv, Files
<1>2. index' = index /\ \A q \in Files \ {r} : file'[q] = file[q]
  <2>1. CASE Open(r)
    BY <2>1 DEF Open
  <2>2. ASSUME NEW k \in Keys, NEW v \in Values, SessionAdd(r, k, v)
        PROVE  index' = index /\ \A q \in Files \ {r} : file'[q] = file[q]
    BY <2>2, <1>1, AppendFacts DEF SessionAdd, Store
  <2>3. ASSUME NEW k \in Keys, SessionRemove(r, k) \/ SessionGetMissing(r, k)
        PROVE  index' = index /\ \A q \in Files \ {r} : file'[q] = file[q]
    BY <2>3 DEF SessionRemove, SessionGetMissing
  <2> QED BY <2>1, <2>2, <2>3 DEF InSession
<1>3. \A q \in Registries \ {r} : session'[q] = session[q]
  <2>1. session \in [Registries -> Sessions \cup {NoSession}]
    BY <1>1 DEF TypeOK
  <2> QED BY <2>1 DEF InSession, Open, SessionAdd, SessionRemove, SessionGetMissing
<1>4. file'[Normal] = file[Normal]
  BY <1>1, <1>2
<1>5. Content' = Content
  BY <1>2, <1>4, ContentKept
<1>6. ASSUME NEW q \in Registries \ {r}, IsOpen(q)
      PROVE  IsOpen(q)' /\ View(q)' = View(q)
  <2>1. file'[q] = file[q] /\ q \in Files
    BY <1>2 DEF Files
  <2> QED BY <2>1, <1>3, <1>4, <1>6 DEF IsOpen, View, ViewOf, Store
<1> QED BY <1>5, <1>6

\* What a client does in a session is invisible outside it until the commit
\* (MMyISAM.cpp: add, remove, migrateToSafeMode, safeAbortExit).
THEOREM SessionsAreIsolated == Spec => SessionsIsolated
<1>1. IInv /\ [Next]_vars =>
        [\A r \in Registries :
           /\ InSession(r) \/ Abort(r) => Content' = Content
           /\ InSession(r) => \A q \in Registries \ {r} :
                IsOpen(q) => IsOpen(q)' /\ View(q)' = View(q)]_vars
  <2>1. ASSUME IInv, NEW r \in Registries, Abort(r)
        PROVE  Content' = Content
    BY <2>1 DEF Abort, Content
  <2> QED BY <2>1, InSessionStep
<1> QED BY <1>1, SessionsInvariant, PTL DEF Spec, SessionsIsolated
=============================================================================
