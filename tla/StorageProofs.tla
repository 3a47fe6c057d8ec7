---------------------------- MODULE StorageProofs ----------------------------
(***************************************************************************)
(* Theorems on the storage.  On Migrations: what migrate applies, it       *)
(* applies in whole, a disable leaves no table behind, and a backend finds *)
(* the tables that its statements name.  On Recovery: what start()         *)
(* restores, and the replication of the encrypted database.                *)
(***************************************************************************)
EXTENDS Migrations, Recovery, Integers, FiniteSetTheorems, SequenceTheorems, TLAPS

(***************************************************************************)
(* The invariant                                                           *)
(***************************************************************************)

\* The versions vs and the tables ts that m has once its first k scripts and
\* j statements of the next one are through
PlacesTo(m, k, j) == Places(m, k) \cup ({k + 1} \X (1 .. j))

AppliedIs(vs, m, k) == \A v \in Nat : <<m, v>> \in vs <=> v < k
TablesAre(ts, m, places) == \A t \in Table : <<m, t>> \in ts <=> t \in SchemaOf(m, places)

\* The stored mounts are migrated up to a script that they have.
MountOK(m) ==
    \E k \in 0 .. Count(m) : AppliedIs(versions, m, k) /\ TablesAre(tables, m, Places(m, k))

\* A call goes by the versions that are there, and disables a mount that is gone.
CallOK(r) ==
    LET h == req[r]
        m == h.mount
    IN  /\ h.pc # "idle" => m \in used
        /\ h.pc = "latest" => h.script = 0
        /\ h.pc \in {"next", "run"} =>
              /\ h.script <= Count(m)
              /\ m \in mounts =>
                    /\ \A v \in Nat : v < h.script => <<m, v>> \in versions
                    /\ \A v \in Nat : v <= h.latest => <<m, v>> \in versions
        /\ h.pc = "run" =>
              /\ tx.by = r
              /\ h.script < Count(m)
              /\ h.next \in 1 .. Len(Scripts[m][h.script + 1]) + 1
        /\ h.pc \in {"list", "drop"} => m \notin mounts
        /\ h.pc = "drop" => h.todo \subseteq {m} \X Table

\* The image of a transaction differs from what is committed by the version
\* and the statements that were run.
TxOK ==
    tx.by # None =>
        LET h == req[tx.by]
            m == h.mount
        IN  /\ h.pc = "run"
            /\ m \in mounts
            /\ AppliedIs(versions, m, h.script)
            /\ tx.versions = versions \cup {<<m, h.script>>}
            /\ TablesAre(tx.tables, m, PlacesTo(m, h.script, h.next - 1))
            /\ \A t \in Mount \X Table : t[1] # m => (t \in tx.tables <=> t \in tables)

HistoryOK ==
    /\ mounts \subseteq used
    /\ cut \subseteq used
    /\ \A v \in versions : v[1] \in mounts
    /\ \A m \in Mount \ used : whole[m] = 0
    /\ \A m \in Mount : whole[m] <= release
    /\ \A m \in mounts : whole[m] = release =>
          \A v \in Nat : v < Count(m) => <<m, v>> \in versions

MigrationInv ==
    /\ TypeOK
    /\ \A m \in mounts : MountOK(m)
    /\ \A r \in Request : CallOK(r)
    /\ TxOK
    /\ HistoryOK
    /\ NoTablesLeft

(***************************************************************************)
(* Places and schemas                                                      *)
(***************************************************************************)

\* How many scripts a mount has run is at most how many it has, and how many
\* the release ships.
LEMMA CountBounds ==
    ASSUME TypeOK, NEW m \in Mount
    PROVE  /\ Len(Scripts[m]) \in Nat
           /\ Count(m) \in Nat /\ Count(m) <= Len(Scripts[m]) /\ Count(m) <= release
           /\ \A i \in 1 .. Len(Scripts[m]) : Len(Scripts[m][i]) \in Nat
BY MigrationsAssumption DEF TypeOK, Count

\* A statement of a script names a table.
LEMMA PlaceType ==
    ASSUME NEW m \in Mount, NEW k \in Nat, k < Len(Scripts[m]), NEW j \in 1 .. Len(Scripts[m][k + 1])
    PROVE  Scripts[m][k + 1][j].table \in Table
<1>1. k + 1 \in 1 .. Len(Scripts[m])
  BY MigrationsAssumption
<1>2. <<k + 1, j>> \in AllPlaces(m)
  BY <1>1 DEF AllPlaces, Places
<1>3. QED
  BY <1>2 DEF Table

\* The places up to a statement, and all those of a script
LEMMA PlacesGrow ==
    ASSUME NEW m, NEW k \in Nat, NEW j \in Nat
    PROVE  PlacesTo(m, k, j + 1) = PlacesTo(m, k, j) \cup {<<k + 1, j + 1>>}
<1>1. 1 .. j + 1 = (1 .. j) \cup {j + 1}
  OBVIOUS
<1>2. QED
  BY <1>1 DEF PlacesTo

\* The places a script reaches before its first statement and after its last.
LEMMA PlacesEnds ==
    ASSUME NEW m, NEW k \in Nat
    PROVE  /\ PlacesTo(m, k, 0) = Places(m, k)
           /\ PlacesTo(m, k, Len(Scripts[m][k + 1])) = Places(m, k + 1)
<1>1. 1 .. 0 = {} /\ 1 .. k + 1 = (1 .. k) \cup {k + 1}
  OBVIOUS
<1>2. PlacesTo(m, k, 0) = Places(m, k)
  BY <1>1 DEF PlacesTo
<1>3. PlacesTo(m, k, Len(Scripts[m][k + 1])) = Places(m, k + 1)
  BY <1>1 DEF PlacesTo, Places
<1>4. QED
  BY <1>2, <1>3

\* One more statement, after all others
LEMMA SchemaGrows ==
    ASSUME NEW m, NEW S \in SUBSET (Nat \X Nat), NEW p \in Nat \X Nat,
           \A q \in S : p[1] > q[1] \/ (p[1] = q[1] /\ p[2] > q[2]),
           NEW t
    PROVE  LET stmt == Scripts[m][p[1]][p[2]]
           IN  t \in SchemaOf(m, S \cup {p}) <=>
                  \/ stmt.kind = "create_table" /\ t = stmt.table
                  \/ t \in SchemaOf(m, S) /\ ~ (stmt.kind = "drop" /\ t = stmt.table)
<1> DEFINE At(q) == Scripts[m][q[1]][q[2]]
           Later(q, r) == q[1] > r[1] \/ (q[1] = r[1] /\ q[2] > r[2])
           Makes(P, q) == /\ q \in P /\ At(q).kind = "create_table" /\ At(q).table = t
                          /\ \A d \in P : At(d).kind = "drop" /\ At(d).table = t => Later(q, d)
<1>1. \A P : t \in SchemaOf(m, P) <=> \E q : Makes(P, q)
  BY DEF SchemaOf
<1>2. /\ p \notin S
      /\ \A q \in S : Later(p, q) /\ ~ Later(q, p)
      /\ ~ Later(p, p)
  OBVIOUS
<1>3. CASE At(p).kind = "create_table"
  <2>1. \A q \in S : Makes(S \cup {p}, q) <=> Makes(S, q)
    BY <1>3
  <2>2. Makes(S \cup {p}, p) <=> At(p).table = t
    BY <1>2, <1>3
  <2> HIDE DEF Makes
  <2>3. \A P, q : Makes(P, q) => q \in P
    BY DEF Makes
  <2>4. (\E q : Makes(S \cup {p}, q)) <=> (\E q : Makes(S, q)) \/ At(p).table = t
    BY <2>1, <2>2, <2>3
  <2>5. t \in SchemaOf(m, S \cup {p}) <=> t \in SchemaOf(m, S) \/ At(p).table = t
    BY <1>1, <2>4
  <2>6. QED
    BY <1>3, <2>5
<1>4. CASE At(p).kind # "create_table"
  <2>1. ~ Makes(S \cup {p}, p)
    BY <1>4
  <2>2. \A q \in S : Makes(S \cup {p}, q) <=> Makes(S, q) /\ ~ (At(p).kind = "drop" /\ At(p).table = t)
    BY <1>2, <1>4
  <2>3. \A P, q : Makes(P, q) => q \in P
    OBVIOUS
  <2> HIDE DEF Makes
  <2>4. (\E q : Makes(S \cup {p}, q)) <=>
           (\E q : Makes(S, q)) /\ ~ (At(p).kind = "drop" /\ At(p).table = t)
    BY <2>1, <2>2, <2>3
  <2>5. t \in SchemaOf(m, S \cup {p}) <=>
           t \in SchemaOf(m, S) /\ ~ (At(p).kind = "drop" /\ At(p).table = t)
    BY <1>1, <2>4
  <2>6. QED
    BY <1>4, <2>5
<1>5. QED
  BY <1>3, <1>4

\* Running the next statement of a script
LEMMA AfterIs ==
    ASSUME NEW m \in Mount, NEW k \in Nat, NEW j \in Nat, NEW ts, TablesAre(ts, m, PlacesTo(m, k, j))
    PROVE  /\ TablesAre(After(m, Scripts[m][k + 1][j + 1], ts), m, PlacesTo(m, k, j + 1))
           /\ \A t \in Mount \X Table : t[1] # m => (t \in After(m, Scripts[m][k + 1][j + 1], ts) <=> t \in ts)
<1> DEFINE S == PlacesTo(m, k, j)
           p == <<k + 1, j + 1>>
           stmt == Scripts[m][k + 1][j + 1]
<1>1. PlacesTo(m, k, j + 1) = S \cup {p}
  <2> HIDE DEF S, p, stmt
  <2>1. PlacesTo(m, k, j + 1) = PlacesTo(m, k, j) \cup {<<k + 1, j + 1>>}
    BY PlacesGrow
  <2>2. QED
    BY <2>1 DEF S, p
<1>2. S \in SUBSET (Nat \X Nat) /\ \A q \in S : p[1] > q[1] \/ (p[1] = q[1] /\ p[2] > q[2])
  BY DEF PlacesTo, Places
<1>3. ASSUME NEW t
      PROVE  t \in SchemaOf(m, S \cup {p}) <=>
                  \/ stmt.kind = "create_table" /\ t = stmt.table
                  \/ t \in SchemaOf(m, S) /\ ~ (stmt.kind = "drop" /\ t = stmt.table)
  <2> HIDE DEF S
  <2>1. p \in Nat \X Nat /\ p[1] = k + 1 /\ p[2] = j + 1
    OBVIOUS
  <2> HIDE DEF p
  <2>2. QED
    BY <1>2, <2>1, SchemaGrows
<1>4. ASSUME NEW t \in Table
      PROVE  <<m, t>> \in After(m, stmt, ts) <=>
                  \/ stmt.kind = "create_table" /\ t = stmt.table
                  \/ <<m, t>> \in ts /\ ~ (stmt.kind = "drop" /\ t = stmt.table)
  BY DEF After
<1>5. \A t \in Mount \X Table : t[1] # m => (t \in After(m, stmt, ts) <=> t \in ts)
  BY DEF After
<1>6. QED
  <2> HIDE DEF S, p, stmt
  <2>1. TablesAre(After(m, stmt, ts), m, S \cup {p})
    BY <1>3, <1>4 DEF TablesAre, S
  <2>2. QED
    BY <1>1, <1>5, <2>1 DEF stmt

(***************************************************************************)
(* Types                                                                   *)
(***************************************************************************)

\* No call in progress is a state of a call.
LEMMA IdleType == Idle \in Call /\ Idle.pc = "idle" /\ Idle.next = 1 /\ Idle.script = 0
BY DEF Idle, Call

\* What SetReq does to the calls.
LEMMA SetReqIs ==
    ASSUME TypeOK, NEW r \in Request, NEW h \in Call, SetReq(r, h)
    PROVE  /\ req' \in [Request -> Call]
           /\ req'[r] = h
           /\ \A q \in Request \ {r} : req'[q] = req[q]
BY DEF TypeOK, SetReq

\* The server starts with the invariant: no mount, no table.
LEMMA InitInv == Init => MigrationInv
<1> SUFFICES ASSUME Init PROVE MigrationInv
  OBVIOUS
<1>1. req \in [Request -> Call] /\ \A r \in Request : req[r] = Idle
  BY IdleType DEF Init
<1>2. tx \in [by : Request \cup {None}, versions : SUBSET (Mount \X Nat), tables : SUBSET (Mount \X Table)]
      /\ tx.by = None
  BY DEF Init, NoTx
<1>3. TypeOK
  BY <1>1, <1>2 DEF Init, TypeOK
<1>4. release \in Nat /\ \A m \in Mount : whole[m] = 0 /\ 0 <= release
  BY <1>3, MigrationsAssumption DEF Init, TypeOK
<1>5. HistoryOK
  BY <1>4 DEF Init, HistoryOK
<1>6. QED
  BY <1>1, <1>2, <1>3, <1>5 DEF Init, MigrationInv, CallOK, TxOK, NoTablesLeft, Idle

\* The owner of tx is a caller at work.
LEMMA Writers ==
    ASSUME MigrationInv
    PROVE  /\ ~ Free => tx.by \in Request /\ req[tx.by].pc = "run" /\ req[tx.by].mount \in mounts
           /\ \A r \in Request : req[r].pc # "idle" => req[r].mount \in used /\ req[r].mount \in Mount
           /\ \A r \in Request : tx.by = r <=> req[r].pc = "run"
BY MigrationsAssumption DEF MigrationInv, Free, TxOK, TypeOK, CallOK

-----------------------------------------------------------------------------
(***************************************************************************)
(* Steps that leave versions, tables and mounts alone                      *)
(***************************************************************************)

\* A call goes on, or ends, without writing.
LEMMA QuietStep ==
    ASSUME MigrationInv, NEW r \in Request, NEW h \in Call, SetReq(r, h),
           UNCHANGED <<committed, tx, release, used>>, faults' \in Nat,
           HistoryOK', cut \subseteq cut', cut' \subseteq Mount, whole' \in [Mount -> Nat],
           req[r].pc # "run", h.pc # "run", CallOK(r)',
           req[r].pc \in {"list", "drop"} =>
               \A t \in tables : t[1] = req[r].mount /\ (req[r].pc = "drop" => t \in req[r].todo) =>
                   \/ t[1] \in mounts \cup cut'
                   \/ h.mount = t[1] /\ (h.pc = "list" \/ (h.pc = "drop" /\ t \in h.todo))
    PROVE  MigrationInv'
<1>1. /\ req' \in [Request -> Call]
      /\ req'[r] = h
      /\ \A q \in Request \ {r} : req'[q] = req[q]
  BY SetReqIs DEF MigrationInv
<1>2. UNCHANGED <<mounts, versions, tables, tx, release, used>>
  BY DEF committed
<1>3. TypeOK'
  BY <1>1, <1>2 DEF MigrationInv, TypeOK
<1>4. \A m \in mounts : MountOK(m)'
  BY <1>2 DEF MigrationInv, MountOK, AppliedIs, TablesAre, Count
<1>5. \A q \in Request : CallOK(q)'
  BY <1>1, <1>2 DEF MigrationInv, CallOK, Count
<1>6. TxOK'
  <2>1. tx.by # None => tx.by \in Request /\ tx.by # r
    BY Writers DEF Free
  <2>2. tx.by # None => req'[tx.by] = req[tx.by]
    BY <1>1, <2>1
  <2>3. QED
    BY <1>2, <2>2 DEF MigrationInv, TxOK, AppliedIs, TablesAre
<1>8. NoTablesLeft'
  <2> SUFFICES ASSUME NEW t \in tables
               PROVE  \/ t[1] \in mounts \cup cut'
                      \/ \E q \in Request :
                            /\ req'[q].mount = t[1]
                            /\ \/ req'[q].pc = "list"
                               \/ req'[q].pc = "drop" /\ t \in req'[q].todo
    BY <1>2 DEF NoTablesLeft
  <2>1. CASE t[1] \in mounts \cup cut
    BY <2>1
  <2>2. ASSUME NEW q \in Request, req[q].mount = t[1], req[q].pc = "list" \/ (req[q].pc = "drop" /\ t \in req[q].todo)
        PROVE  \/ t[1] \in mounts \cup cut'
               \/ \E c \in Request :
                            /\ req'[c].mount = t[1]
                            /\ \/ req'[c].pc = "list"
                               \/ req'[c].pc = "drop" /\ t \in req'[c].todo
    <3>1. CASE q = r
      BY <1>1, <2>2, <3>1
    <3>2. CASE q # r
      BY <1>1, <2>2, <3>2
    <3>3. QED
      BY <3>1, <3>2
  <2>3. QED
    BY <2>1, <2>2 DEF MigrationInv, NoTablesLeft
<1>9. QED
  BY <1>2, <1>3, <1>4, <1>5, <1>6, <1>8 DEF MigrationInv

\* A step that commits nothing and releases nothing keeps the history in
\* order.
LEMMA HistorySame ==
    ASSUME MigrationInv, UNCHANGED <<committed, release, history>>
    PROVE  /\ HistoryOK' /\ cut \subseteq cut' /\ cut' \subseteq Mount /\ whole' \in [Mount -> Nat]
           /\ used' = used
BY DEF committed, history, MigrationInv, HistoryOK, Count, TypeOK

\* Answering early
LEMMA QuietEnd ==
    ASSUME MigrationInv, NEW r \in Request, Done(r), UNCHANGED <<committed, tx, release, history>>,
           faults' \in Nat, req[r].pc \notin {"run", "list"}, req[r].pc = "drop" => req[r].todo = {}
    PROVE  MigrationInv'
<1>1. SetReq(r, Idle)
  BY DEF Done
<1>2. req'[r] = Idle
  BY <1>1, IdleType, SetReqIs DEF MigrationInv
<1>3. CallOK(r)'
  BY <1>2, IdleType DEF CallOK
<1>4. QED
  BY <1>1, <1>3, IdleType, QuietStep, HistorySame

\* migrate is called for a mount.
LEMMA BeginMigrateStep ==
    ASSUME MigrationInv, NEW r \in Request, NEW m \in Mount, BeginMigrate(r, m)
    PROVE  MigrationInv'
<1> DEFINE h == [Idle EXCEPT !.pc = "latest", !.mount = m]
<1>1. h \in Call /\ h.pc = "latest" /\ h.mount = m /\ h.script = 0
  BY DEF Idle, Call
<1>2. SetReq(r, h) /\ m \in mounts /\ req[r].pc = "idle" /\ UNCHANGED <<committed, tx, release, history, faults>>
  BY DEF BeginMigrate
<1> HIDE DEF h
<1>3. req'[r] = h
  BY <1>1, <1>2, SetReqIs DEF MigrationInv
<1>4. m \in used'
  BY <1>2 DEF MigrationInv, HistoryOK, history
<1>5. CallOK(r)'
  BY <1>1, <1>3, <1>4 DEF CallOK
<1>6. faults' \in Nat
  BY <1>2 DEF MigrationInv, TypeOK
<1>7. QED
  BY <1>1, <1>2, <1>5, <1>6, QuietStep, HistorySame

\* SELECT MAX(version), of versions without a gap
LatestOf(applied) ==
    IF applied = {} THEN 0 - 1 ELSE CHOOSE v \in applied : \A w \in applied : w <= v

\* The latest version of the scripts 0 .. k-1 is below k, or there is none.
LEMMA LatestIs ==
    ASSUME NEW k \in Nat, NEW A \in SUBSET Nat, \A v \in Nat : v \in A <=> v < k
    PROVE  LatestOf(A) \in Nat \cup {0 - 1} /\ \A v \in Nat : v <= LatestOf(A) => v < k
<1>1. CASE k = 0
  <2>1. A = {}
    BY <1>1
  <2>2. QED
    BY <2>1 DEF LatestOf
<1>2. CASE k > 0
  <2>1. k - 1 \in Nat /\ k - 1 \in A /\ \A w \in A : w <= k - 1
    BY <1>2
  <2>2. \E v \in A : \A w \in A : w <= v
    BY <2>1
  <2>3. LatestOf(A) \in A
    BY <2>1, <2>2 DEF LatestOf
  <2>4. LatestOf(A) \in Nat /\ LatestOf(A) < k
    BY <2>3
  <2> HIDE DEF LatestOf
  <2>5. QED
    BY <2>4
<1>3. QED
  BY <1>1, <1>2

\* The latest version applied is read: what is to be run is what is left.
LEMMA ReadLatestStep ==
    ASSUME MigrationInv, NEW r \in Request, ReadLatest(r)
    PROVE  MigrationInv'
<1> DEFINE m == req[r].mount
           applied == VersionsOf(versions, m)
           h == [req[r] EXCEPT !.pc = "next", !.latest = LatestOf(applied)]
<1>1. m \in used /\ m \in Mount /\ req[r] \in Call /\ req[r].pc = "latest" /\ TypeOK
  BY Writers DEF ReadLatest, MigrationInv, TypeOK
<1>2. applied \in SUBSET Nat /\ \A v \in Nat : v \in applied <=> <<m, v>> \in versions
  BY DEF VersionsOf, MigrationInv, TypeOK
<1>3. \E k \in Nat : \A v \in Nat : v \in applied <=> v < k
  <2>1. CASE m \in mounts
    <3>1. PICK k \in 0 .. Count(m) : AppliedIs(versions, m, k)
      BY <2>1 DEF MigrationInv, MountOK
    <3>2. k \in Nat
      BY <1>1, CountBounds
    <3>3. QED
      BY <1>2, <3>1, <3>2 DEF AppliedIs
  <2>2. CASE m \notin mounts
    <3>1. \A v \in Nat : v \notin applied
      BY <1>2, <2>2 DEF MigrationInv, HistoryOK
    <3>2. \A v \in Nat : v \in applied <=> v < 0
      BY <3>1
    <3>3. QED
      BY <3>2
  <2>3. QED
    BY <2>1, <2>2
<1> HIDE DEF applied
<1>4. LatestOf(applied) \in Nat \cup {0 - 1} /\ \A v \in Nat : v <= LatestOf(applied) => <<m, v>> \in versions
  BY <1>2, <1>3, LatestIs
<1>5. /\ h \in Call /\ h.pc = "next" /\ h.mount = m /\ h.latest = LatestOf(applied) /\ h.script = req[r].script
  BY <1>1, <1>4 DEF Call
<1>6. SetReq(r, h) /\ UNCHANGED <<committed, tx, release, history, faults>>
  BY DEF ReadLatest, LatestOf, applied
<1>7. req'[r] = h
  BY <1>1, <1>5, <1>6, SetReqIs
<1>8. UNCHANGED <<mounts, versions, used, release>> /\ faults' \in Nat
  BY <1>1, <1>6 DEF committed, history, TypeOK
<1> HIDE DEF h
<1>9. CallOK(r)'
  <2>1. h.script = 0
    BY <1>1, <1>5 DEF MigrationInv, CallOK
  <2>2. QED
    BY <1>1, <2>1, <1>4, <1>5, <1>7, <1>8, CountBounds DEF CallOK, Count
<1>10. QED
  BY <1>1, <1>5, <1>6, <1>8, <1>9, QuietStep, HistorySame

\* A script that is applied already is skipped.
LEMMA SkipScriptStep ==
    ASSUME MigrationInv, NEW r \in Request, SkipScript(r)
    PROVE  MigrationInv'
<1> DEFINE m == req[r].mount
           h == [req[r] EXCEPT !.script = @ + 1]
<1>1. /\ req[r] \in Call /\ req[r].pc = "next" /\ req[r].script < Count(m) /\ req[r].latest >= req[r].script
      /\ SetReq(r, h) /\ UNCHANGED <<committed, tx, release, history, faults>>
      /\ TypeOK
  BY DEF MigrationInv, TypeOK, SkipScript, AtScript
<1>2. m \in Mount
  BY <1>1, Writers
<1>3. h \in Call /\ h.pc = "next" /\ h.mount = m /\ h.script = req[r].script + 1 /\ h.latest = req[r].latest
  BY <1>1 DEF Call
<1> HIDE DEF h
<1>4. req'[r] = h /\ UNCHANGED <<mounts, versions, used, release>> /\ faults' \in Nat
  BY <1>1, <1>3, SetReqIs DEF committed, history, TypeOK
<1>5. req[r].script \in Nat /\ req[r].latest \in Int
  BY <1>1 DEF Call
<1>6. m \in used /\ (m \in mounts => \A v \in Nat : v <= req[r].latest => <<m, v>> \in versions)
  BY <1>1 DEF MigrationInv, CallOK
<1>7. \A v \in Nat : v < h.script => v <= req[r].latest
  BY <1>1, <1>3, <1>5
<1>8. CallOK(r)'
  BY <1>1, <1>2, <1>3, <1>4, <1>5, <1>6, <1>7, CountBounds DEF CallOK, Count
<1>9. QED
  BY <1>1, <1>3, <1>4, <1>8, QuietStep, HistorySame

\* A transaction begins with the version that comes next.
LEMMA InsertVersionStep ==
    ASSUME MigrationInv, NEW r \in Request, InsertVersion(r)
    PROVE  MigrationInv'
<1> DEFINE h == [req[r] EXCEPT !.pc = "run", !.next = 1]
<1>0. PICK m \in Mount, k \in Nat : m = req[r].mount /\ k = req[r].script /\ m \in used
  BY Writers DEF InsertVersion, AtScript, MigrationInv, TypeOK, Call
<1>1. /\ req[r] \in Call /\ req[r].pc = "next" /\ k < Count(m) /\ Free
      /\ UNCHANGED <<committed, release, history, faults>>
      /\ TypeOK
  BY <1>0 DEF MigrationInv, TypeOK, InsertVersion, AtScript
<1>2. m \in Mount /\ m \in used
  BY <1>0
<1>3. CASE Done(r) /\ UNCHANGED tx
  BY <1>1, <1>3, QuietEnd DEF TypeOK
<1>4. CASE /\ m \in mounts
           /\ <<m, k>> \notin versions
           /\ tx' = [by |-> r, versions |-> versions \cup {<<m, k>>}, tables |-> tables]
           /\ SetReq(r, h)
  <2>1. h \in Call /\ h.pc = "run" /\ h.mount = m /\ h.script = k /\ h.next = 1 /\ h.latest = req[r].latest
    BY <1>0, <1>1 DEF Call
  <2> HIDE DEF h
  <2>2. /\ req' \in [Request -> Call]
        /\ req'[r] = h
        /\ \A q \in Request \ {r} : req'[q] = req[q]
    BY <1>1, <1>4, <2>1, SetReqIs
  <2>3. UNCHANGED <<mounts, versions, tables, release, used, whole, cut, faults>>
    BY <1>1 DEF committed, history
  <2>4. tx' \in [by : Request \cup {None}, versions : SUBSET (Mount \X Nat), tables : SUBSET (Mount \X Table)]
        /\ tx'.by = r /\ tx'.versions = versions \cup {<<m, k>>} /\ tx'.tables = tables
    BY <1>1, <1>2, <1>4 DEF TypeOK
  <2>5. TypeOK'
    BY <1>1, <2>2, <2>3, <2>4 DEF TypeOK
  <2>6. PICK n \in 0 .. Count(m) : AppliedIs(versions, m, n) /\ TablesAre(tables, m, Places(m, n))
    BY <1>4 DEF MigrationInv, MountOK
  <2>7. n = k
    <3>1. \A v \in Nat : v < k => <<m, v>> \in versions
      BY <1>0, <1>1, <1>4 DEF MigrationInv, CallOK
    <3>2. n \in Nat
      BY <1>1, CountBounds
    <3>3. ~ (k < n)
      BY <1>4, <2>6 DEF AppliedIs
    <3>4. ~ (n < k)
      <4>1. <<m, n>> \in versions <=> n < n
        BY <2>6, <3>2 DEF AppliedIs
      <4>2. QED
        BY <3>1, <3>2, <4>1
    <3>5. QED
      BY <3>2, <3>3, <3>4
  <2>8. TxOK'
    <3>1. h.next - 1 = 0 /\ PlacesTo(m, k, 0) = Places(m, k)
      BY <2>1, PlacesEnds
    <3>2. AppliedIs(versions', m, k) /\ TablesAre(tx'.tables, m, PlacesTo(m, k, 0))
      BY <2>3, <2>4, <2>6, <2>7, <3>1 DEF AppliedIs, TablesAre
    <3>3. req'[r].pc = "run" /\ req'[r].mount = m /\ req'[r].script = k /\ req'[r].next - 1 = 0
      BY <2>1, <2>2
    <3>4. QED
      BY <1>4, <2>3, <2>4, <3>2, <3>3 DEF TxOK
  <2>9. CallOK(r)'
    <3>1. Len(Scripts[m][k + 1]) \in Nat /\ 1 \in 1 .. Len(Scripts[m][k + 1]) + 1 /\ k <= Count(m)
      BY <1>1, <1>2, CountBounds
    <3>2. m \in mounts => /\ \A v \in Nat : v < k => <<m, v>> \in versions
                          /\ \A v \in Nat : v <= req[r].latest => <<m, v>> \in versions
      BY <1>0, <1>1 DEF MigrationInv, CallOK
    <3>3. Count(m)' = Count(m)
      BY <2>3 DEF Count
    <3>4. QED
      BY <1>1, <1>2, <2>1, <2>2, <2>3, <2>4, <3>1, <3>2, <3>3 DEF CallOK
  <2>10. \A q \in Request : CallOK(q)'
    <3>1. \A q \in Request : req[q].pc # "run"
      BY <1>1, MigrationsAssumption, Writers DEF Free
    <3>2. ASSUME NEW q \in Request \ {r} PROVE CallOK(q)'
      BY <2>2, <2>3, <3>1 DEF MigrationInv, CallOK, Count
    <3>3. QED
      BY <2>9, <3>2
  <2>11. \A c \in mounts : MountOK(c)'
    BY <2>3 DEF MigrationInv, MountOK, AppliedIs, TablesAre, Count
  <2>12. NoTablesLeft'
    <3>1. ASSUME NEW q \in Request, req[q].pc \in {"list", "drop"} PROVE req'[q] = req[q]
      BY <1>1, <2>2, <3>1
    <3>2. QED
      BY <2>3, <3>1 DEF MigrationInv, NoTablesLeft
  <2>13. HistoryOK'
    BY <1>1, HistorySame
  <2>14. QED
    BY <2>3, <2>5, <2>8, <2>10, <2>11, <2>12, <2>13 DEF MigrationInv
<1>5. QED
  BY <1>0, <1>3, <1>4 DEF InsertVersion

\* The writer's statement or its rollback
LEMMA WriterIs ==
    ASSUME MigrationInv, NEW r \in Request, req[r].pc = "run"
    PROVE  \E m \in Mount, k \in Nat, j \in Nat :
              /\ m = req[r].mount /\ k = req[r].script /\ j + 1 = req[r].next
              /\ m \in mounts /\ m \in used
              /\ k < Count(m) /\ k < Len(Scripts[m]) /\ j <= Len(Scripts[m][k + 1])
              /\ Len(Scripts[m][k + 1]) \in Nat
              /\ Script(r) = Scripts[m][k + 1]
              /\ tx.by = r /\ r # None
              /\ AppliedIs(versions, m, k)
              /\ tx.versions = versions \cup {<<m, k>>}
              /\ TablesAre(tx.tables, m, PlacesTo(m, k, j))
              /\ \A t \in Mount \X Table : t[1] # m => (t \in tx.tables <=> t \in tables)
<1> DEFINE m == req[r].mount
           k == req[r].script
           j == req[r].next - 1
<1>1. TypeOK /\ req[r] \in Call /\ tx.by = r /\ r # None
  BY Writers, MigrationsAssumption DEF MigrationInv, TypeOK
<1>2. /\ k \in Nat
      /\ m \in Mount /\ m \in used
      /\ k < Count(m)
      /\ req[r].next \in 1 .. Len(Scripts[m][k + 1]) + 1
  BY <1>1, Writers DEF Call, MigrationInv, CallOK
<1>3. k < Len(Scripts[m]) /\ Len(Scripts[m][k + 1]) \in Nat
  <2>1. /\ Len(Scripts[m]) \in Nat /\ Count(m) \in Nat /\ Count(m) <= Len(Scripts[m])
        /\ \A i \in 1 .. Len(Scripts[m]) : Len(Scripts[m][i]) \in Nat
    BY <1>1, <1>2, CountBounds
  <2> HIDE DEF m, k
  <2>2. k < Len(Scripts[m]) /\ k + 1 \in 1 .. Len(Scripts[m])
    BY <1>2, <2>1
  <2>3. QED
    BY <2>1, <2>2
<1>4. j \in Nat /\ j + 1 = req[r].next /\ j <= Len(Scripts[m][k + 1])
  <2>1. ASSUME NEW L \in Nat, NEW n \in 1 .. L + 1 PROVE n - 1 \in Nat /\ n - 1 + 1 = n /\ n - 1 <= L
    OBVIOUS
  <2> HIDE DEF m, k
  <2>2. QED
    BY <1>2, <1>3, <2>1
<1>5. /\ m \in mounts
      /\ AppliedIs(versions, m, k)
      /\ tx.versions = versions \cup {<<m, k>>}
      /\ TablesAre(tx.tables, m, PlacesTo(m, k, j))
      /\ \A t \in Mount \X Table : t[1] # m => (t \in tx.tables <=> t \in tables)
  BY <1>1 DEF MigrationInv, TxOK
<1>6. Script(r) = Scripts[m][k + 1]
  BY DEF Script
<1> HIDE DEF m, k, j
<1>7. m = req[r].mount /\ k = req[r].script
  BY DEF m, k
<1>8. QED
  BY <1>1, <1>2, <1>3, <1>4, <1>5, <1>6, <1>7

\* A call ends and drops its transaction, if it has one.
LEMMA RollbackStep ==
    ASSUME MigrationInv, NEW r \in Request, req[r].pc = "run", Rollback(r), Done(r),
           UNCHANGED <<mounts, release, used, whole>>, faults' \in Nat, cut' = cut
    PROVE  MigrationInv'
<1>0. TypeOK
  BY DEF MigrationInv
<1>1. /\ req' \in [Request -> Call]
      /\ req'[r] = Idle
      /\ \A q \in Request \ {r} : req'[q] = req[q]
  BY <1>0, IdleType, SetReqIs DEF Done
<1>2. tx' = NoTx /\ UNCHANGED <<mounts, versions, tables, release, used, whole, cut>>
  BY Writers DEF Rollback
<1>3. tx' \in [by : Request \cup {None}, versions : SUBSET (Mount \X Nat), tables : SUBSET (Mount \X Table)]
      /\ tx'.by = None
  BY <1>2 DEF NoTx
<1>4. TypeOK'
  BY <1>0, <1>1, <1>2, <1>3 DEF TypeOK
<1>5. \A q \in Request : CallOK(q)'
  <2>1. CallOK(r)'
    BY <1>1, IdleType DEF CallOK
  <2>2. ASSUME NEW q \in Request \ {r} PROVE CallOK(q)'
    <3>1. req[q].pc # "run"
      BY Writers
    <3>2. QED
      BY <1>1, <1>2, <3>1 DEF MigrationInv, CallOK, Count
  <2>3. QED
    BY <2>1, <2>2
<1>6. \A m \in mounts : MountOK(m)'
  BY <1>2 DEF MigrationInv, MountOK, AppliedIs, TablesAre, Count
<1>7. TxOK'
  BY <1>3 DEF TxOK
<1>8. HistoryOK'
  BY <1>2 DEF MigrationInv, HistoryOK, Count
<1>9. NoTablesLeft'
  BY <1>1, <1>2 DEF MigrationInv, NoTablesLeft
<1>10. QED
  BY <1>2, <1>4, <1>5, <1>6, <1>7, <1>8, <1>9 DEF MigrationInv

\* A statement of a script runs, and with the last one the version is
\* recorded.
LEMMA RunStatementStep ==
    ASSUME MigrationInv, NEW r \in Request, RunStatement(r)
    PROVE  MigrationInv'
<1>0. TypeOK /\ req[r].pc = "run" /\ req[r] \in Call
  BY DEF MigrationInv, TypeOK, RunStatement
<1>1. PICK m \in Mount, k \in Nat, j \in Nat :
              /\ m = req[r].mount /\ k = req[r].script /\ j + 1 = req[r].next
              /\ m \in mounts /\ m \in used
              /\ k < Count(m) /\ k < Len(Scripts[m]) /\ j <= Len(Scripts[m][k + 1])
              /\ Len(Scripts[m][k + 1]) \in Nat
              /\ Script(r) = Scripts[m][k + 1]
              /\ tx.by = r /\ r # None
              /\ AppliedIs(versions, m, k)
              /\ tx.versions = versions \cup {<<m, k>>}
              /\ TablesAre(tx.tables, m, PlacesTo(m, k, j))
              /\ \A t \in Mount \X Table : t[1] # m => (t \in tx.tables <=> t \in tables)
  BY <1>0, WriterIs
<1> DEFINE stmt == Scripts[m][k + 1][j + 1]
           h == [req[r] EXCEPT !.next = @ + 1]
<1>2. j + 1 <= Len(Scripts[m][k + 1]) /\ UNCHANGED <<mounts, release, history, faults>>
  BY <1>1 DEF RunStatement
<1>3. CASE Rollback(r) /\ Done(r)
  BY <1>0, <1>2, <1>3, RollbackStep DEF history, TypeOK
<1>4. CASE /\ tx' = [tx EXCEPT !.tables = After(m, stmt, @)]
           /\ SetReq(r, h)
           /\ UNCHANGED <<versions, tables>>
  <2>1. h \in Call /\ h.pc = "run" /\ h.mount = m /\ h.script = k /\ h.next = j + 2 /\ h.latest = req[r].latest
    <3>1. /\ req[r].next + 1 = j + 2 /\ j + 2 \in Nat
      BY <1>1
    <3>2. QED
      BY <1>0, <1>1, <3>1 DEF Call
  <2> HIDE DEF h
  <2>2. /\ req' \in [Request -> Call]
        /\ req'[r] = h
        /\ \A q \in Request \ {r} : req'[q] = req[q]
    BY <1>0, <1>4, <2>1, SetReqIs
  <2>3. UNCHANGED <<mounts, versions, tables, release, used, whole, cut, faults>>
    BY <1>2, <1>4 DEF history
  <2>4. stmt.table \in Table
    BY <1>1, <1>2, PlaceType
  <2>5. After(m, stmt, tx.tables) \subseteq Mount \X Table
    BY <1>0, <2>4 DEF After, TypeOK
  <2>6. /\ tx' \in [by : Request \cup {None}, versions : SUBSET (Mount \X Nat), tables : SUBSET (Mount \X Table)]
        /\ tx'.by = r /\ tx'.versions = versions \cup {<<m, k>>} /\ tx'.tables = After(m, stmt, tx.tables)
    BY <1>0, <1>1, <1>4, <2>5 DEF TypeOK
  <2>7. TypeOK'
    BY <1>0, <2>2, <2>3, <2>6 DEF TypeOK
  <2>8. TxOK'
    <3>1. /\ TablesAre(tx'.tables, m, PlacesTo(m, k, j + 1))
          /\ \A t \in Mount \X Table : t[1] # m => (t \in tx'.tables <=> t \in tx.tables)
      <4> DEFINE ts == tx.tables
      <4>1. m \in Mount /\ k \in Nat /\ j \in Nat /\ TablesAre(ts, m, PlacesTo(m, k, j))
        BY <1>1
      <4>2. tx'.tables = After(m, stmt, ts)
        BY <2>6
      <4> HIDE DEF ts
      <4>3. /\ TablesAre(After(m, stmt, ts), m, PlacesTo(m, k, j + 1))
            /\ \A t \in Mount \X Table : t[1] # m => (t \in After(m, stmt, ts) <=> t \in ts)
        BY <4>1, AfterIs
      <4>4. QED
        BY <4>2, <4>3 DEF ts
    <3>2. req'[r].pc = "run" /\ req'[r].mount = m /\ req'[r].script = k /\ req'[r].next - 1 = j + 1
      BY <2>1, <2>2
    <3>3. AppliedIs(versions', m, k)
      BY <1>1, <2>3
    <3>4. QED
      BY <1>1, <2>3, <2>6, <3>1, <3>2, <3>3 DEF TxOK
  <2>9. \A q \in Request : CallOK(q)'
    <3>1. CallOK(r)'
      <4>1. j + 2 \in 1 .. Len(Scripts[m][k + 1]) + 1
        <5>1. ASSUME NEW L \in Nat, j + 1 <= L PROVE j + 2 \in 1 .. L + 1
          BY <5>1
        <5>2. QED
          BY <1>1, <1>2, <5>1
      <4>2. QED
        BY <1>0, <1>1, <2>1, <2>2, <2>3, <2>6, <4>1 DEF MigrationInv, CallOK, Count
    <3>2. ASSUME NEW q \in Request \ {r} PROVE CallOK(q)'
      <4>1. req[q].pc # "run"
        BY <1>1, Writers
      <4>2. QED
        BY <2>2, <2>3, <4>1 DEF MigrationInv, CallOK, Count
    <3>3. QED
      BY <3>1, <3>2
  <2>10. \A c \in mounts : MountOK(c)'
    BY <2>3 DEF MigrationInv, MountOK, AppliedIs, TablesAre, Count
  <2>11. HistoryOK'
    BY <2>3 DEF MigrationInv, HistoryOK, Count
  <2>12. NoTablesLeft'
    BY <1>0, <2>2, <2>3 DEF MigrationInv, NoTablesLeft
  <2>13. QED
    BY <2>3, <2>7, <2>8, <2>9, <2>10, <2>11, <2>12 DEF MigrationInv
<1>5. QED
  BY <1>1, <1>3, <1>4 DEF RunStatement

\* The version and the tables of a script appear together.
LEMMA CommitStep ==
    ASSUME MigrationInv, NEW r \in Request, Commit(r)
    PROVE  MigrationInv'
<1>0. TypeOK /\ req[r].pc = "run" /\ req[r] \in Call
  BY DEF MigrationInv, TypeOK, Commit
<1>1. PICK m \in Mount, k \in Nat, j \in Nat :
              /\ m = req[r].mount /\ k = req[r].script /\ j + 1 = req[r].next
              /\ m \in mounts /\ m \in used
              /\ k < Count(m) /\ k < Len(Scripts[m]) /\ j <= Len(Scripts[m][k + 1])
              /\ Len(Scripts[m][k + 1]) \in Nat
              /\ Script(r) = Scripts[m][k + 1]
              /\ tx.by = r /\ r # None
              /\ AppliedIs(versions, m, k)
              /\ tx.versions = versions \cup {<<m, k>>}
              /\ TablesAre(tx.tables, m, PlacesTo(m, k, j))
              /\ \A t \in Mount \X Table : t[1] # m => (t \in tx.tables <=> t \in tables)
  BY <1>0, WriterIs
<1> DEFINE h == [req[r] EXCEPT !.pc = "next", !.script = @ + 1]
<1>2. j = Len(Scripts[m][k + 1])
  <2>1. ASSUME NEW L \in Nat, j + 1 > L, j <= L PROVE j = L
    BY <2>1
  <2>2. QED
    BY <1>1, <2>1 DEF Commit
<1>3. h \in Call /\ h.pc = "next" /\ h.mount = m /\ h.script = k + 1 /\ h.latest = req[r].latest
  <2>1. req[r].script + 1 = k + 1 /\ k + 1 \in Nat
    BY <1>1
  <2>2. QED
    BY <1>0, <1>1, <2>1 DEF Call
<1>4. SetReq(r, h)
  BY DEF Commit
<1> HIDE DEF h
<1>5. /\ req' \in [Request -> Call]
      /\ req'[r] = h
      /\ \A q \in Request \ {r} : req'[q] = req[q]
  BY <1>0, <1>3, <1>4, SetReqIs
<1>6. /\ UNCHANGED <<mounts, release, used, whole, cut, faults>>
      /\ tx' = NoTx
      /\ versions' = versions \cup {<<m, k>>}
      /\ tables' = tx.tables
  BY <1>1 DEF Commit, history
<1>7. tx' \in [by : Request \cup {None}, versions : SUBSET (Mount \X Nat), tables : SUBSET (Mount \X Table)]
      /\ tx'.by = None
  BY <1>6 DEF NoTx
<1>8. TypeOK'
  BY <1>0, <1>5, <1>6, <1>7 DEF TypeOK
<1>9. \A c \in Mount : Count(c)' = Count(c)
  BY <1>6 DEF Count
<1>10. AppliedIs(versions', m, k + 1)
  BY <1>1, <1>6 DEF AppliedIs
<1>11. \A c \in mounts : MountOK(c)'
  <2>1. MountOK(m)'
    <3>1. TablesAre(tables', m, Places(m, k + 1))
      BY <1>1, <1>2, <1>6, PlacesEnds
    <3>2. k + 1 \in 0 .. Count(m)
      BY <1>0, <1>1, CountBounds
    <3>3. QED
      BY <1>9, <1>10, <3>1, <3>2 DEF MountOK
  <2>2. ASSUME NEW c \in mounts, c # m PROVE MountOK(c)'
    <3>1. c \in Mount
      BY <1>0 DEF TypeOK
    <3>2. PICK n \in 0 .. Count(c) : AppliedIs(versions, c, n) /\ TablesAre(tables, c, Places(c, n))
      BY <2>2 DEF MigrationInv, MountOK
    <3>3. AppliedIs(versions', c, n)
      BY <1>6, <2>2, <3>2 DEF AppliedIs
    <3>4. TablesAre(tables', c, Places(c, n))
      BY <1>1, <1>6, <2>2, <3>1, <3>2 DEF TablesAre
    <3>5. QED
      BY <1>9, <3>1, <3>2, <3>3, <3>4 DEF MountOK
  <2>3. QED
    BY <2>1, <2>2
<1>12. \A q \in Request : CallOK(q)'
  <2>1. CallOK(r)'
    <3>1. k + 1 <= Count(m)
      BY <1>0, <1>1, CountBounds
    <3>2. \A v \in Nat : v < k + 1 => <<m, v>> \in versions'
      BY <1>10 DEF AppliedIs
    <3>3. \A v \in Nat : v <= h.latest => <<m, v>> \in versions'
      BY <1>0, <1>1, <1>3, <1>6 DEF MigrationInv, CallOK
    <3>4. QED
      BY <1>1, <1>3, <1>5, <1>6, <1>9, <3>1, <3>2, <3>3 DEF CallOK
  <2>2. ASSUME NEW q \in Request \ {r} PROVE CallOK(q)'
    <3>1. req[q].pc # "run"
      BY <1>1, Writers
    <3>2. QED
      BY <1>5, <1>6, <3>1 DEF MigrationInv, CallOK, Count
  <2>3. QED
    BY <2>1, <2>2
<1>13. TxOK'
  BY <1>7 DEF TxOK
<1>14. HistoryOK'
  <2>1. \A v \in versions' : v[1] \in mounts'
    BY <1>1, <1>6 DEF MigrationInv, HistoryOK
  <2>2. ASSUME NEW c \in mounts, whole[c] = release, NEW v \in Nat, v < Count(c)
        PROVE  <<c, v>> \in versions'
    BY <1>6, <2>2 DEF MigrationInv, HistoryOK
  <2>3. \A c \in mounts : c \in Mount
    BY <1>0 DEF TypeOK
  <2>4. QED
    BY <1>6, <1>9, <2>1, <2>2, <2>3 DEF MigrationInv, HistoryOK
<1>15. NoTablesLeft'
  <2> SUFFICES ASSUME NEW t \in tx.tables, t[1] \notin mounts \cup cut
               PROVE  \E q \in Request : /\ req'[q].mount = t[1]
                                        /\ \/ req'[q].pc = "list"
                                           \/ req'[q].pc = "drop" /\ t \in req'[q].todo
    BY <1>6 DEF NoTablesLeft
  <2>1. t \in tables
    BY <1>0, <1>1 DEF TypeOK
  <2>2. PICK q \in Request : /\ req[q].mount = t[1]
                            /\ \/ req[q].pc = "list"
                               \/ req[q].pc = "drop" /\ t \in req[q].todo
    BY <2>1 DEF MigrationInv, NoTablesLeft
  <2>3. QED
    BY <1>0, <1>5, <2>2
<1>16. QED
  BY <1>6, <1>8, <1>11, <1>12, <1>13, <1>14, <1>15 DEF MigrationInv

\* The last script is done and the mount is migrated.
LEMMA FinishMigrateStep ==
    ASSUME MigrationInv, NEW r \in Request, FinishMigrate(r)
    PROVE  MigrationInv'
<1>0. PICK m \in Mount : m = req[r].mount
  BY Writers DEF FinishMigrate
<1>1. /\ TypeOK /\ req[r].pc = "next" /\ req[r].script = Count(m)
      /\ SetReq(r, Idle)
      /\ whole' = [whole EXCEPT ![m] = release]
      /\ UNCHANGED <<mounts, versions, tables, tx, release, used, cut, faults>>
  BY <1>0 DEF MigrationInv, FinishMigrate, Done, committed
<1>2. whole' \in [Mount -> Nat] /\ m \in used /\ release \in Nat
  BY <1>0, <1>1, Writers, MigrationsAssumption DEF TypeOK
<1>3. HistoryOK'
  <2>1. m \in mounts => \A v \in Nat : v < Count(m) => <<m, v>> \in versions
    BY <1>0, <1>1 DEF MigrationInv, CallOK
  <2>2. \A c \in Mount : whole'[c] = IF c = m THEN release ELSE whole[c]
    BY <1>1 DEF TypeOK
  <2>3. \A c \in Mount : Count(c)' = Count(c)
    BY <1>1 DEF Count
  <2>4. QED
    BY <1>1, <1>2, <2>1, <2>2, <2>3 DEF MigrationInv, HistoryOK, TypeOK
<1>4. CallOK(r)'
  <2>1. req'[r] = Idle
    BY <1>1, IdleType, SetReqIs
  <2>2. QED
    BY <2>1, IdleType DEF CallOK
<1>5. faults' \in Nat /\ cut' \subseteq Mount
  BY <1>1 DEF TypeOK
<1>6. QED
  BY <1>1, <1>2, <1>3, <1>4, <1>5, IdleType, QuietStep DEF committed

-----------------------------------------------------------------------------
(***************************************************************************)
(* Mounts come and go                                                      *)
(***************************************************************************)

\* A mount is created, with an id never used before.
LEMMA CreateMountStep ==
    ASSUME MigrationInv, NEW m \in Mount, CreateMount(m)
    PROVE  MigrationInv'
<1>1. /\ TypeOK /\ m \notin used /\ Free
      /\ mounts' = mounts \cup {m} /\ used' = used \cup {m}
      /\ UNCHANGED <<versions, tables, tx, req, release, whole, cut, faults>>
  BY DEF MigrationInv, CreateMount
<1>2. TypeOK'
  BY <1>1 DEF TypeOK
<1>3. \A c \in Mount : Count(c)' = Count(c)
  BY <1>1 DEF Count
<1>4. \A v \in Nat : <<m, v>> \notin versions
  BY <1>1 DEF MigrationInv, HistoryOK
<1>5. \A c \in mounts' : MountOK(c)'
  <2>1. MountOK(m)'
    <3>1. AppliedIs(versions', m, 0)
      BY <1>1, <1>4 DEF AppliedIs
    <3>2. TablesAre(tables', m, Places(m, 0))
      <4>1. \A t \in Table : <<m, t>> \notin tables
        BY <1>1, Writers DEF MigrationInv, NoTablesLeft, HistoryOK
      <4>2. Places(m, 0) = {}
        BY DEF Places
      <4>3. SchemaOf(m, {}) = {}
        BY DEF SchemaOf
      <4>4. QED
        BY <1>1, <4>1, <4>2, <4>3 DEF TablesAre
    <3>3. 0 \in 0 .. Count(m)
      BY <1>1, CountBounds
    <3>4. QED
      BY <1>3, <3>1, <3>2, <3>3 DEF MountOK
  <2>2. ASSUME NEW c \in mounts PROVE MountOK(c)'
    BY <1>1, <1>3 DEF MigrationInv, MountOK, AppliedIs, TablesAre, TypeOK
  <2>3. QED
    BY <1>1, <2>1, <2>2
<1>6. \A r \in Request : CallOK(r)'
  <2> SUFFICES ASSUME NEW r \in Request PROVE CallOK(r)'
    OBVIOUS
  <2>1. req[r].pc # "idle" => req[r].mount \in used /\ req[r].mount # m
    BY <1>1, Writers
  <2>2. QED
    BY <1>1, <2>1 DEF MigrationInv, CallOK, Count
<1>7. TxOK'
  BY <1>1 DEF TxOK, Free
<1>8. HistoryOK'
  <2>1. \A v \in Nat : whole[m] = release => ~ (v < Count(m))
    <3>1. whole[m] = 0 /\ Count(m) \in Nat /\ Count(m) <= release
      BY <1>1, CountBounds DEF MigrationInv, HistoryOK
    <3>2. QED
      BY <3>1
  <2>2. QED
    BY <1>1, <1>3, <2>1 DEF MigrationInv, HistoryOK, TypeOK
<1>9. NoTablesLeft'
  BY <1>1 DEF MigrationInv, NoTablesLeft
<1>10. QED
  BY <1>2, <1>5, <1>6, <1>7, <1>8, <1>9 DEF MigrationInv

\* A mount is disabled and its rows go first.
LEMMA BeginDisableStep ==
    ASSUME MigrationInv, NEW r \in Request, NEW m \in Mount, BeginDisable(r, m)
    PROVE  MigrationInv'
<1> DEFINE h == [Idle EXCEPT !.pc = "list", !.mount = m]
<1>1. /\ TypeOK /\ m \in mounts /\ Free /\ req[r].pc = "idle"
      /\ mounts' = mounts \ {m}
      /\ versions' = {v \in versions : v[1] # m}
      /\ SetReq(r, h)
      /\ UNCHANGED <<tables, tx, release, used, whole, cut, faults>>
  BY DEF MigrationInv, BeginDisable, history
<1>2. h \in Call /\ h.pc = "list" /\ h.mount = m
  BY DEF Idle, Call
<1> HIDE DEF h
<1>3. /\ req' \in [Request -> Call]
      /\ req'[r] = h
      /\ \A q \in Request \ {r} : req'[q] = req[q]
  BY <1>1, <1>2, SetReqIs
<1>4. TypeOK'
  BY <1>1, <1>3 DEF TypeOK
<1>5. \A c \in Mount : Count(c)' = Count(c)
  BY <1>1 DEF Count
<1>6. \A c, v : c # m => (<<c, v>> \in versions' <=> <<c, v>> \in versions)
  BY <1>1
<1>7. \A c \in mounts' : MountOK(c)'
  <2> SUFFICES ASSUME NEW c \in mounts, c # m PROVE MountOK(c)'
    BY <1>1
  <2>1. QED
    BY <1>1, <1>5, <1>6 DEF MigrationInv, MountOK, AppliedIs, TablesAre, TypeOK
<1>8. \A q \in Request : CallOK(q)'
  <2>1. CallOK(r)'
    BY <1>1, <1>2, <1>3 DEF CallOK, MigrationInv, HistoryOK
  <2>2. ASSUME NEW q \in Request \ {r} PROVE CallOK(q)'
    <3>1. req[q].pc # "run"
      BY <1>1, Writers, MigrationsAssumption DEF Free
    <3>2. QED
      BY <1>1, <1>3, <1>6, <3>1 DEF MigrationInv, CallOK, Count
  <2>3. QED
    BY <2>1, <2>2
<1>9. TxOK'
  BY <1>1 DEF TxOK, Free
<1>10. HistoryOK'
  BY <1>1, <1>5, <1>6 DEF MigrationInv, HistoryOK, TypeOK
<1>11. NoTablesLeft'
  <2> SUFFICES ASSUME NEW t \in tables, t[1] \notin mounts' \cup cut
               PROVE  \E q \in Request : /\ req'[q].mount = t[1]
                                        /\ \/ req'[q].pc = "list"
                                           \/ req'[q].pc = "drop" /\ t \in req'[q].todo
    BY <1>1 DEF NoTablesLeft
  <2>1. CASE t[1] = m
    BY <1>2, <1>3, <2>1
  <2>2. CASE t[1] # m
    <3>1. PICK q \in Request : /\ req[q].mount = t[1]
                              /\ \/ req[q].pc = "list"
                                 \/ req[q].pc = "drop" /\ t \in req[q].todo
      BY <1>1, <2>2 DEF MigrationInv, NoTablesLeft
    <3>2. QED
      BY <1>1, <1>3, <3>1
  <2>3. QED
    BY <2>1, <2>2
<1>12. QED
  BY <1>4, <1>7, <1>8, <1>9, <1>10, <1>11 DEF MigrationInv

\* The tables with the mount's prefix are listed.
LEMMA ListTablesStep ==
    ASSUME MigrationInv, NEW r \in Request, ListTables(r)
    PROVE  MigrationInv'
<1>0. PICK m \in Mount : m = req[r].mount /\ m \in used
  BY Writers DEF ListTables
<1> DEFINE h == [req[r] EXCEPT !.pc = "drop", !.todo = Owned(tables, m)]
<1>1. /\ TypeOK /\ req[r] \in Call /\ req[r].pc = "list" /\ SetReq(r, h)
      /\ UNCHANGED <<committed, tx, release, history, faults>>
      /\ UNCHANGED <<mounts, versions, tables, used>>
  BY <1>0 DEF MigrationInv, TypeOK, ListTables, committed, history
<1>2. Owned(tables, m) \subseteq {m} \X Table
  BY <1>1 DEF Owned, TypeOK
<1>3. h \in Call /\ h.pc = "drop" /\ h.mount = m /\ h.todo = Owned(tables, m)
  BY <1>0, <1>1, <1>2 DEF Call
<1> HIDE DEF h
<1>4. req'[r] = h
  BY <1>1, <1>3, SetReqIs
<1>5. CallOK(r)'
  BY <1>0, <1>1, <1>2, <1>3, <1>4 DEF MigrationInv, CallOK
<1>6. faults' \in Nat
  BY <1>1 DEF TypeOK
<1>7. \A t \in tables : t[1] = m => t \in h.todo
  BY <1>3 DEF Owned
<1>8. QED
  BY <1>0, <1>1, <1>3, <1>5, <1>6, <1>7, QuietStep, HistorySame

\* One of the listed tables is dropped.
LEMMA DropTableStep ==
    ASSUME MigrationInv, NEW r \in Request, DropTable(r)
    PROVE  MigrationInv'
<1>0. PICK m \in Mount : m = req[r].mount /\ m \in used
  BY Writers DEF DropTable
<1>1. /\ TypeOK /\ req[r] \in Call /\ req[r].pc = "drop" /\ m \notin mounts
      /\ req[r].todo \subseteq {m} \X Table
      /\ UNCHANGED <<mounts, versions, tx, release, used, whole, cut, faults>>
  BY <1>0 DEF MigrationInv, TypeOK, CallOK, DropTable, history
<1>2. CASE req[r].todo = {} /\ Done(r) /\ UNCHANGED tables
  BY <1>1, <1>2, QuietEnd DEF committed, history, TypeOK
<1>3. ASSUME NEW t \in req[r].todo, Free, tables' = tables \ {t}, SetReq(r, [req[r] EXCEPT !.todo = @ \ {t}])
      PROVE  MigrationInv'
  <2> DEFINE h == [req[r] EXCEPT !.todo = @ \ {t}]
  <2>1. h \in Call /\ h.pc = "drop" /\ h.mount = m /\ h.todo = req[r].todo \ {t}
    BY <1>0, <1>1 DEF Call
  <2>2. SetReq(r, h)
    BY <1>3
  <2> HIDE DEF h
  <2>3. /\ req' \in [Request -> Call]
        /\ req'[r] = h
        /\ \A q \in Request \ {r} : req'[q] = req[q]
    BY <1>1, <2>1, <2>2, SetReqIs
  <2>4. TypeOK'
    BY <1>1, <1>3, <2>3 DEF TypeOK
  <2>5. t[1] = m
    BY <1>1, <1>3
  <2>6. \A c \in Mount : Count(c)' = Count(c)
    BY <1>1 DEF Count
  <2>7. \A c \in mounts : MountOK(c)'
    <3> SUFFICES ASSUME NEW c \in mounts PROVE MountOK(c)'
      OBVIOUS
    <3>1. c \in Mount /\ c # m
      BY <1>1 DEF TypeOK
    <3>2. \A u : <<c, u>> \in tables' <=> <<c, u>> \in tables
      BY <1>3, <2>5, <3>1
    <3>3. QED
      BY <1>1, <2>6, <3>1, <3>2 DEF MigrationInv, MountOK, AppliedIs, TablesAre
  <2>8. \A q \in Request : CallOK(q)'
    <3>1. CallOK(r)'
      BY <1>0, <1>1, <2>1, <2>3 DEF CallOK
    <3>2. ASSUME NEW q \in Request \ {r} PROVE CallOK(q)'
      BY <1>1, <2>3 DEF MigrationInv, CallOK, Count
    <3>3. QED
      BY <3>1, <3>2
  <2>9. TxOK'
    BY <1>1, <1>3 DEF TxOK, Free
  <2>10. HistoryOK'
    BY <1>1, <2>6 DEF MigrationInv, HistoryOK, TypeOK
  <2>11. NoTablesLeft'
    <3> SUFFICES ASSUME NEW u \in tables, u # t, u[1] \notin mounts \cup cut
                 PROVE  \E q \in Request : /\ req'[q].mount = u[1]
                                          /\ \/ req'[q].pc = "list"
                                             \/ req'[q].pc = "drop" /\ u \in req'[q].todo
      BY <1>1, <1>3 DEF NoTablesLeft
    <3>1. PICK q \in Request : /\ req[q].mount = u[1]
                              /\ \/ req[q].pc = "list"
                                 \/ req[q].pc = "drop" /\ u \in req[q].todo
      BY DEF MigrationInv, NoTablesLeft
    <3>2. CASE q = r
      BY <1>0, <1>1, <2>1, <2>3, <3>1, <3>2
    <3>3. CASE q # r
      BY <2>3, <3>1, <3>3
    <3>4. QED
      BY <3>2, <3>3
  <2>12. QED
    BY <1>1, <2>4, <2>7, <2>8, <2>9, <2>10, <2>11 DEF MigrationInv
<1>4. QED
  BY <1>2, <1>3 DEF DropTable

\* A query fails and the call with it; what it has done stays.
LEMMA FailStep ==
    ASSUME MigrationInv, NEW r \in Request, Fail(r)
    PROVE  MigrationInv'
<1>1. /\ TypeOK /\ req[r].pc # "idle" /\ Rollback(r) /\ Done(r)
      /\ cut' = IF Disabling(r) THEN cut \cup {req[r].mount} ELSE cut
      /\ UNCHANGED <<mounts, release, used, whole>>
      /\ faults' \in Nat
  BY DEF MigrationInv, TypeOK, Fail
<1>2. req[r].mount \in used /\ req[r].mount \in Mount
  BY <1>1, Writers
<1>3. CASE req[r].pc = "run"
  BY <1>1, <1>3, RollbackStep DEF Disabling
<1>4. CASE req[r].pc # "run"
  <2>1. UNCHANGED <<committed, tx>>
    BY <1>1, <1>4, Writers DEF Rollback, committed
  <2>2. cut \subseteq cut' /\ cut' \subseteq Mount /\ cut' \subseteq used /\ whole' \in [Mount -> Nat]
    BY <1>1, <1>2 DEF MigrationInv, HistoryOK, TypeOK
  <2>3. HistoryOK'
    BY <1>1, <2>1, <2>2 DEF MigrationInv, HistoryOK, Count, committed
  <2>4. SetReq(r, Idle) /\ req'[r] = Idle
    BY <1>1, IdleType, SetReqIs DEF Done
  <2>5. CallOK(r)'
    BY <2>4, IdleType DEF CallOK
  <2>6. req[r].pc \in {"list", "drop"} => req[r].mount \in cut'
    BY <1>1 DEF Disabling
  <2>7. QED
    BY <1>1, <1>4, <2>1, <2>2, <2>3, <2>4, <2>5, <2>6, IdleType, QuietStep
<1>5. QED
  BY <1>3, <1>4

\* The server restarts, perhaps with a release that ships more scripts.
LEMMA RestartStep ==
    ASSUME MigrationInv, Restart
    PROVE  MigrationInv'
<1>1. /\ TypeOK
      /\ tx' = NoTx /\ req' = [r \in Request |-> Idle]
      /\ release' \in Releases /\ release' >= release
      /\ cut' = cut \cup {req[r].mount : r \in {q \in Request : Disabling(q)}}
      /\ UNCHANGED <<mounts, versions, tables, used, whole>>
      /\ faults' \in Nat
  BY DEF MigrationInv, TypeOK, Restart, committed
<1>2. tx' \in [by : Request \cup {None}, versions : SUBSET (Mount \X Nat), tables : SUBSET (Mount \X Table)]
      /\ tx'.by = None
  BY <1>1 DEF NoTx
<1>3. req' \in [Request -> Call] /\ \A r \in Request : req'[r].pc = "idle"
  BY <1>1, IdleType
<1>4. cut' \subseteq Mount /\ cut' \subseteq used
  BY <1>1, Writers DEF MigrationInv, HistoryOK, TypeOK, Disabling
<1>5. TypeOK'
  BY <1>1, <1>2, <1>3, <1>4 DEF TypeOK
<1>6. release \in Nat /\ release' \in Nat
  BY <1>1, MigrationsAssumption DEF TypeOK
<1>7. \A m \in Mount : Count(m)' \in Nat /\ Count(m) \in Nat /\ Count(m)' >= Count(m)
  BY <1>1, <1>6, MigrationsAssumption DEF Count
<1>8. \A m \in mounts : MountOK(m)'
  <2> SUFFICES ASSUME NEW m \in mounts PROVE MountOK(m)'
    OBVIOUS
  <2>1. PICK k \in 0 .. Count(m) : AppliedIs(versions, m, k) /\ TablesAre(tables, m, Places(m, k))
    BY DEF MigrationInv, MountOK
  <2>2. m \in Mount
    BY <1>1 DEF TypeOK
  <2>3. k \in 0 .. Count(m)'
    BY <1>7, <2>2
  <2>4. QED
    BY <1>1, <2>1, <2>3 DEF MountOK
<1>9. \A r \in Request : CallOK(r)'
  BY <1>3 DEF CallOK
<1>10. TxOK'
  BY <1>2 DEF TxOK
<1>11. HistoryOK'
  <2>1. \A m \in Mount : whole[m] \in Nat /\ whole[m] <= release
    BY <1>1 DEF MigrationInv, HistoryOK, TypeOK
  <2>2. \A m \in Mount : whole[m] <= release' /\ (whole[m] = release' => release' = release)
    BY <1>1, <1>6, <2>1
  <2>3. release' = release => \A m \in Mount : Count(m)' = Count(m)
    BY DEF Count
  <2>4. QED
    BY <1>1, <1>4, <2>2, <2>3 DEF MigrationInv, HistoryOK, TypeOK
<1>12. NoTablesLeft'
  BY <1>1 DEF MigrationInv, NoTablesLeft, Disabling
<1>13. QED
  BY <1>1, <1>5, <1>8, <1>9, <1>10, <1>11, <1>12 DEF MigrationInv

\* Every step keeps the invariant: one lemma per action above.
LEMMA NextInv == MigrationInv /\ [Next]_vars => MigrationInv'
<1> SUFFICES ASSUME MigrationInv, [Next]_vars PROVE MigrationInv'
  OBVIOUS
<1>1. ASSUME NEW r \in Request, RefuseScript(r) PROVE MigrationInv'
  BY <1>1, QuietEnd DEF RefuseScript, AtScript, MigrationInv, TypeOK
<1>2. CASE UNCHANGED vars
  BY <1>2 DEF vars, MigrationInv, TypeOK, MountOK, AppliedIs, TablesAre, CallOK, TxOK, HistoryOK,
              NoTablesLeft, Count
<1>3. QED
  BY <1>1, <1>2, CreateMountStep, BeginMigrateStep, BeginDisableStep, ReadLatestStep, SkipScriptStep,
     InsertVersionStep, RunStatementStep, CommitStep, FinishMigrateStep, ListTablesStep, DropTableStep,
     FailStep, RestartStep
     DEF Next

-----------------------------------------------------------------------------
(***************************************************************************)
(* Theorems                                                                *)
(***************************************************************************)

\* The invariant of the migrations, one conjunct per table and per call in
\* progress, holds in every reachable state.
THEOREM MigrationInvariant == Spec => []MigrationInv
BY InitInv, NextInv, PTL DEF Spec

\* The tables of a mount that is gone are still to be dropped by the disable
\* in progress, or that disable was cut short: remove_mount deletes the row
\* before it lists the tables, and the foreign key of the versions makes a
\* migration that runs meanwhile fail as a whole.
THEOREM NothingLeftBehind == Spec => []NoTablesLeft
<1>1. MigrationInv => NoTablesLeft
  BY DEF MigrationInv
<1>2. QED
  BY <1>1, MigrationInvariant, PTL

\* A mount whose scripts ran to some place has the tables that the scripts
\* create up to there.
LEMMA TablesOfMount ==
    ASSUME TypeOK, NEW m \in Mount, NEW k \in Nat, TablesAre(tables, m, Places(m, k)),
           k <= Len(Scripts[m])
    PROVE  Owned(tables, m) = {<<m, t>> : t \in Schema(m, k)}
<1>1. \A t \in SchemaOf(m, Places(m, k)) : t \in Table
  <2>1. Places(m, k) \subseteq AllPlaces(m)
    BY MigrationsAssumption DEF Places, AllPlaces
  <2>2. QED
    BY <2>1 DEF SchemaOf, Table
<1>2. \A t : t \in Owned(tables, m) => t = <<m, t[2]>> /\ t[2] \in Table /\ t \in tables
  BY DEF Owned, TypeOK
<1>3. \A t \in Table : <<m, t>> \in Owned(tables, m) <=> <<m, t>> \in tables
  BY DEF Owned
<1>4. QED
  BY <1>1, <1>2, <1>3 DEF TablesAre, Schema

\* The invariant implies that scripts are applied in whole.
LEMMA InvMigrated == MigrationInv => MigratedInWhole
<1> SUFFICES ASSUME MigrationInv, NEW m \in mounts
             PROVE  LET applied == VersionsOf(versions, m)
                    IN  /\ applied = 0 .. Cardinality(applied) - 1
                        /\ Owned(tables, m) = {<<m, t>> : t \in Schema(m, Cardinality(applied))}
  BY DEF MigratedInWhole
<1> DEFINE applied == VersionsOf(versions, m)
<1>1. TypeOK /\ m \in Mount
  BY DEF MigrationInv, TypeOK
<1>2. PICK k \in 0 .. Count(m) : AppliedIs(versions, m, k) /\ TablesAre(tables, m, Places(m, k))
  BY DEF MigrationInv, MountOK
<1>3. k \in Nat /\ k <= Len(Scripts[m])
  BY <1>1, CountBounds
<1>4. \A v : v \in applied <=> v \in Nat /\ <<m, v>> \in versions
  BY <1>1 DEF VersionsOf, TypeOK
<1> HIDE DEF applied
<1>5. applied = 0 .. k - 1
  <2>1. \A v : v \in applied <=> v \in 0 .. k - 1
    <3>1. \A v : v \in applied <=> v \in Nat /\ v < k
      BY <1>2, <1>4 DEF AppliedIs
    <3>2. \A v : v \in 0 .. k - 1 <=> v \in Nat /\ v < k
      BY <1>3
    <3>3. QED
      BY <3>1, <3>2
  <2>2. QED
    BY <2>1
<1>6. Cardinality(applied) = k
  BY <1>3, <1>5, FS_Interval
<1>7. QED
  BY <1>1, <1>2, <1>3, <1>5, <1>6, TablesOfMount DEF applied

\* However migrations of one mount race, fail or are cut off by a crash, the
\* recorded versions are the first ones without a gap and the tables are those
\* that these scripts make: migrate applies no script in part or twice.
THEOREM ScriptsInWhole == Spec => []MigratedInWhole
BY InvMigrated, MigrationInvariant, PTL

\* What the statements of each release name is made by its scripts.
StatementsFit ==
    \A m \in Mount, k \in Releases : \A stmt \in Statements[m][k] :
        TablesOf(m, stmt) \subseteq
            {<<m, t>> : t \in Schema(m, IF k < Len(Scripts[m]) THEN k ELSE Len(Scripts[m]))}

\* The invariant and StatementsFit imply that backends find their tables.
LEMMA InvFinds == MigrationInv /\ StatementsFit => BackendsFindTheirTables
<1> SUFFICES ASSUME MigrationInv, StatementsFit, NEW m \in mounts, whole[m] = release,
                    NEW stmt \in Statements[m][release]
             PROVE  TablesOf(m, stmt) \subseteq Owned(tables, m)
  BY DEF BackendsFindTheirTables
<1>1. TypeOK /\ m \in Mount /\ release \in Releases
  BY DEF MigrationInv, TypeOK
<1>2. PICK k \in 0 .. Count(m) : AppliedIs(versions, m, k) /\ TablesAre(tables, m, Places(m, k))
  BY DEF MigrationInv, MountOK
<1>3. k \in Nat /\ Count(m) \in Nat /\ k <= Count(m) /\ k <= Len(Scripts[m])
  BY <1>1, CountBounds
<1>4. k = Count(m)
  <2>1. k < Count(m) => <<m, k>> \in versions
    BY <1>3 DEF MigrationInv, HistoryOK
  <2>2. <<m, k>> \in versions <=> k < k
    BY <1>2, <1>3 DEF AppliedIs
  <2>3. QED
    BY <1>3, <2>1, <2>2
<1>5. Owned(tables, m) = {<<m, t>> : t \in Schema(m, Count(m))}
  BY <1>1, <1>2, <1>3, <1>4, TablesOfMount
<1>6. QED
  BY <1>1, <1>5 DEF StatementsFit, Count

\* Every table that a statement of a migrated backend is rewritten to name
\* exists, if its statements fit its scripts (StatementsFit): the names that
\* the visitor prefixes at run time are those it prefixed in the migrations.
THEOREM TablesFound == Spec /\ StatementsFit => []BackendsFindTheirTables
<1> SUFFICES ASSUME StatementsFit PROVE Spec => []BackendsFindTheirTables
  OBVIOUS
<1>1. MigrationInv => BackendsFindTheirTables
  BY InvFinds
<1>2. QED
  BY <1>1, MigrationInvariant, PTL

-----------------------------------------------------------------------------
(***************************************************************************)
(* The statements of the backends in the repository fit their scripts.     *)
(***************************************************************************)

\* Every edge of a path is followed.
Walks(path) == \A i \in 1 .. Len(path) - 1 : <<path[i], path[i + 1]>> \in Follows
Edge(a, b) == <<a, b>> \in Follows

\* Two walks of the syntax tree that meet make one.
LEMMA WalksOn ==
    ASSUME NEW S, NEW s \in Seq(S), NEW t \in Seq(S), s # <<>>, t # <<>>,
           Walks(s), Walks(t), Edge(s[Len(s)], t[1])
    PROVE  Walks(s \o t)
<1>1. /\ Len(s \o t) = Len(s) + Len(t)
      /\ \A i \in 1 .. Len(s) + Len(t) : (s \o t)[i] = IF i <= Len(s) THEN s[i] ELSE t[i - Len(s)]
  BY ConcatProperties
<1>2. Len(s) \in Nat \ {0} /\ Len(t) \in Nat \ {0}
  BY EmptySeq
<1>3. SUFFICES ASSUME NEW i \in 1 .. Len(s) + Len(t) - 1
               PROVE  <<(s \o t)[i], (s \o t)[i + 1]>> \in Follows
  BY <1>1 DEF Walks
<1>4. i \in 1 .. Len(s) + Len(t) /\ i + 1 \in 1 .. Len(s) + Len(t)
  BY <1>2
<1>5. CASE i < Len(s)
  BY <1>1, <1>2, <1>4, <1>5 DEF Walks
<1>6. CASE i = Len(s)
  BY <1>1, <1>2, <1>4, <1>6 DEF Edge
<1>7. CASE i > Len(s)
  <2>1. i - Len(s) \in 1 .. Len(t) - 1 /\ i + 1 - Len(s) = i - Len(s) + 1
    BY <1>2, <1>7
  <2>2. (s \o t)[i] = t[i - Len(s)] /\ (s \o t)[i + 1] = t[i - Len(s) + 1]
    BY <1>1, <1>2, <1>4, <1>7
  <2>3. QED
    BY <2>1, <2>2 DEF Walks
<1>8. QED
  <2>1. i < Len(s) \/ i = Len(s) \/ i > Len(s)
    BY <1>2
  <2>2. QED
    BY <1>5, <1>6, <1>7, <2>1

\* The nodes on the ways of the statements of the backends
Node == {"select_statement", "insert", "update", "delete", "query", "select", "binary", "subquery",
         "table_factor", "name"}

\* The walks from a query to the table factors below it.
LEMMA FromSelect ==
    /\ From(<<>>) = <<"table_factor", "name">>
    /\ From(<<"query", "select">>) \in Seq(Node) /\ From(<<"query", "select">>)[1] = "query"
    /\ Walks(From(<<"query", "select">>)) /\ From(<<"query", "select">>) # <<>>
    /\ Walks(From(<<"binary", "binary", "binary", "subquery", "query", "select">>))
    /\ From(<<"binary", "binary", "binary", "subquery", "query", "select">>) # <<>>
    /\ From(<<"binary", "binary", "binary", "subquery", "query", "select">>) \in Seq(Node)
    /\ From(<<"binary", "binary", "binary", "subquery", "query", "select">>)[1] = "binary"
<1> DEFINE end == <<"table_factor", "name">>
           short == <<"query", "select">>
           long == <<"binary", "binary", "binary", "subquery", "query", "select">>
<1>1. /\ end \in Seq(Node) /\ short \in Seq(Node) /\ long \in Seq(Node)
      /\ end # <<>> /\ short # <<>> /\ long # <<>>
      /\ Len(end) = 2 /\ Len(short) = 2 /\ Len(long) = 6
      /\ end[1] = "table_factor" /\ short[2] = "select" /\ long[6] = "select"
      /\ short[1] = "query" /\ long[1] = "binary"
  BY DEF Node
<1>2. /\ Edge("table_factor", "name") /\ Edge("query", "select") /\ Edge("select", "table_factor")
      /\ Edge("binary", "binary") /\ Edge("binary", "subquery") /\ Edge("subquery", "query")
  BY DEF Edge, Follows, QueryFollows, SetExprFollows, ExprFollows, FactorFollows, Exprs, SetExprs, Factors
<1>3. Walks(end) /\ Walks(short) /\ Walks(long)
  BY <1>2 DEF Walks, Edge
<1> HIDE DEF end, short, long
<1>4. <<>> \o end = end
  BY <1>1, ConcatEmptySeq
<1>5. Walks(short \o end) /\ Walks(long \o end)
  BY <1>1, <1>2, <1>3, WalksOn
<1>6. /\ short \o end \in Seq(Node) /\ (short \o end)[1] = "query"
      /\ long \o end \in Seq(Node) /\ (long \o end)[1] = "binary"
      /\ short \o end # <<>> /\ long \o end # <<>>
  BY <1>1, ConcatProperties, EmptySeq
<1>7. QED
  BY <1>4, <1>5, <1>6 DEF From, end, short, long

\* The visitor reaches a name at the end of a walk.
LEMMA WalkReaches ==
    ASSUME NEW kind \in Node, NEW table, NEW names, NEW n, n.through \in Seq(Node), n.through # <<>>,
           Walks(n.through), Edge(kind, n.through[1])
    PROVE  Reached(Statement(kind, table, names), n)
<1>1. <<kind>> \in Seq(Node) /\ Walks(<<kind>>) /\ <<kind>> # <<>> /\ <<kind>>[Len(<<kind>>)] = kind
  BY DEF Walks
<1>2. Walks(<<kind>> \o n.through)
  BY <1>1, WalksOn
<1>3. QED
  BY <1>2 DEF Reached, Walks, Statement

\* The visitor reaches every name in the statements of the shipped backends.
LEMMA ShippedReached ==
    ASSUME NEW stmt \in KvStatements \cup PsqlStatements \cup UserpassStatements, NEW n \in stmt.names
    PROVE  Reached(stmt, n) /\ n.table = stmt.table /\ ~ n.system
<1>1. /\ Edge("select_statement", "query") /\ Edge("insert", "name")
      /\ Edge("update", "table_factor") /\ Edge("delete", "table_factor") /\ Edge("delete", "binary")
      /\ Edge("table_factor", "name")
  BY DEF Edge, Follows, StatementFollows, FactorFollows, Exprs, Factors
<1>2. /\ <<"name">> \in Seq(Node) /\ <<"name">>[1] = "name" /\ <<"name">> # <<>>
      /\ <<"table_factor", "name">> \in Seq(Node) /\ <<"table_factor", "name">>[1] = "table_factor"
      /\ <<"table_factor", "name">> # <<>>
  BY DEF Node
<1>3. Walks(<<"name">>) /\ Walks(<<"table_factor", "name">>)
  BY <1>1 DEF Walks, Edge
<1> DEFINE Good(kind, table, through) ==
      \A names, k : k = Name(table, through) => Reached(Statement(kind, table, names), k)
<1>4. ASSUME NEW kind \in Node, NEW t, NEW through \in Seq(Node), through # <<>>, Walks(through),
             Edge(kind, through[1])
      PROVE  Good(kind, t, through)
  BY <1>4, WalkReaches DEF Name
<1>5. \A t : Good("insert", t, <<"name">>)
  BY <1>1, <1>2, <1>3, <1>4 DEF Node
<1>6. \A t : Good("update", t, From(<<>>)) /\ Good("delete", t, From(<<>>))
  BY <1>1, <1>2, <1>3, <1>4, FromSelect DEF Node
<1>7. \A t : Good("select_statement", t, From(<<"query", "select">>))
  BY <1>1, <1>4, FromSelect DEF Node
<1>8. \A t : Good("delete", t, From(<<"binary", "binary", "binary", "subquery", "query", "select">>))
  BY <1>1, <1>4, FromSelect DEF Node
<1>9. ASSUME NEW t, stmt \in {Insert(t), Update(t), Delete(t), Select(t)}
      PROVE  Reached(stmt, n) /\ n.table = stmt.table /\ ~ n.system
  <2>1. CASE stmt = Insert(t)
    BY <1>5, <2>1 DEF Insert, Statement, Name
  <2>2. CASE stmt = Update(t)
    BY <1>6, <2>2 DEF Update, Statement, Name
  <2>3. CASE stmt = Delete(t)
    BY <1>6, <2>3 DEF Delete, Statement, Name
  <2>4. CASE stmt = Select(t)
    BY <1>7, <2>4 DEF Select, Statement, Name
  <2>5. QED
    BY <1>9, <2>1, <2>2, <2>3, <2>4
<1>10. CASE stmt = PruneSecrets
  BY <1>6, <1>8, <1>10 DEF PruneSecrets, Statement, Name
<1>11. QED
  BY <1>9, <1>10 DEF KvStatements, PsqlStatements, UserpassStatements

\* A script of CREATE TABLE statements creates the tables these name.
LEMMA CreatedTables ==
    ASSUME NEW m \in Mount, NEW script, Scripts[m] = <<script>>, Len(script) \in Nat,
           \A i \in 1 .. Len(script) : script[i].kind = "create_table"
    PROVE  Schema(m, 1) = {script[i].table : i \in 1 .. Len(script)}
<1>1. \A p : p \in Places(m, 1) <=> \E i \in 1 .. Len(script) : p = <<1, i>>
  BY DEF Places
<1>2. \A p \in Places(m, 1) : Scripts[m][p[1]][p[2]] = script[p[2]] /\ p[2] \in 1 .. Len(script)
  BY <1>1
<1>3. \A i \in 1 .. Len(script) : <<1, i>> \in Places(m, 1) /\ Scripts[m][<<1, i>>[1]][<<1, i>>[2]] = script[i]
  BY <1>1
<1>4. \A p \in Places(m, 1) : Scripts[m][p[1]][p[2]].kind = "create_table"
  BY <1>2
<1>5. \A t : t \in Schema(m, 1) <=> \E p \in Places(m, 1) : t = Scripts[m][p[1]][p[2]].table
  BY <1>4 DEF Schema, SchemaOf
<1>6. \A t : t \in Schema(m, 1) <=> \E i \in 1 .. Len(script) : t = script[i].table
  <2>1. ASSUME NEW t, t \in Schema(m, 1) PROVE \E i \in 1 .. Len(script) : t = script[i].table
    <3>1. PICK p \in Places(m, 1) : t = Scripts[m][p[1]][p[2]].table
      BY <1>5, <2>1
    <3>2. t = script[p[2]].table /\ p[2] \in 1 .. Len(script)
      BY <1>2, <3>1
    <3>3. QED
      BY <3>2
  <2>2. ASSUME NEW i \in 1 .. Len(script) PROVE script[i].table \in Schema(m, 1)
    <3>1. <<1, i>> \in Places(m, 1) /\ Scripts[m][<<1, i>>[1]][<<1, i>>[2]] = script[i]
      BY <1>3
    <3>2. QED
      BY <1>5, <3>1
  <2>3. QED
    BY <2>1, <2>2
<1>7. QED
  BY <1>6

\* The three shipped backends fit: every table named by a statement of the KV,
\* Postgres and userpass backends is rewritten to one that the backend's own
\* migration script creates. This discharges StatementsFit for them.
THEOREM ShippedFit ==
    ASSUME NEW m \in Mount
    PROVE  /\ Scripts[m] = <<KvScript>> =>
                \A stmt \in KvStatements : TablesOf(m, stmt) \subseteq {<<m, t>> : t \in Schema(m, 1)}
           /\ Scripts[m] = <<PsqlScript>> =>
                \A stmt \in PsqlStatements : TablesOf(m, stmt) \subseteq {<<m, t>> : t \in Schema(m, 1)}
           /\ Scripts[m] = <<UserpassScript>> =>
                \A stmt \in UserpassStatements : TablesOf(m, stmt) \subseteq {<<m, t>> : t \in Schema(m, 1)}
<1>1. \A stmt \in KvStatements \cup PsqlStatements \cup UserpassStatements :
          TablesOf(m, stmt) \subseteq {<<m, stmt.table>>}
  BY ShippedReached DEF TablesOf, TableOf
<1>2. /\ \A stmt \in KvStatements : stmt.table \in {"CONFIG", "SECRETS"}
      /\ \A stmt \in PsqlStatements : stmt.table \in {"CONNECTION", "ROLES"}
      /\ \A stmt \in UserpassStatements : stmt.table = "USERS"
  BY DEF KvStatements, PsqlStatements, UserpassStatements, PruneSecrets, Select, Insert, Update, Delete, Statement
<1>3. Scripts[m] = <<KvScript>> => "SECRETS" \in Schema(m, 1) /\ "CONFIG" \in Schema(m, 1)
  <2>1. /\ Len(KvScript) = 2 /\ KvScript[1].table = "SECRETS" /\ KvScript[2].table = "CONFIG"
        /\ \A i \in 1 .. 2 : KvScript[i].kind = "create_table"
    BY DEF KvScript, CreateTable, Statement
  <2>2. QED
    BY <2>1, CreatedTables
<1>4. Scripts[m] = <<PsqlScript>> => "CONNECTION" \in Schema(m, 1) /\ "ROLES" \in Schema(m, 1)
  <2>1. /\ Len(PsqlScript) = 2 /\ PsqlScript[1].table = "CONNECTION" /\ PsqlScript[2].table = "ROLES"
        /\ \A i \in 1 .. 2 : PsqlScript[i].kind = "create_table"
    BY DEF PsqlScript, CreateTable, Statement
  <2>2. QED
    BY <2>1, CreatedTables
<1>5. Scripts[m] = <<UserpassScript>> => "USERS" \in Schema(m, 1)
  <2>1. /\ Len(UserpassScript) = 1 /\ UserpassScript[1].table = "USERS"
        /\ \A i \in 1 .. 1 : UserpassScript[i].kind = "create_table"
    BY DEF UserpassScript, CreateTable, Statement
  <2>2. QED
    BY <2>1, CreatedTables
<1>6. QED
  BY <1>1, <1>2, <1>3, <1>4, <1>5

-----------------------------------------------------------------------------
(***************************************************************************)
(* Recovery: the inductive invariant                                       *)
(***************************************************************************)

File == [key : Nat, rows : Nat]
Backup == [key : Nat, snapshot : Nat, rows : Nat]

Serving == phase \in {"up", "closing"}

TypeInv ==
    /\ seal \in Nat \cup {None}
    /\ enc \in File \cup {None}
    /\ tmp \in File \cup {None}
    /\ sealBackup \in Nat \cup {None}
    /\ encBackup \in Backup \cup {None}
    /\ phase \in {"down", "sealdb", "snapshot", "rename", "connect", "replicate", "pool", "up", "closing"}
    /\ pool \in {"uninitialized", "sealed", "unsealed"}
    /\ mine \in [seal : Int, enc : Int]
    /\ handlers \in [Request -> {AtRest, "setconfig", "create", "open", "check", "spawn", "set", "write", "seal"}]
    /\ keys \in Nat

\* A process that is starting has done nothing to the encrypted database yet,
\* and one that serves requests has a pool that agrees with the file.
StartInv ==
    /\ ~ Serving => /\ \A r \in Request : handlers[r] = AtRest
                    /\ mine.enc = 0
                    /\ ~ child.enc
                    /\ ~ overlap
    /\ Serving => IF pool = "uninitialized" THEN enc = None ELSE enc \in File
    /\ \A r \in Request : handlers[r] \notin {AtRest, "setconfig", "create"} => pool # "uninitialized"

\* A snapshot in the temporary file is that of the bucket, and there is no
\* database beside it.
SnapshotInv ==
    tmp # None =>
        /\ enc = None
        /\ phase \in {"down", "sealdb", "snapshot", "rename"}
        /\ encBackup # None
        /\ tmp.key = encBackup.key

\* A configuration that has reached the bucket is the only one from then on.
SealInv ==
    /\ sealBackup \in Nat /\ sealBackup > 0 => seal \in {None, sealBackup}
    /\ phase \in {"snapshot", "rename", "connect"} /\ seal = None => sealBackup = None
    /\ phase \in {"replicate", "pool", "up", "closing"} => seal # None

\* The keys of the databases were made; the one about to be made is new.
KeyInv ==
    /\ enc # None => enc.key \in 1 .. keys
    /\ encBackup # None => encBackup.key \in 1 .. keys
    /\ \A r \in Request : handlers[r] = "create" => seal = keys + 1
    /\ \A r, q \in Request : handlers[r] = "create" /\ handlers[q] = "create" => r = q

\* When a configuration belongs to the database in the bucket, then so does
\* the database on disk.
PairInv ==
    encBackup # None /\ enc # None =>
        /\ seal = encBackup.key => enc.key = encBackup.key
        /\ sealBackup = encBackup.key => enc.key = encBackup.key

Inv == TypeInv /\ StartInv /\ SnapshotInv /\ SealInv /\ KeyInv /\ PairInv

\* One unseal at a time is starting the replication, and whether it has is
\* what the handle says, but between SpawnReplication and SetChild.
ReplicationInv ==
    phase = "up" /\ ~ overlap =>
        /\ \A r \in Request : Replicating(r) => pool = "unsealed"
        /\ \A r, q \in Request : Replicating(r) /\ Replicating(q) => r = q
        /\ \A r \in Request : handlers[r] = "spawn" => mine.enc = 0 /\ ~ child.enc
        /\ \A r \in Request : handlers[r] = "set" => mine.enc = 1 /\ ~ child.enc
        /\ (\A r \in Request : handlers[r] # "set") => mine.enc = IF child.enc THEN 1 ELSE 0

-----------------------------------------------------------------------------
(***************************************************************************)
(* The first part is inductive                                             *)
(***************************************************************************)

USE RecoveryAssumption

\* The server starts with the invariants of recovery and replication.
LEMMA RecoveryInitInv ==
    RecoveryInit => Inv /\ ReplicationInv
<1> SUFFICES ASSUME RecoveryInit PROVE Inv /\ ReplicationInv
  OBVIOUS
<1> USE DEF RecoveryInit, NoChild, NoProcess, AtRest, Serving
<1>1. TypeInv
  BY DEF TypeInv
<1>2. StartInv
  BY DEF StartInv
<1>3. SnapshotInv /\ SealInv /\ KeyInv /\ PairInv /\ ReplicationInv
  BY DEF SnapshotInv, SealInv, KeyInv, PairInv, ReplicationInv
<1>4. QED
  BY <1>1, <1>2, <1>3 DEF Inv

\* The steps of a starting process keep the types.
LEMMA StartTypes ==
    Inv /\ StartStep => TypeInv'
<1> SUFFICES ASSUME Inv, StartStep PROVE TypeInv'
  OBVIOUS
<1> USE DEF Inv, TypeInv, Go, disk, bucket, children, recoveryHistory
<1>1. CASE Start
  BY <1>1 DEF Start
<1>2. CASE RecoverSeal
  BY <1>2 DEF RecoverSeal
<1>3. CASE RecoverSnapshot
  BY <1>3 DEF RecoverSnapshot, Snapshot, File, Backup
<1>4. CASE RenameSnapshot
  BY <1>4 DEF RenameSnapshot
<1>5. CASE ConnectSeal
  BY <1>5 DEF ConnectSeal
<1>6. CASE ReplicateSeal
  BY <1>6 DEF ReplicateSeal, SetHandle
<1>7. CASE NewPool
  BY <1>7 DEF NewPool
<1>8. QED
  BY <1>1, <1>2, <1>3, <1>4, <1>5, <1>6, <1>7 DEF StartStep

\* The steps of a starting process keep the invariant.
LEMMA StartSteps ==
    Inv /\ StartStep => Inv'
<1> SUFFICES ASSUME Inv, StartStep PROVE Inv'
  OBVIOUS
<1>0. TypeInv'
  BY StartTypes
<1> USE DEF Inv, TypeInv, StartInv, SnapshotInv, SealInv, KeyInv, PairInv, Serving, AtRest,
            Go, disk, bucket, children, recoveryHistory
<1>1. CASE Start
  BY <1>0, <1>1 DEF Start
<1>2. CASE RecoverSeal
  <2>1. StartInv' /\ SnapshotInv'
    BY <1>2 DEF RecoverSeal
  <2>2. SealInv'
    BY <1>2 DEF RecoverSeal
  <2>3. KeyInv'
    BY <1>2 DEF RecoverSeal
  <2>4. PairInv'
    BY <1>2 DEF RecoverSeal
  <2>5. QED
    BY <1>0, <2>1, <2>2, <2>3, <2>4
<1>3. CASE RecoverSnapshot
  <2>1. CASE UNCHANGED <<enc, tmp>>
    <3>1. StartInv' /\ KeyInv' /\ PairInv'
      BY <1>3, <2>1 DEF RecoverSnapshot
    <3>2. SnapshotInv' /\ SealInv'
      BY <1>3, <2>1 DEF RecoverSnapshot
    <3>3. QED
      BY <1>0, <3>1, <3>2
  <2>2. CASE encBackup # None /\ enc = None /\ Go("rename") /\ tmp' = Snapshot /\ UNCHANGED enc
    BY <1>0, <1>3, <2>2 DEF RecoverSnapshot, Snapshot
  <2>3. CASE encBackup # None /\ enc = None /\ enc' = Snapshot /\ tmp' = None /\ Go("connect")
    BY <1>0, <1>3, <2>3 DEF RecoverSnapshot, Snapshot
  <2>4. QED
    BY <1>3, <2>1, <2>2, <2>3 DEF RecoverSnapshot
<1>4. CASE RenameSnapshot
  BY <1>0, <1>4 DEF RenameSnapshot, File, Backup
<1>5. CASE ConnectSeal
  BY <1>0, <1>5 DEF ConnectSeal, File, Backup
<1>6. CASE ReplicateSeal
  <2>1. ~ child'.enc /\ mine'.enc = 0
    <3>1. ~ child.enc /\ mine.enc = 0
      BY <1>6 DEF ReplicateSeal
    <3>2. CASE UNCHANGED <<mine, child>>
      BY <3>1, <3>2
    <3>3. CASE mine' = [mine EXCEPT !.seal = @ + 1] /\ SetHandle("seal")
      <4>1. mine'.enc = 0
        BY <3>1, <3>3
      <4>2. child'.enc = (child.enc \/ "seal" = "enc")
        BY <3>3 DEF SetHandle
      <4>3. QED
        BY <3>1, <4>1, <4>2
    <3>4. QED
      BY <1>6, <3>2, <3>3 DEF ReplicateSeal
  <2>2. StartInv'
    BY <1>6, <2>1 DEF ReplicateSeal
  <2>3. SnapshotInv' /\ SealInv' /\ KeyInv' /\ PairInv'
    BY <1>6 DEF ReplicateSeal
  <2>4. QED
    BY <1>0, <2>2, <2>3
<1>7. CASE NewPool
  BY <1>0, <1>7 DEF NewPool
<1>8. QED
  BY <1>1, <1>2, <1>3, <1>4, <1>5, <1>6, <1>7 DEF StartStep

\* The steps of a request keep the types.
LEMMA HandlerTypes ==
    ASSUME Inv, NEW r \in Request, HandlerStep(r)
    PROVE  TypeInv'
<1> USE DEF Inv, TypeInv, StartInv, Serving, Goto, Transition, disk, bucket, children, recoveryHistory
<1>0. handlers[r] \notin {AtRest, "setconfig", "create"} => enc \in File
  OBVIOUS
<1>1. CASE SetConfig(r)
  BY <1>1 DEF SetConfig, NewKey
<1>2. CASE Create(r)
  BY <1>2 DEF Create, NewFile, File, KeyInv
<1>3. CASE Open(r)
  BY <1>3 DEF Open
<1>4. CASE CheckStarted(r)
  BY <1>4 DEF CheckStarted
<1>5. CASE SpawnReplication(r)
  BY <1>0, <1>5 DEF SpawnReplication, AtRest, File, Backup
<1>6. CASE SetChild(r)
  BY <1>6 DEF SetChild
<1>7. CASE Write(r)
  BY <1>7, <1>0 DEF Write, AtRest, File
<1>8. CASE Seal(r)
  BY <1>8 DEF Seal
<1>9. CASE QueryFails(r)
  BY <1>9 DEF QueryFails
<1>10. QED
  BY <1>1, <1>2, <1>3, <1>4, <1>5, <1>6, <1>7, <1>8, <1>9 DEF HandlerStep

\* The steps of a request keep the invariant.
LEMMA HandlerSteps ==
    ASSUME Inv, NEW r \in Request, HandlerStep(r)
    PROVE  Inv'
<1>0. TypeInv'
  BY HandlerTypes
<1> USE DEF Inv, TypeInv, StartInv, SnapshotInv, SealInv, KeyInv, PairInv, Serving, AtRest,
            Goto, Transition, disk, bucket, children, recoveryHistory
<1>1. CASE SetConfig(r)
  <2>1. CASE seal = 0 /\ seal' = NewKey /\ Goto(r, "create")
    <3>1. \A q \in Request : handlers[q] # "create"
      BY <2>1
    <3>2. StartInv' /\ SnapshotInv' /\ SealInv'
      BY <1>1, <2>1 DEF SetConfig, NewKey
    <3>3. KeyInv'
      BY <1>1, <2>1, <3>1 DEF SetConfig, NewKey
    <3>4. PairInv'
      BY <1>1, <2>1 DEF SetConfig, NewKey
    <3>5. QED
      BY <1>0, <3>2, <3>3, <3>4
  <2>2. CASE seal' = seal /\ Goto(r, AtRest)
    BY <1>0, <1>1, <2>2 DEF SetConfig
  <2>3. QED
    BY <1>1, <2>1, <2>2 DEF SetConfig
<1>2. CASE Create(r)
  <2>1. seal = keys + 1 /\ keys' = seal /\ enc' = NewFile(seal) /\ enc'.key = seal
    BY <1>2 DEF Create, NewFile
  <2>2. StartInv' /\ SnapshotInv'
    BY <1>0, <1>2, <2>1 DEF Create, NewFile, File
  <2>3. SealInv'
    BY <1>2 DEF Create
  <2>4. KeyInv'
    BY <1>2, <2>1 DEF Create
  <2>5. PairInv'
    BY <1>2, <2>1 DEF Create
  <2>6. QED
    BY <1>0, <2>2, <2>3, <2>4, <2>5
<1>3. CASE Open(r)
  BY <1>0, <1>3 DEF Open
<1>4. CASE CheckStarted(r)
  BY <1>0, <1>4 DEF CheckStarted
<1>5. CASE SpawnReplication(r)
  BY <1>0, <1>5 DEF SpawnReplication, File, Backup
<1>6. CASE SetChild(r)
  BY <1>0, <1>6 DEF SetChild
<1>7. CASE Write(r)
  <2>1. CASE enc' = enc
    BY <1>0, <1>7, <2>1 DEF Write
  <2>2. CASE pool = "unsealed" /\ enc' = [enc EXCEPT !.rows = @ + 1]
    <3>1. enc \in File /\ enc # None
      BY <1>7 DEF Write, File
    <3>2. enc'.key = enc.key /\ enc' \in File
      BY <2>2, <3>1 DEF File
    <3>3. UNCHANGED <<seal, tmp, sealBackup, encBackup, phase, pool, keys, mine, child, overlap>>
      BY <1>7 DEF Write
    <3>4. handlers' = [handlers EXCEPT ![r] = AtRest] /\ handlers[r] = "write"
      BY <1>7 DEF Write
    <3>5. QED
      <4>1. StartInv'
        BY <3>2, <3>3, <3>4
      <4>2. SnapshotInv' /\ SealInv'
        BY <2>2, <3>1, <3>2, <3>3, <3>4
      <4>3. KeyInv' /\ PairInv'
        BY <3>1, <3>2, <3>3, <3>4, <2>2
      <4>4. QED
        BY <1>0, <4>1, <4>2, <4>3
  <2>3. QED
    BY <1>7, <2>1, <2>2 DEF Write
<1>8. CASE Seal(r)
  BY <1>0, <1>8 DEF Seal
<1>9. CASE QueryFails(r)
  BY <1>0, <1>9 DEF QueryFails
<1>10. QED
  BY <1>1, <1>2, <1>3, <1>4, <1>5, <1>6, <1>7, <1>8, <1>9 DEF HandlerStep

\* The steps in which a request begins
Arrival(r) ==
    \/ Begin(r, "uninitialized", "setconfig")
    \/ Begin(r, "sealed", "open")
    \/ Begin(r, "unsealed", "write")
    \/ Begin(r, "unsealed", "seal")

\* Arriving requests keep the invariant.
LEMMA ArrivalSteps ==
    ASSUME Inv, NEW r \in Request, Arrival(r)
    PROVE  Inv'
BY DEF Arrival, Begin, Goto, Inv, TypeInv, StartInv, SnapshotInv, SealInv, KeyInv, PairInv, Serving, AtRest,
       disk, bucket, children, recoveryHistory

\* Litestream, shutdown and faults
External == SyncSeal \/ SyncEncrypted \/ KillAll \/ Exit \/ Crash \/ LoseDisk

\* Crashes, the replica and the operator keep the invariant.
LEMMA ExternalSteps ==
    Inv /\ External => Inv'
<1> SUFFICES ASSUME Inv, External PROVE Inv'
  OBVIOUS
<1> USE DEF Inv, TypeInv, StartInv, SnapshotInv, SealInv, KeyInv, PairInv, Serving, AtRest,
            disk, bucket, children, recoveryHistory
<1>1. CASE SyncSeal
  BY <1>1 DEF SyncSeal, Backup
<1>2. CASE SyncEncrypted
  BY <1>2 DEF SyncEncrypted, File, Backup
<1>3. CASE KillAll
  BY <1>3 DEF KillAll, NoChild
<1>4. CASE Exit \/ Crash
  <2>1. End
    BY <1>4 DEF Exit, Crash
  <2>2. mine' = NoProcess /\ child' = NoChild
    BY <2>1 DEF End
  <2>3. QED
    BY <2>1, <2>2 DEF End, NoProcess, NoChild
<1>5. CASE LoseDisk
  BY <1>5 DEF LoseDisk, Backup
<1>6. QED
  BY <1>1, <1>2, <1>3, <1>4, <1>5 DEF External

\* Next, split into the cases that the proofs treat.
LEMMA NextCases ==
    RecoveryNext => \/ StartStep
            \/ External
            \/ \E r \in Request : Arrival(r) \/ HandlerStep(r)
BY DEF RecoveryNext, External, Arrival

\* The invariant holds in every reachable state.
LEMMA Invariance ==
    RecoverySpec => []Inv
<1>1. RecoveryInit => Inv
  BY RecoveryInitInv
<1>2. Inv /\ [RecoveryNext]_recoveryVars => Inv'
  <2>1. Inv /\ UNCHANGED recoveryVars => Inv'
    BY DEF recoveryVars, Inv, TypeInv, StartInv, SnapshotInv, SealInv, KeyInv, PairInv, Serving,
           disk, bucket, children, recoveryHistory
  <2>2. QED
    BY <2>1, NextCases, StartSteps, ExternalSteps, ArrivalSteps, HandlerSteps
<1>3. QED
  BY <1>1, <1>2, PTL DEF RecoverySpec

-----------------------------------------------------------------------------
(***************************************************************************)
(* The replication of the encrypted database                               *)
(***************************************************************************)

\* A step that leaves the processes, the handles and the pool alone, and of a
\* request at most ends it or sends it where nothing is replicated
LEMMA ReplicationKept ==
    ASSUME ReplicationInv, handlers = [q \in Request |-> handlers[q]],
           NEW r \in Request, handlers[r] # "set",
           NEW pc, pc \notin {"check", "spawn", "set"},
           handlers' = [handlers EXCEPT ![r] = pc], UNCHANGED <<phase, pool, mine, child>>,
           overlap' = overlap
    PROVE  ReplicationInv'
BY DEF ReplicationInv, Replicating

\* Every step keeps the invariant of replication.
LEMMA ReplicationSteps ==
    Inv /\ ReplicationInv /\ [RecoveryNext]_recoveryVars => ReplicationInv'
<1> SUFFICES ASSUME Inv, ReplicationInv, [RecoveryNext]_recoveryVars PROVE ReplicationInv'
  OBVIOUS
<1>0. handlers = [q \in Request |-> handlers[q]]
  BY DEF Inv, TypeInv, AtRest
<1> USE DEF disk, bucket, children, recoveryHistory
<1>1. CASE UNCHANGED recoveryVars
  BY <1>1 DEF recoveryVars, ReplicationInv, Replicating
<1>2. CASE StartStep
  <2>1. CASE NewPool
    BY <2>1 DEF NewPool, Inv, StartInv, Serving, ReplicationInv, Replicating, AtRest
  <2>2. CASE phase' # "up"
    BY <2>2 DEF ReplicationInv
  <2>3. QED
    BY <1>2, <2>1, <2>2 DEF StartStep, Start, RecoverSeal, RecoverSnapshot, RenameSnapshot, ConnectSeal,
       ReplicateSeal, Go
<1>3. CASE External
  <2>1. CASE SyncSeal \/ SyncEncrypted \/ LoseDisk
    BY <2>1 DEF SyncSeal, SyncEncrypted, LoseDisk, ReplicationInv, Replicating
  <2>2. CASE KillAll \/ Exit \/ Crash
    BY <2>2 DEF KillAll, Exit, Crash, End, ReplicationInv
  <2>3. QED
    BY <1>3, <2>1, <2>2 DEF External
<1>4. ASSUME NEW r \in Request, Arrival(r) PROVE ReplicationInv'
  <2>1. PICK pc \in {"setconfig", "open", "write", "seal"} :
           handlers[r] = AtRest /\ Goto(r, pc) /\ UNCHANGED <<phase, pool, mine, child, overlap>>
    BY <1>4 DEF Arrival, Begin
  <2>2. QED
    BY <1>0, <2>1, ReplicationKept DEF Goto, AtRest
<1>5. ASSUME NEW r \in Request, SetConfig(r) \/ Write(r) \/ QueryFails(r) PROVE ReplicationInv'
  <2>1. PICK pc \in {"create", AtRest} : Goto(r, pc)
    BY <1>5 DEF SetConfig, Write, QueryFails
  <2>2. handlers[r] # "set" /\ UNCHANGED <<phase, pool, mine, child, overlap>>
    BY <1>5 DEF SetConfig, Write, QueryFails
  <2>3. QED
    BY <1>0, <2>1, <2>2, ReplicationKept DEF Goto, AtRest
<1>6. ASSUME NEW r \in Request, Create(r) PROVE ReplicationInv'
  BY <1>6, <1>0 DEF Create, Transition, Goto, ReplicationInv, Replicating, AtRest
<1>7. ASSUME NEW r \in Request, Open(r) PROVE ReplicationInv'
  <2>1. CASE Goto(r, AtRest) /\ UNCHANGED pool
    BY <1>7, <1>0, <2>1, ReplicationKept DEF Open, Goto, AtRest
  <2>2. CASE Transition("sealed", "unsealed") /\ Goto(r, "check")
    BY <1>7, <1>0, <2>2 DEF Open, Transition, Goto, ReplicationInv, Replicating
  <2>3. QED
    BY <1>7, <2>1, <2>2 DEF Open
<1>8. ASSUME NEW r \in Request, CheckStarted(r) PROVE ReplicationInv'
  BY <1>8, <1>0 DEF CheckStarted, Started, Goto, ReplicationInv, Replicating
<1>9. ASSUME NEW r \in Request, SpawnReplication(r) PROVE ReplicationInv'
  <2>1. handlers[r] = "spawn" /\ UNCHANGED <<phase, pool, child, overlap>>
    BY <1>9 DEF SpawnReplication
  <2>2. CASE Goto(r, "write") /\ UNCHANGED mine
    BY <1>0, <2>1, <2>2, ReplicationKept DEF Goto
  <2>3. CASE mine' = [mine EXCEPT !.enc = @ + 1] /\ Goto(r, "set")
    <3>1. mine'.enc = mine.enc + 1
      BY <2>3 DEF Inv, TypeInv
    <3>2. QED
      BY <1>0, <2>1, <2>3, <3>1 DEF Goto, ReplicationInv, Replicating
  <2>4. QED
    BY <1>9, <2>2, <2>3 DEF SpawnReplication
<1>10. ASSUME NEW r \in Request, SetChild(r) PROVE ReplicationInv'
  <2>1. handlers[r] = "set" /\ Goto(r, "write") /\ UNCHANGED <<phase, pool, mine, overlap>>
    BY <1>10 DEF SetChild
  <2>2. child'.enc
    BY <1>10 DEF SetChild, SetHandle
  <2>3. QED
    BY <1>0, <2>1, <2>2 DEF Goto, ReplicationInv, Replicating
<1>11. ASSUME NEW r \in Request, Seal(r) PROVE ReplicationInv'
  BY <1>11, <1>0 DEF Seal, Transition, Goto, ReplicationInv, Replicating, AtRest
<1>12. QED
  BY <1>1, <1>2, <1>3, <1>4, <1>5, <1>6, <1>7, <1>8, <1>9, <1>10, <1>11, NextCases DEF HandlerStep

\* The invariant of replication holds in every reachable state.
LEMMA ReplicationInvariance ==
    RecoverySpec => []ReplicationInv
BY RecoveryInitInv, Invariance, ReplicationSteps, PTL DEF RecoverySpec

-----------------------------------------------------------------------------
(***************************************************************************)
(* The theorems                                                            *)
(***************************************************************************)

\* Once both databases have reached the bucket, nothing else is ever put in
\* their place, wherever start fails or crashes and whatever was lost (the
\* order of the recoveries in start).
THEOREM BackupCorrect ==
    RecoverySpec => []BackupIsKept
<1>1. Inv => BackupIsKept
  BY DEF Inv, TypeInv, SealInv, KeyInv, PairInv, BackupIsKept, BackupComplete, Backup
<1>2. QED
  BY <1>1, Invariance, PTL

\* While the disk is there, no snapshot undoes what was written to the
\* encrypted database (recover_encrypted_storage_snapshot).
THEOREM LocalCorrect ==
    RecoverySpec => LocalStorageWins
<1>1. Inv /\ [RecoveryNext]_recoveryVars =>
        [enc # None /\ enc' # None => enc'.key = enc.key /\ enc'.rows >= enc.rows]_recoveryVars
  <2> SUFFICES ASSUME Inv, RecoveryNext, enc # None
               PROVE  enc' # None => enc'.key = enc.key /\ enc'.rows >= enc.rows
    OBVIOUS
  <2>1. enc \in File
    BY DEF Inv, TypeInv
  <2>2. CASE UNCHANGED enc
    BY <2>1, <2>2 DEF File
  <2>3. CASE StartStep \/ External
    <3>1. tmp = None
      BY DEF Inv, SnapshotInv
    <3>2. UNCHANGED enc \/ enc' = None
      BY <2>3, <3>1 DEF StartStep, Start, RecoverSeal, RecoverSnapshot, RenameSnapshot, ConnectSeal,
         ReplicateSeal, NewPool, External, SyncSeal, SyncEncrypted, KillAll, Exit, Crash, End, LoseDisk,
         disk, bucket
    <3>3. QED
      BY <2>2, <3>2
  <2>4. ASSUME NEW r \in Request, Create(r) PROVE FALSE
    BY <2>4 DEF Create, Transition, Inv, TypeInv, StartInv, Serving, AtRest
  <2>5. ASSUME NEW r \in Request, SpawnReplication(r) \/ Write(r)
        PROVE  enc'.key = enc.key /\ enc'.rows >= enc.rows
    <3>1. \/ UNCHANGED enc
          \/ enc' = [enc EXCEPT !.rows = @ + 1]
          \/ /\ encBackup # None
             /\ encBackup.rows > enc.rows
             /\ enc' = [enc EXCEPT !.rows = encBackup.rows]
      BY <2>5 DEF SpawnReplication, Write
    <3>2. QED
      BY <2>1, <3>1 DEF Inv, TypeInv, File, Backup
  <2>6. QED
    BY <2>2, <2>3, <2>4, <2>5, NextCases DEF Arrival, Begin, HandlerStep, SetConfig, Open, CheckStarted,
       SetChild, Seal, QueryFails, disk
<1>2. QED
  BY <1>1, Invariance, PTL DEF RecoverySpec, LocalStorageWins

\* However often the server is unsealed, one Litestream at most replicates the
\* encrypted database, and kill_all knows it, unless a seal overtook an unseal
\* (encrypted_storage_replication_started).
THEOREM ReplicationCorrect ==
    RecoverySpec => []OneReplication
<1>1. ReplicationInv => OneReplication
  BY DEF ReplicationInv, OneReplication
<1>2. QED
  BY <1>1, ReplicationInvariance, PTL
=============================================================================
