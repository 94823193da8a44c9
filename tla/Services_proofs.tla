--------------------------- MODULE Services_proofs ---------------------------
(***************************************************************************)
(* Interviews and the hourly allowance (ProjectWorkspace), the intake      *)
(* conversation (IntakeSession) and the requests-per-minute budget of the  *)
(* fleet (RpmLimiter), for any number of accounts, runs, tabs, threads and *)
(* processes and any value of the limits; and the types of all services    *)
(* that MCServices puts side by side.                                      *)
(***************************************************************************)
EXTENDS MCServices, SignIn_proofs, FiniteSums

---------------------------------------------------------------------------
(* Interviews and the hourly allowance.                                    *)

\* The run of a thread was removed.
Gone(t) == wruns[t[1]].state = "gone"

\* The messages R of a thread are numbered from 0, without a gap or a duplicate.
Numbered(R) ==
    /\ \A m, n \in R: m.ordinal = n.ordinal => m = n
    /\ \A m \in R: \A o \in 0..m.ordinal: \E n \in R: n.ordinal = o

\* Every question is followed by its answer.
Paired(R) ==
    \A q \in R: q.role = "user" =>
        \E a \in R: a.role = "assistant" /\ a.by = q.by /\ a.ordinal = q.ordinal + 1

\* Every question was asked in the knowledge of the answers its asker had got before.
Known(R) ==
    \A m, n \in R:
        (m.by = n.by /\ m.role = "assistant" /\ n.role = "user" /\ m.ordinal < n.ordinal)
            => m.ordinal < n.seen

\* A turn under way: its thread stays until the run is removed, it has seen what its
\* asker was answered, and the number it read had no free number before it.
TurnInv(k) ==
    /\ turns[k].step = "shown" => wruns[turns[k].thread[1]].state \in {"ready", "gone"}
    /\ turns[k].step \in {"found", "asked", "answered", "numbered"} =>
         turns[k].thread \in threads \/ Gone(turns[k].thread)
    /\ turns[k].step \in {"asked", "answered", "numbered"} /\ turns[k].thread \in threads =>
         \A m \in RowsOf(turns[k].thread): m.by = k => m.ordinal < turns[k].seen
    /\ turns[k].step = "numbered" =>
         /\ turns[k].ordinal < MaxOrdinal
         /\ turns[k].thread \in threads =>
              \A o \in 0..(turns[k].ordinal - 1): \E m \in RowsOf(turns[k].thread): m.ordinal = o

\* What is stored of interviews.
StoredInv ==
    /\ \A t \in threads: wruns[t[1]].state = "ready"
    /\ \A t \in threads: Numbered(RowsOf(t)) /\ Paired(RowsOf(t)) /\ Known(RowsOf(t))
    /\ \A m \in rows: m.ordinal <= MaxOrdinal
    /\ \A m \in rows: m.thread \notin threads => m.stray /\ Gone(m.thread)
    /\ \A t \in late: Gone(t)

ThreadsInv == StoredInv /\ \A k \in Askers: TurnInv(k)

WorkspaceInv == WorkspaceTypeOK /\ AllowanceKept /\ ThreadsInv

\* The placeholders of empty rows, and the window of the allowance.
LEMMA WorkspacePlaceholders ==
  /\ (CHOOSE u \in Owners: TRUE) \in Owners
  /\ (CHOOSE p \in Projects: TRUE) \in Projects
  /\ IdleTurn \in Turn /\ IdleTurn.step = "idle"
  /\ HourLimit \in Nat \ {0} /\ Hour \in Nat \ {0} /\ MaxOrdinal \in Nat
<1>1. Threads /= {}
  <2>1. PICK r \in WRuns, s \in Subjects: TRUE
    BY WorkspaceConstants
  <2>2. <<r, s>> \in Threads
    BY DEF Threads
  <2>3. QED BY <2>2
<1>2. (CHOOSE t \in Threads: TRUE) \in Threads /\ (CHOOSE u \in Owners: TRUE) \in Owners
  BY <1>1, WorkspaceConstants
<1>3. 0 \in Ordinals
  BY WorkspaceConstants DEF Ordinals
<1>4. QED BY <1>2, <1>3, WorkspaceConstants DEF IdleTurn, Turn

---------------------------------------------------------------------------
(* The allowance.                                                          *)

HourAges == 0..(Hour - 1)

\* The ages within the hour.
LEMMA AgesFinite == IsFiniteSet(HourAges) /\ 0 \in HourAges /\ \A a \in HourAges: a \in Nat
<1>1. Hour \in Nat \ {0}
  BY WorkspaceConstants
<1>2. QED BY <1>1, FS_Interval DEF HourAges

\* What an account has used is the sum of its units within the hour.
LEMMA UsedTotal == \A u \in Owners, type \in ActionTypes: Used(u, type) = Total(spent[<<u, type>>], HourAges)
BY DEF Used, Total, HourAges

\* The books of one account and action type: units of naturals within the limit.
Book == {b \in [HourAges -> 0..HourLimit]: Total(b, HourAges) <= HourLimit}

\* Units are naturals that sum up to at most the limit: then each is within it.
LEMMA WithinLimit ==
  ASSUME NEW b \in [HourAges -> Nat], Total(b, HourAges) <= HourLimit
  PROVE  b \in Book
<1>1. HourLimit \in Nat
  BY WorkspaceConstants
<1>2. ASSUME NEW a \in HourAges PROVE b[a] \in 0..HourLimit
  <2>1. b[a] <= Total(b, HourAges)
    BY AgesFinite, TotalHolds
  <2>2. Total(b, HourAges) \in Nat
    BY AgesFinite, TotalNat
  <2>3. QED BY <1>1, <2>1, <2>2
<1>3. QED BY <1>2 DEF Book

\* A book's units are naturals, and so is their sum.
LEMMA BookNat ==
  ASSUME NEW b \in Book
  PROVE  b \in [HourAges -> Nat] /\ Total(b, HourAges) \in Nat /\ Total(b, HourAges) <= HourLimit
<1>1. b \in [HourAges -> Nat] /\ Total(b, HourAges) <= HourLimit
  BY WorkspaceConstants DEF Book
<1>2. QED BY <1>1, AgesFinite, TotalNat

\* The allowance as a set of books.
AllowanceInv == spent \in [Owners \X ActionTypes -> Book]

\* The allowance is kept iff every account has a book.
LEMMA AllowanceBooks ==
  AllowanceInv <=> spent \in [Owners \X ActionTypes -> [0..(Hour - 1) -> 0..HourLimit]] /\ AllowanceKept
<1>1. \A k \in Owners \X ActionTypes: k = <<k[1], k[2]>> /\ k[1] \in Owners /\ k[2] \in ActionTypes
  OBVIOUS
<1>2. AllowanceKept <=> \A k \in Owners \X ActionTypes: Total(spent[k], HourAges) <= HourLimit
  <2>1. AllowanceKept <=> \A u \in Owners, type \in ActionTypes: Total(spent[<<u, type>>], HourAges) <= HourLimit
    BY UsedTotal DEF AllowanceKept
  <2>2. QED BY <1>1, <2>1
<1>3. QED BY <1>2 DEF AllowanceInv, Book, HourAges

\* Nothing consumed is a book.
LEMMA EmptyBook == [a \in 0..(Hour - 1) |-> 0] \in Book
<1> DEFINE z == [a \in HourAges |-> 0]
<1>1. Total(z, HourAges) = 0 * Cardinality(HourAges)
  BY AgesFinite, TotalConstant
<1>2. Cardinality(HourAges) \in Nat
  BY AgesFinite, FS_CardinalityType
<1>3. Total(z, HourAges) = 0
  BY <1>1, <1>2
<1>4. HourLimit \in Nat
  BY WorkspaceConstants
<1>5. z \in [HourAges -> Nat]
  OBVIOUS
<1> HIDE DEF z
<1>6. z \in Book
  BY <1>3, <1>4, <1>5, WithinLimit
<1>7. QED BY <1>6 DEF z, HourAges

\* A unit that is counted before it is spent stays within the limit.
LEMMA SpendKeeps ==
  ASSUME AllowanceInv, NEW u \in Owners, NEW type \in ActionTypes,
         Allowed(u, type), Spend(u, type)
  PROVE  AllowanceInv'
<1> DEFINE b == spent[<<u, type>>]
           c == [b EXCEPT ![0] = @ + 1]
<1>1. b \in Book
  BY DEF AllowanceInv
<1>2. b \in [HourAges -> Nat] /\ Total(b, HourAges) \in Nat
  BY <1>1, BookNat
<1>3. c \in [HourAges -> Nat] /\ c[0] = b[0] + 1 /\ \A a \in HourAges \ {0}: b[a] = c[a]
  BY <1>2, AgesFinite
<1> HIDE DEF c
<1>4. Total(c, HourAges) = Total(b, HourAges) - b[0] + c[0]
  BY <1>2, <1>3, AgesFinite, TotalChange
<1>5. Total(b, HourAges) + 1 <= HourLimit
  BY UsedTotal DEF Allowed
<1>6. b[0] \in Nat
  BY <1>2, AgesFinite
<1>7. Total(c, HourAges) <= HourLimit
  BY <1>2, <1>3, <1>4, <1>5, <1>6
<1>8. c \in Book
  BY <1>3, <1>7, WithinLimit
<1>9. spent' = [spent EXCEPT ![<<u, type>>] = c]
  BY DEF Spend, c
<1>10. QED BY <1>8, <1>9 DEF AllowanceInv

\* Ageing spends nothing.
LEMMA TickKeeps == ASSUME AllowanceInv, WorkspaceTick PROVE AllowanceInv'
<1>1. ASSUME NEW k \in Owners \X ActionTypes
      PROVE  [a \in 0..(Hour - 1) |-> IF a = 0 THEN 0 ELSE spent[k][a - 1]] \in Book
  <2> DEFINE b == spent[k]
             c == [a \in HourAges |-> IF a = 0 THEN 0 ELSE b[a - 1]]
  <2>1. b \in Book
    BY DEF AllowanceInv
  <2>2. b \in [HourAges -> Nat] /\ Total(b, HourAges) \in Nat /\ Total(b, HourAges) <= HourLimit
    BY <2>1, BookNat
  <2>3. Hour \in Nat \ {0} /\ HourLimit \in Nat
    BY WorkspaceConstants
  <2>4. \A a \in HourAges: c[a] = IF a = 0 THEN 0 ELSE b[a - 1]
    OBVIOUS
  <2>5. c \in [HourAges -> Nat]
    <3>1. \A a \in HourAges: a /= 0 => a - 1 \in HourAges
      BY <2>3 DEF HourAges
    <3>2. QED BY <2>2, <3>1
  <2> HIDE DEF c, b
  <2>6. Total(c, 0..(Hour - 1)) <= Total(b, 0..(Hour - 1))
    BY <2>2, <2>3, <2>4, TotalShifted DEF HourAges
  <2>7. Total(c, HourAges) \in Nat
    BY <2>5, AgesFinite, TotalNat
  <2>8. Total(c, HourAges) <= HourLimit
    BY <2>2, <2>3, <2>6, <2>7 DEF HourAges
  <2>9. c \in Book
    BY <2>5, <2>8, WithinLimit
  <2>10. QED BY <2>9 DEF c, b, HourAges
<1>2. QED BY <1>1 DEF WorkspaceTick, AllowanceInv

\* At first nothing is consumed.
LEMMA AllowanceInitInv == WorkspaceInit => AllowanceInv
BY EmptyBook DEF WorkspaceInit, AllowanceInv

\* Only a request that fits is charged; time only takes units out of the hour.
LEMMA AllowanceNextInv ==
  ASSUME AllowanceInv, \A k \in Askers: turns[k].owner \in Owners, [WorkspaceNext]_workspaceVars
  PROVE  AllowanceInv'
<1>1. CASE spent' = spent
  BY <1>1 DEF AllowanceInv
<1>2. ASSUME NEW u \in Owners, DeleteOwner(u) PROVE AllowanceInv'
  BY <1>2, EmptyBook DEF DeleteOwner, AllowanceInv
<1>3. ASSUME NEW k \in Askers, AskFollowup(k) \/ AskPay(k) PROVE AllowanceInv'
  <2>1. PICK type \in ActionTypes: \E turn: Consume(k, type, turn)
    BY <1>3 DEF AskFollowup, AskPay, ActionTypes
  <2>2. spent' = spent \/ (Allowed(turns[k].owner, type) /\ Spend(turns[k].owner, type))
    BY <2>1 DEF Consume
  <2>3. QED BY <1>1, <2>2, SpendKeeps
<1>4. CASE \E k \in Askers, u \in Owners, t \in Threads: Enter(k, u, t)
  BY <1>1, <1>4 DEF Enter
<1>5. CASE \E r \in WRuns: AttachProjectRun(r) \/ FinishRun(r) \/ PruneRun(r)
  BY <1>1, <1>5 DEF AttachProjectRun, FinishRun, PruneRun
<1>6. CASE \E k \in Askers: \/ ShowSubject(k) \/ OpenThread(k) \/ AskFind(k) \/ AskHistory(k)
                            \/ AskAnswer(k) \/ AppendRead(k) \/ AppendWrite(k)
  BY <1>1, <1>6 DEF ShowSubject, OpenThread, AskFind, AskHistory, AskAnswer, AppendRead, AppendWrite
<1>7. CASE \/ \E u \in Owners, p \in Projects: CreateProject(u, p) \/ ArchiveProject(u, p)
           \/ \E u \in Owners, p \in Projects, r \in WRuns: CreateProjectRun(u, p, r)
           \/ WorkspaceCrash \/ UNCHANGED workspaceVars
  BY <1>1, <1>7 DEF CreateProject, ArchiveProject, CreateProjectRun, WorkspaceCrash, workspaceVars
<1>8. QED BY <1>2, <1>3, <1>4, <1>5, <1>6, <1>7, TickKeeps DEF WorkspaceNext

---------------------------------------------------------------------------
(* Interview threads.                                                      *)

\* The number after the last one.
LEMMA NextNumber ==
  ASSUME rows \subseteq Row, \A m \in rows: m.ordinal <= MaxOrdinal, NEW t
  PROVE  /\ NextOrdinal(t) \in Ordinals
         /\ \A m \in RowsOf(t): m.ordinal \in Nat /\ m.ordinal < NextOrdinal(t)
         /\ RowsOf(t) /= {} => \E m \in RowsOf(t): m.ordinal = NextOrdinal(t) - 1
         /\ RowsOf(t) = {} => NextOrdinal(t) = 0
<1>1. MaxOrdinal \in Nat
  BY WorkspaceConstants
<1>2. \A m \in RowsOf(t): m \in rows /\ m.ordinal \in Nat /\ m.ordinal <= MaxOrdinal
  BY <1>1 DEF RowsOf, Row, Ordinals
<1>3. CASE RowsOf(t) = {}
  BY <1>1, <1>3 DEF NextOrdinal, Ordinals
<1>4. CASE RowsOf(t) /= {}
  <2> DEFINE D == {MaxOrdinal - m.ordinal: m \in RowsOf(t)}
             P(n) == /\ \E m \in RowsOf(t): m.ordinal = n
                     /\ \A m \in RowsOf(t): m.ordinal <= n
             top == CHOOSE n \in Ordinals: P(n)
  <2>1. D \subseteq Nat /\ D /= {}
    BY <1>1, <1>2, <1>4
  <2>2. PICK x \in D: \A y \in D: x <= y
    BY <2>1, LeastNatural
  <2>3. PICK m \in RowsOf(t): x = MaxOrdinal - m.ordinal
    BY <2>2
  <2>4. \A n \in RowsOf(t): n.ordinal <= m.ordinal
    <3>1. ASSUME NEW n \in RowsOf(t) PROVE n.ordinal <= m.ordinal
      <4>1. x <= MaxOrdinal - n.ordinal
        BY <2>2
      <4>2. QED BY <1>1, <1>2, <2>3, <4>1
    <3>2. QED BY <3>1
  <2>5. P(m.ordinal) /\ m.ordinal \in Ordinals
    BY <1>1, <1>2, <2>4 DEF Ordinals
  <2>6. P(top) /\ top \in Ordinals
    <3> HIDE DEF P
    <3>1. QED BY <2>5
  <2>7. NextOrdinal(t) = 1 + top
    BY <1>4 DEF NextOrdinal
  <2> HIDE DEF top
  <2>8. top <= MaxOrdinal /\ top \in Nat
    BY <1>2, <2>6
  <2>9. \A n \in RowsOf(t): n.ordinal < 1 + top
    BY <1>2, <2>6, <2>8
  <2>10. \E n \in RowsOf(t): n.ordinal = (1 + top) - 1
    BY <2>6, <2>8
  <2>11. 1 + top \in Ordinals
    BY <1>1, <2>8 DEF Ordinals
  <2>12. QED BY <1>2, <1>4, <2>7, <2>9, <2>10, <2>11
<1>5. QED BY <1>3, <1>4

\* An exchange written at the first free number of a thread.
LEMMA ExchangeWritten ==
  ASSUME NEW R, R \subseteq Row, Numbered(R), Paired(R), Known(R),
         NEW q \in Row, NEW a \in Row,
         q.role = "user", a.role = "assistant", a.by = q.by, a.ordinal = q.ordinal + 1,
         \A m \in R: m.ordinal /= q.ordinal,
         \A o \in 0..(q.ordinal - 1): \E m \in R: m.ordinal = o,
         \A m \in R: m.by = q.by => m.ordinal < q.seen
  PROVE  Numbered(R \cup {q, a}) /\ Paired(R \cup {q, a}) /\ Known(R \cup {q, a})
<1>1. /\ q.ordinal \in Nat /\ a.ordinal \in Nat /\ q.seen \in Nat
      /\ \A m \in R: m.ordinal \in Nat
  BY WorkspaceConstants DEF Row, Ordinals
<1>2. \A m \in R: m.ordinal < q.ordinal
  <2>1. ASSUME NEW m \in R, q.ordinal <= m.ordinal PROVE FALSE
    <3>1. q.ordinal \in 0..m.ordinal
      BY <1>1, <2>1
    <3>2. \E n \in R: n.ordinal = q.ordinal
      BY <3>1 DEF Numbered
    <3>3. QED BY <3>2
  <2>2. QED BY <1>1, <2>1
<1>3. Numbered(R \cup {q, a})
  <2>1. ASSUME NEW m \in R \cup {q, a}, NEW n \in R \cup {q, a}, m.ordinal = n.ordinal
        PROVE  m = n
    <3>1. CASE m \in R /\ n \in R
      BY <2>1, <3>1 DEF Numbered
    <3>2. CASE m \notin R \/ n \notin R
      BY <1>1, <1>2, <2>1, <3>2
    <3>3. QED BY <3>1, <3>2
  <2>2. ASSUME NEW m \in R \cup {q, a}, NEW o \in 0..m.ordinal
        PROVE  \E n \in R \cup {q, a}: n.ordinal = o
    <3>1. CASE m \in R
      <4>1. \E n \in R: n.ordinal = o
        BY <2>2, <3>1 DEF Numbered
      <4>2. QED BY <4>1
    <3>2. CASE m \notin R
      <4>1. o \in 0..(q.ordinal - 1) \/ o = q.ordinal \/ o = a.ordinal
        BY <1>1, <2>2, <3>2
      <4>2. CASE o \in 0..(q.ordinal - 1)
        <5>1. \E n \in R: n.ordinal = o
          BY <4>2
        <5>2. QED BY <5>1
      <4>3. QED BY <4>1, <4>2
    <3>3. QED BY <3>1, <3>2
  <2>3. QED BY <2>1, <2>2 DEF Numbered
<1>4. Paired(R \cup {q, a})
  <2>1. ASSUME NEW m \in R \cup {q, a}, m.role = "user"
        PROVE  \E n \in R \cup {q, a}: n.role = "assistant" /\ n.by = m.by /\ n.ordinal = m.ordinal + 1
    <3>1. CASE m \in R
      <4>1. \E n \in R: n.role = "assistant" /\ n.by = m.by /\ n.ordinal = m.ordinal + 1
        BY <2>1, <3>1 DEF Paired
      <4>2. QED BY <4>1
    <3>2. CASE m \notin R
      BY <2>1, <3>2
    <3>3. QED BY <3>1, <3>2
  <2>2. QED BY <2>1 DEF Paired
<1>5. Known(R \cup {q, a})
  <2>1. ASSUME NEW m \in R \cup {q, a}, NEW n \in R \cup {q, a},
               m.by = n.by, m.role = "assistant", n.role = "user", m.ordinal < n.ordinal
        PROVE  m.ordinal < n.seen
    <3>1. CASE m \in R /\ n \in R
      BY <2>1, <3>1 DEF Known
    <3>2. CASE m \in R /\ n \notin R
      BY <2>1, <3>2
    <3>3. CASE m \notin R
      BY <1>1, <1>2, <2>1, <3>3
    <3>4. QED BY <3>1, <3>2, <3>3
  <2>2. QED BY <2>1 DEF Known
<1>6. QED BY <1>3, <1>4, <1>5

\* Messages numbered without a gap or a duplicate: as many as numbers.
LEMMA NumberedWhole ==
  ASSUME rows \subseteq Row, \A m \in rows: m.ordinal <= MaxOrdinal, NEW t, Numbered(RowsOf(t))
  PROVE  {m.ordinal: m \in RowsOf(t)} = 0..(Cardinality(RowsOf(t)) - 1)
<1> DEFINE R == RowsOf(t)
           n == NextOrdinal(t)
           f == [m \in R |-> m.ordinal]
<1>1. /\ n \in Nat
      /\ \A m \in R: m.ordinal \in Nat /\ m.ordinal < n
      /\ R /= {} => \E m \in R: m.ordinal = n - 1
      /\ R = {} => n = 0
  BY NextNumber, WorkspaceConstants DEF Ordinals
<1> HIDE DEF n
<1>2. \A o \in 0..(n - 1): \E m \in R: m.ordinal = o
  <2>1. CASE R = {}
    BY <1>1, <2>1
  <2>2. CASE R /= {}
    <3>1. PICK m \in R: m.ordinal = n - 1
      BY <1>1, <2>2
    <3>2. \A o \in 0..m.ordinal: \E k \in R: k.ordinal = o
      BY DEF Numbered
    <3>3. QED BY <3>1, <3>2
  <2>3. QED BY <2>1, <2>2
<1>3. f \in [R -> 0..(n - 1)]
  BY <1>1
<1>4. f \in Injection(R, 0..(n - 1))
  <2>1. \A m, k \in R: f[m] = f[k] => m = k
    BY DEF Numbered
  <2>2. QED BY <1>3, <2>1 DEF Injection, IsInjective
<1>5. f \in Surjection(R, 0..(n - 1))
  BY <1>2, <1>3 DEF Surjection
<1>6. IsFiniteSet(0..(n - 1)) /\ Cardinality(0..(n - 1)) = n
  BY <1>1, FS_Interval
<1> HIDE DEF f
<1>7. Cardinality(R) = n
  BY <1>4, <1>5, <1>6, FS_Injection
<1> HIDE DEF R
<1>8. {m.ordinal: m \in R} = 0..(n - 1)
  BY <1>1, <1>2
<1>9. QED BY <1>7, <1>8 DEF R

\* The types of everything but the books.
WorkspaceTypes ==
    /\ projects \in [Projects -> [state: {"absent", "live", "archived"}, owner: Owners]]
    /\ wruns \in [WRuns -> [state: {"absent", "active", "ready", "gone"}, owner: Owners,
                            project: Projects, linked: BOOLEAN]]
    /\ linking \subseteq WRuns /\ Cardinality(linking) <= 1
    /\ threads \subseteq Threads /\ late \subseteq Threads
    /\ rows \subseteq Row
    /\ turns \in [Askers -> Turn]

\* The types, with and without the bound on the books.
LEMMA WorkspaceTypesOK == AllowanceInv /\ WorkspaceTypes <=> WorkspaceTypeOK /\ AllowanceKept
BY AllowanceBooks DEF WorkspaceTypes, WorkspaceTypeOK

\* A run, a turn: what a step puts in their places keeps their types.
LEMMA TypedChanges ==
  ASSUME WorkspaceTypes
  PROVE  /\ \A k \in Askers: turns[k] \in Turn
         /\ \A k \in Askers, turn \in Turn: Move(k, turn) => turns' \in [Askers -> Turn]
BY DEF WorkspaceTypes, Move

\* Removing threads and their messages leaves threads and messages.
LEMMA RemovedTypes ==
  ASSUME WorkspaceTypes, NEW runs, WithoutInterviews(runs)
  PROVE  threads' \subseteq Threads /\ rows' \subseteq Row
BY DEF WorkspaceTypes, WithoutInterviews

\* The tables begin empty.
LEMMA WorkspaceInitTypes == WorkspaceInit => WorkspaceTypes
<1> SUFFICES ASSUME WorkspaceInit PROVE WorkspaceTypes
  OBVIOUS
<1>1. Cardinality({}) = 0
  BY FS_EmptySet
<1>2. \A k \in Askers: turns[k] = IdleTurn
  BY DEF WorkspaceInit
<1>3. turns \in [Askers -> Turn]
  BY WorkspacePlaceholders DEF WorkspaceInit
<1>4. QED BY <1>1, <1>3, WorkspacePlaceholders DEF WorkspaceInit, WorkspaceTypes

\* Every store call keeps the types of the tables.
LEMMA WorkspaceNextTypes ==
  ASSUME WorkspaceTypes, ThreadsInv, [WorkspaceNext]_workspaceVars
  PROVE  WorkspaceTypes'
<1> USE DEF WorkspaceTypes
<1>1. ASSUME NEW u \in Owners, NEW p \in Projects, CreateProject(u, p) \/ ArchiveProject(u, p)
      PROVE  WorkspaceTypes'
  BY <1>1 DEF CreateProject, ArchiveProject
<1>2. ASSUME NEW u \in Owners, NEW p \in Projects, NEW r \in WRuns, CreateProjectRun(u, p, r)
      PROVE  WorkspaceTypes'
  <2>1. Cardinality({r}) = 1
    BY FS_Singleton, Zenon
  <2>2. QED BY <1>2, <2>1 DEF CreateProjectRun
<1>3. ASSUME NEW r \in WRuns, AttachProjectRun(r) PROVE WorkspaceTypes'
  <2>1. Cardinality({}) <= 1
    BY FS_EmptySet
  <2>2. QED BY <1>3, <2>1 DEF AttachProjectRun
<1>4. ASSUME NEW r \in WRuns, FinishRun(r) PROVE WorkspaceTypes'
  BY <1>4 DEF FinishRun
<1>5. ASSUME NEW r \in WRuns, PruneRun(r) PROVE WorkspaceTypes'
  <2>1. threads' \subseteq Threads /\ rows' \subseteq Row
    BY <1>5, RemovedTypes DEF PruneRun
  <2>2. QED BY <1>5, <2>1 DEF PruneRun
<1>6. ASSUME NEW u \in Owners, DeleteOwner(u) PROVE WorkspaceTypes'
  <2> DEFINE mine == {r \in WRuns: wruns[r].owner = u /\ Exists(r)}
  <2>1. WithoutInterviews(mine)
    BY <1>6 DEF DeleteOwner
  <2> HIDE DEF mine
  <2>2. threads' \subseteq Threads /\ rows' \subseteq Row
    BY <2>1, RemovedTypes
  <2>3. wruns' = [r \in WRuns |-> IF r \in mine THEN [wruns[r] EXCEPT !.state = "gone"] ELSE wruns[r]]
    BY <1>6 DEF DeleteOwner, mine
  <2>4. \A r \in WRuns: wruns'[r] \in [state: {"absent", "active", "ready", "gone"}, owner: Owners,
                                       project: Projects, linked: BOOLEAN]
    BY <2>3
  <2>5. wruns' \in [WRuns -> [state: {"absent", "active", "ready", "gone"}, owner: Owners,
                              project: Projects, linked: BOOLEAN]]
    BY <2>3, <2>4
  <2>6. QED BY <1>6, <2>2, <2>5 DEF DeleteOwner
<1>7. ASSUME NEW k \in Askers, NEW u \in Owners, NEW t \in Threads, Enter(k, u, t)
      PROVE  WorkspaceTypes'
  <2>1. PICK request \in Requests: Move(k, [IdleTurn EXCEPT !.step = request, !.owner = u, !.thread = t])
    BY <1>7 DEF Enter
  <2>2. [IdleTurn EXCEPT !.step = request, !.owner = u, !.thread = t] \in Turn
    BY WorkspacePlaceholders DEF Turn
  <2>3. turns' \in [Askers -> Turn]
    BY <2>1, <2>2, TypedChanges
  <2>4. QED BY <1>7, <2>3 DEF Enter
<1>8. ASSUME NEW k \in Askers, AskFollowup(k) \/ AskPay(k) PROVE WorkspaceTypes'
  <2>1. [turns[k] EXCEPT !.step = "paid"] \in Turn /\ IdleTurn \in Turn
    BY WorkspacePlaceholders DEF Turn
  <2>2. turns' \in [Askers -> Turn]
    BY <1>8, <2>1, TypedChanges DEF AskFollowup, AskPay, Consume
  <2>3. QED BY <1>8, <2>2 DEF AskFollowup, AskPay
<1>9. ASSUME NEW k \in Askers, ShowSubject(k) \/ OpenThread(k) PROVE WorkspaceTypes'
  <2>1. [turns[k] EXCEPT !.step = "shown"] \in Turn /\ IdleTurn \in Turn /\ turns[k].thread \in Threads
    BY WorkspacePlaceholders DEF Turn
  <2>2. turns' \in [Askers -> Turn]
    BY <1>9, <2>1, TypedChanges DEF ShowSubject, OpenThread
  <2>3. CASE ShowSubject(k)
    BY <2>2, <2>3 DEF ShowSubject
  <2>4. CASE OpenThread(k)
    <3>1. threads' \subseteq Threads /\ late' \subseteq Threads
      BY <2>1, <2>4 DEF OpenThread
    <3>2. QED BY <2>2, <2>4, <3>1 DEF OpenThread
  <2>5. QED BY <1>9, <2>3, <2>4
<1>10. ASSUME NEW k \in Askers,
              AskFind(k) \/ AskHistory(k) \/ AskAnswer(k) \/ AppendRead(k) \/ AppendWrite(k)
       PROVE  WorkspaceTypes'
  <2>1. turns[k] \in Turn /\ turns[k].thread \in Threads /\ turns[k].seen \in Ordinals
        /\ turns[k].ordinal \in Ordinals
    BY DEF Turn
  <2>2. \A t: NextOrdinal(t) \in Ordinals
    BY NextNumber DEF ThreadsInv, StoredInv
  <2>3. CASE AskFind(k)
    <3>1. [turns[k] EXCEPT !.step = "found"] \in Turn /\ IdleTurn \in Turn
      BY <2>1, WorkspacePlaceholders DEF Turn
    <3>2. turns' \in [Askers -> Turn]
      BY <2>3, <3>1, TypedChanges DEF AskFind
    <3>3. QED BY <2>3, <3>2 DEF AskFind
  <2>4. CASE AskHistory(k)
    <3>1. [turns[k] EXCEPT !.step = "asked", !.seen = History(turns[k].thread)] \in Turn
      BY <2>1, <2>2 DEF Turn, History
    <3>2. turns' \in [Askers -> Turn]
      BY <2>4, <3>1, TypedChanges DEF AskHistory
    <3>3. QED BY <2>4, <3>2 DEF AskHistory
  <2>5. CASE AskAnswer(k)
    <3>1. [turns[k] EXCEPT !.step = "answered"] \in Turn /\ IdleTurn \in Turn
      BY <2>1, WorkspacePlaceholders DEF Turn
    <3>2. turns' \in [Askers -> Turn]
      BY <2>5, <3>1, TypedChanges DEF AskAnswer
    <3>3. QED BY <2>5, <3>2 DEF AskAnswer
  <2>6. CASE AppendRead(k)
    <3>1. [turns[k] EXCEPT !.step = "numbered", !.ordinal = NextOrdinal(turns[k].thread)] \in Turn
          /\ IdleTurn \in Turn
      BY <2>1, <2>2, WorkspacePlaceholders DEF Turn
    <3>2. turns' \in [Askers -> Turn]
      BY <2>6, <3>1, TypedChanges DEF AppendRead
    <3>3. QED BY <2>6, <3>2 DEF AppendRead
  <2>7. CASE AppendWrite(k)
    <3>1. turns' \in [Askers -> Turn]
      BY <2>7, TypedChanges, WorkspacePlaceholders DEF AppendWrite
    <3>2. turns[k].ordinal < MaxOrdinal
      BY <2>7 DEF AppendWrite, ThreadsInv, TurnInv
    <3>3. turns[k].ordinal + 1 \in Ordinals
      BY <2>1, <3>2, WorkspaceConstants DEF Ordinals
    <3>4. Message(k, "user", turns[k].ordinal) \in Row
          /\ Message(k, "assistant", turns[k].ordinal + 1) \in Row
      BY <2>1, <3>3 DEF Message, Row
    <3>5. rows' \subseteq Row
      BY <2>7, <3>4 DEF AppendWrite
    <3>6. QED BY <2>7, <3>1, <3>5 DEF AppendWrite
  <2>8. QED BY <1>10, <2>3, <2>4, <2>5, <2>6, <2>7
<1>11. CASE WorkspaceCrash
  <2>1. Cardinality({}) <= 1
    BY FS_EmptySet
  <2>2. [k \in Askers |-> IdleTurn] \in [Askers -> Turn]
    BY WorkspacePlaceholders
  <2>3. QED BY <1>11, <2>1, <2>2 DEF WorkspaceCrash
<1>12. CASE WorkspaceTick \/ UNCHANGED workspaceVars
  BY <1>12 DEF WorkspaceTick, workspaceVars
<1>13. QED BY <1>1, <1>2, <1>3, <1>4, <1>5, <1>6, <1>7, <1>8, <1>9, <1>10, <1>11, <1>12
           DEF WorkspaceNext

\* No thread has a row at first.
LEMMA WorkspaceInitThreads == WorkspaceInit => ThreadsInv
<1> SUFFICES ASSUME WorkspaceInit PROVE ThreadsInv
  OBVIOUS
<1>1. \A k \in Askers: turns[k].step = "idle"
  BY WorkspacePlaceholders DEF WorkspaceInit
<1>2. \A k \in Askers: TurnInv(k)
  BY <1>1 DEF TurnInv
<1>3. threads = {} /\ late = {} /\ rows = {}
  BY DEF WorkspaceInit
<1>4. QED BY <1>2, <1>3 DEF ThreadsInv, StoredInv

\* The steps of a turn that relies on nothing it has read.
Unbound == Requests \cup {"idle", "paid"}

\* Runs that have a result, or are gone, stay so.
RunsStay == \A r \in WRuns: wruns[r].state \in {"ready", "gone"} => wruns'[r].state = wruns[r].state

\* A step that leaves threads and messages, and the runs that were finished.
LEMMA StoredStay ==
  ASSUME WorkspaceTypes, ThreadsInv, threads' = threads, late' = late, rows' = rows, RunsStay
  PROVE  /\ StoredInv'
         /\ \A k \in Askers: turns'[k] = turns[k] \/ turns'[k].step \in Unbound => TurnInv(k)'
<1>1. \A t \in threads: t[1] \in WRuns
  BY DEF WorkspaceTypes, Threads
<1>2. \A m \in rows: m.thread[1] \in WRuns
  BY DEF WorkspaceTypes, Row, Threads
<1>3. \A k \in Askers: turns[k].thread[1] \in WRuns
  BY DEF WorkspaceTypes, Turn, Threads
<1>4. \A t \in threads': wruns'[t[1]].state = "ready"
  BY <1>1 DEF RunsStay, ThreadsInv, StoredInv
<1>5. \A t \in threads': Numbered(RowsOf(t))' /\ Paired(RowsOf(t))' /\ Known(RowsOf(t))'
  BY DEF ThreadsInv, StoredInv, RowsOf, Numbered, Paired, Known
<1>6. \A m \in rows': m.thread \notin threads' => m.stray /\ wruns'[m.thread[1]].state = "gone"
  BY <1>2 DEF RunsStay, ThreadsInv, StoredInv, Gone
<1>7. StoredInv'
  <2>1. \A t \in late': wruns'[t[1]].state = "gone"
    BY DEF RunsStay, ThreadsInv, StoredInv, Gone, WorkspaceTypes, Threads
  <2>2. QED BY <1>4, <1>5, <1>6, <2>1 DEF StoredInv, ThreadsInv, Gone
<1>8. ASSUME NEW k \in Askers, turns'[k].step \in Unbound PROVE TurnInv(k)'
  BY <1>8 DEF TurnInv, Unbound, Requests
<1>9. ASSUME NEW k \in Askers, turns'[k] = turns[k] PROVE TurnInv(k)'
  <2>1. TurnInv(k)
    BY DEF ThreadsInv
  <2>2. /\ Gone(turns[k].thread) => wruns'[turns'[k].thread[1]].state = "gone"
        /\ wruns[turns[k].thread[1]].state \in {"ready", "gone"} =>
             wruns'[turns'[k].thread[1]].state \in {"ready", "gone"}
    BY <1>3, <1>9 DEF Gone, RunsStay
  <2>3. QED BY <1>9, <2>1, <2>2 DEF TurnInv, Gone, RowsOf
<1>10. QED BY <1>7, <1>8, <1>9

\* Turns that stay or end, beside a step of one of them.
LEMMA OtherTurns ==
  ASSUME WorkspaceTypes, NEW k \in Askers, NEW turn, Move(k, turn)
  PROVE  turns'[k] = turn /\ \A o \in Askers \ {k}: turns'[o] = turns[o]
BY DEF WorkspaceTypes, Move

\* Removing finished runs takes their threads and messages along.
LEMMA RunsRemoved ==
  ASSUME WorkspaceTypes, ThreadsInv, NEW runs, WithoutInterviews(runs), turns' = turns,
         late' \subseteq late,
         \A r \in WRuns: wruns'[r].state = IF r \in runs THEN "gone" ELSE wruns[r].state
  PROVE  ThreadsInv'
<1>1. \A t \in threads: t[1] \in WRuns
  BY DEF WorkspaceTypes, Threads
<1>2. \A m \in rows: m.thread[1] \in WRuns
  BY DEF WorkspaceTypes, Row, Threads
<1>3. \A k \in Askers: turns[k].thread[1] \in WRuns
  BY DEF WorkspaceTypes, Turn, Threads
<1>4. /\ threads' = {t \in threads: t[1] \notin runs}
      /\ rows' = {m \in rows: ~(m.thread[1] \in runs /\ m.thread \in threads)}
  BY DEF WithoutInterviews
<1>5. ASSUME NEW t \in threads' PROVE {m \in rows': m.thread = t} = RowsOf(t)
  BY <1>4, <1>5 DEF RowsOf
<1>6. \A t \in threads': wruns'[t[1]].state = "ready"
  BY <1>1, <1>4 DEF ThreadsInv, StoredInv
<1>7. ASSUME NEW t \in threads' PROVE Numbered(RowsOf(t))' /\ Paired(RowsOf(t))' /\ Known(RowsOf(t))'
  <2>1. t \in threads
    BY <1>4
  <2>2. Numbered(RowsOf(t)) /\ Paired(RowsOf(t)) /\ Known(RowsOf(t))
    BY <2>1 DEF ThreadsInv, StoredInv
  <2>3. QED BY <1>5, <2>2 DEF RowsOf, Numbered, Paired, Known
<1>8. \A m \in rows': m.thread \notin threads' => m.stray /\ wruns'[m.thread[1]].state = "gone"
  BY <1>2, <1>4 DEF ThreadsInv, StoredInv, Gone
<1>9. StoredInv'
  <2>1. \A t \in late': wruns'[t[1]].state = "gone"
    BY DEF ThreadsInv, StoredInv, Gone, WorkspaceTypes, Threads
  <2>2. QED BY <1>4, <1>6, <1>7, <1>8, <2>1 DEF StoredInv, ThreadsInv, Gone
<1>10. ASSUME NEW k \in Askers PROVE TurnInv(k)'
  <2>1. TurnInv(k) /\ turns'[k] = turns[k]
    BY DEF ThreadsInv
  <2>2. turns[k].thread \in threads \/ Gone(turns[k].thread) =>
          turns[k].thread \in threads' \/ wruns'[turns[k].thread[1]].state = "gone"
    BY <1>3, <1>4 DEF Gone
  <2>3. turns[k].thread \in threads' =>
          turns[k].thread \in threads /\ {m \in rows': m.thread = turns[k].thread} = RowsOf(turns[k].thread)
    BY <1>4, <1>5
  <2>4. wruns[turns[k].thread[1]].state \in {"ready", "gone"} =>
          wruns'[turns[k].thread[1]].state \in {"ready", "gone"}
    BY <1>3
  <2>5. QED BY <2>1, <2>2, <2>3, <2>4 DEF TurnInv, Gone, RowsOf
<1>11. QED BY <1>9, <1>10 DEF ThreadsInv

\* A turn that begins, pays or looks at the result touches neither threads nor messages.
LEMMA TurnBegun ==
  ASSUME WorkspaceTypes, ThreadsInv, NEW k \in Askers, NEW turn, Move(k, turn),
         threads' = threads, late' = late, rows' = rows, wruns' = wruns,
         \/ turn.step \in Unbound
         \/ turn.step = "shown" /\ wruns[turn.thread[1]].state = "ready"
  PROVE  ThreadsInv'
<1>1. turns'[k] = turn /\ \A o \in Askers \ {k}: turns'[o] = turns[o]
  BY OtherTurns
<1>2. /\ StoredInv'
      /\ \A o \in Askers: turns'[o] = turns[o] \/ turns'[o].step \in Unbound => TurnInv(o)'
  BY StoredStay DEF RunsStay
<1>3. turns'[k].step = "shown" /\ wruns'[turns'[k].thread[1]].state = "ready" => TurnInv(k)'
  BY DEF TurnInv
<1>4. QED BY <1>1, <1>2, <1>3 DEF ThreadsInv

\* A thread that is opened has no messages yet, and no turn has found it before; one
\* whose run was removed meanwhile is found by nobody.
LEMMA ThreadOpened ==
  ASSUME WorkspaceTypes, ThreadsInv, NEW k \in Askers, OpenThread(k)
  PROVE  ThreadsInv'
<1> DEFINE t == turns[k].thread
<1>1. /\ wruns[t[1]].state \in {"ready", "gone"} /\ turns[k].step = "shown"
      /\ rows' = rows /\ wruns' = wruns /\ t \in Threads
      /\ turns'[k] = IdleTurn /\ \A o \in Askers \ {k}: turns'[o] = turns[o]
  BY OtherTurns DEF OpenThread, ThreadsInv, TurnInv, WorkspaceTypes, Turn
<1>2. CASE wruns[t[1]].state = "ready"
  <2>1. threads' = threads \cup {t} /\ late' = late
    BY <1>2 DEF OpenThread, Exists
  <2>2. t \notin threads => RowsOf(t) = {}
    BY <1>2 DEF ThreadsInv, StoredInv, RowsOf, Gone
  <2>3. ASSUME NEW o \in threads' PROVE Numbered(RowsOf(o)) /\ Paired(RowsOf(o)) /\ Known(RowsOf(o))
    <3>1. CASE o \in threads
      BY <3>1 DEF ThreadsInv, StoredInv
    <3>2. CASE o \notin threads
      <4>1. RowsOf(o) = {}
        BY <2>1, <2>2, <3>2
      <4>2. QED BY <4>1 DEF Numbered, Paired, Known
    <3>3. QED BY <3>1, <3>2
  <2>4. \A o \in threads': Numbered(RowsOf(o))' /\ Paired(RowsOf(o))' /\ Known(RowsOf(o))'
    BY <1>1, <2>3 DEF RowsOf, Numbered, Paired, Known
  <2>5. StoredInv'
    BY <1>1, <1>2, <2>1, <2>4 DEF ThreadsInv, StoredInv, Gone
  <2>6. ASSUME NEW o \in Askers \ {k} PROVE TurnInv(o)'
    <3>1. TurnInv(o)
      BY DEF ThreadsInv
    <3>2. turns[o].step \in {"found", "asked", "answered", "numbered"} /\ turns[o].thread \in threads' =>
            turns[o].thread \in threads
      BY <1>2, <2>1, <3>1 DEF TurnInv, Gone
    <3>3. threads \subseteq threads'
      BY <2>1
    <3>4. QED BY <1>1, <3>1, <3>2, <3>3 DEF TurnInv, Gone, RowsOf
  <2>7. TurnInv(k)'
    BY <1>1, WorkspacePlaceholders DEF TurnInv
  <2>8. QED BY <2>5, <2>6, <2>7 DEF ThreadsInv
<1>3. CASE wruns[t[1]].state = "gone"
  <2>1. threads' = threads /\ late' = late \cup {t}
    BY <1>3 DEF OpenThread, Exists
  <2>2. \A o \in threads': Numbered(RowsOf(o))' /\ Paired(RowsOf(o))' /\ Known(RowsOf(o))'
    BY <1>1, <2>1 DEF ThreadsInv, StoredInv, RowsOf, Numbered, Paired, Known
  <2>3. StoredInv'
    BY <1>1, <1>3, <2>1, <2>2 DEF ThreadsInv, StoredInv, Gone
  <2>4. \A o \in Askers \ {k}: TurnInv(o)'
    BY <1>1, <2>1 DEF ThreadsInv, TurnInv, Gone, RowsOf
  <2>5. TurnInv(k)'
    BY <1>1, WorkspacePlaceholders DEF TurnInv
  <2>6. QED BY <2>3, <2>4, <2>5 DEF ThreadsInv
<1>4. QED BY <1>1, <1>2, <1>3

\* A turn that looks, is answered or is numbered.
LEMMA TurnMoved ==
  ASSUME WorkspaceTypes, ThreadsInv, NEW k \in Askers,
         AskFind(k) \/ AskHistory(k) \/ AskAnswer(k) \/ AppendRead(k)
  PROVE  ThreadsInv'
<1> DEFINE thread == turns[k].thread
<1>1. /\ threads' = threads /\ late' = late /\ rows' = rows /\ wruns' = wruns
  BY DEF AskFind, AskHistory, AskAnswer, AppendRead
<1>2. /\ StoredInv'
      /\ \A o \in Askers: turns'[o] = turns[o] \/ turns'[o].step \in Unbound => TurnInv(o)'
  BY <1>1, StoredStay DEF RunsStay
<1>3. \A o \in Askers \ {k}: turns'[o] = turns[o]
  BY OtherTurns DEF AskFind, AskHistory, AskAnswer, AppendRead
<1>4. turns[k] \in Turn /\ TurnInv(k)
  BY DEF WorkspaceTypes, ThreadsInv
<1>5. \A m \in RowsOf(thread): m.ordinal \in Nat /\ m.ordinal < NextOrdinal(thread)
  BY NextNumber DEF ThreadsInv, StoredInv, WorkspaceTypes
<1>6. TurnInv(k)'
  <2>1. CASE turns'[k] = IdleTurn
    BY <1>2, <2>1, WorkspacePlaceholders DEF Unbound
  <2>2. CASE turns'[k] /= IdleTurn /\ AskFind(k)
    <3>1. turns'[k] = [turns[k] EXCEPT !.step = "found"] /\ thread \in threads
      BY <2>2, OtherTurns DEF AskFind
    <3>2. turns'[k].step = "found" /\ turns'[k].thread = thread
      BY <1>4, <3>1 DEF Turn
    <3>3. QED BY <1>1, <3>1, <3>2 DEF TurnInv
  <2>3. CASE AskHistory(k)
    <3>1. turns[k].step = "found" /\ turns'[k] = [turns[k] EXCEPT !.step = "asked", !.seen = NextOrdinal(thread)]
      BY <2>3, OtherTurns DEF AskHistory, History
    <3>2. turns'[k].step = "asked" /\ turns'[k].thread = thread /\ turns'[k].seen = NextOrdinal(thread)
      BY <1>4, <3>1 DEF Turn
    <3>3. thread \in threads \/ Gone(thread)
      BY <1>4, <3>1 DEF TurnInv
    <3>4. QED BY <1>1, <1>5, <3>2, <3>3 DEF TurnInv, Gone, RowsOf
  <2>4. CASE turns'[k] /= IdleTurn /\ AskAnswer(k)
    <3>1. turns[k].step = "asked" /\ turns'[k] = [turns[k] EXCEPT !.step = "answered"]
      BY <2>4, OtherTurns DEF AskAnswer
    <3>2. turns'[k].step = "answered" /\ turns'[k].thread = thread /\ turns'[k].seen = turns[k].seen
      BY <1>4, <3>1 DEF Turn
    <3>3. QED BY <1>1, <1>4, <3>1, <3>2 DEF TurnInv, Gone, RowsOf
  <2>5. CASE turns'[k] /= IdleTurn /\ AppendRead(k)
    <3>1. /\ turns[k].step = "answered" /\ NextOrdinal(thread) < MaxOrdinal /\ thread \in threads
          /\ turns'[k] = [turns[k] EXCEPT !.step = "numbered", !.ordinal = NextOrdinal(thread)]
      BY <2>5, OtherTurns DEF AppendRead
    <3>2. /\ turns'[k].step = "numbered" /\ turns'[k].thread = thread
          /\ turns'[k].seen = turns[k].seen /\ turns'[k].ordinal = NextOrdinal(thread)
      BY <1>4, <3>1 DEF Turn
    <3>3. \A o \in 0..(NextOrdinal(thread) - 1): \E m \in RowsOf(thread): m.ordinal = o
      <4>1. CASE RowsOf(thread) = {}
        <5>1. NextOrdinal(thread) = 0
          BY <4>1, NextNumber DEF ThreadsInv, StoredInv, WorkspaceTypes
        <5>2. QED BY <5>1
      <4>2. CASE RowsOf(thread) /= {}
        <5>1. PICK m \in RowsOf(thread): m.ordinal = NextOrdinal(thread) - 1
          BY <4>2, NextNumber DEF ThreadsInv, StoredInv, WorkspaceTypes
        <5>2. Numbered(RowsOf(thread))
          BY <3>1 DEF ThreadsInv, StoredInv
        <5>3. QED BY <5>1, <5>2 DEF Numbered
      <4>3. QED BY <4>1, <4>2
    <3>4. \A m \in RowsOf(thread): m.by = k => m.ordinal < turns[k].seen
      BY <1>4, <3>1 DEF TurnInv
    <3>5. QED BY <1>1, <3>1, <3>2, <3>3, <3>4 DEF TurnInv, Gone, RowsOf
  <2>6. QED BY <2>1, <2>2, <2>3, <2>4, <2>5
<1>7. QED BY <1>2, <1>3, <1>6 DEF ThreadsInv

\* A turn that writes its exchange, unless its number is taken.
LEMMA ExchangeAppended ==
  ASSUME WorkspaceTypes, ThreadsInv, NEW k \in Askers, AppendWrite(k)
  PROVE  ThreadsInv'
<1> DEFINE turn == turns[k]
           thread == turns[k].thread
           q == Message(k, "user", turns[k].ordinal)
           a == Message(k, "assistant", turns[k].ordinal + 1)
<1>1. /\ turn.step = "numbered" /\ Move(k, IdleTurn)
      /\ threads' = threads /\ late' = late /\ wruns' = wruns
      /\ rows' = IF NumberFree(k) THEN rows \cup {q, a} ELSE rows
  BY DEF AppendWrite
<1>2. turns'[k] = IdleTurn /\ \A o \in Askers \ {k}: turns'[o] = turns[o]
  BY <1>1, OtherTurns
<1>3. /\ turn \in Turn /\ TurnInv(k) /\ turn.ordinal \in Nat /\ turn.seen \in Nat
      /\ turn.ordinal < MaxOrdinal /\ MaxOrdinal \in Nat
      /\ thread \in Threads
      /\ thread \in threads \/ Gone(thread)
      /\ thread \in threads => \A m \in RowsOf(thread): m.by = k => m.ordinal < turn.seen
      /\ thread \in threads => \A o \in 0..(turn.ordinal - 1): \E m \in RowsOf(thread): m.ordinal = o
  BY <1>1, WorkspaceConstants DEF WorkspaceTypes, ThreadsInv, TurnInv, Turn, Ordinals
<1>4. CASE ~NumberFree(k)
  <2>1. /\ StoredInv'
        /\ \A o \in Askers: turns'[o] = turns[o] \/ turns'[o].step \in Unbound => TurnInv(o)'
    BY <1>1, <1>4, StoredStay DEF RunsStay
  <2>2. QED BY <1>2, <2>1, WorkspacePlaceholders DEF ThreadsInv, Unbound
<1>5. CASE NumberFree(k)
  <2>1. rows' = rows \cup {q, a}
    BY <1>1, <1>5
  <2>2. /\ q.thread = thread /\ q.role = "user" /\ q.ordinal = turn.ordinal /\ q.by = k
        /\ q.seen = turn.seen /\ (thread \notin threads => q.stray)
        /\ a.thread = thread /\ a.role = "assistant" /\ a.ordinal = q.ordinal + 1 /\ a.by = q.by
        /\ (thread \notin threads => a.stray)
    BY DEF Message
  <2>3. turn.ordinal \in Ordinals /\ turn.ordinal + 1 \in Ordinals /\ turn.seen \in Ordinals
    BY <1>3 DEF Ordinals, Turn
  <2>4. q \in Row /\ a \in Row
    BY <1>3, <2>3 DEF Message, Row
  <2> HIDE DEF q, a
  <2>5. ASSUME NEW t, t /= thread PROVE {m \in rows': m.thread = t} = RowsOf(t)
    BY <2>1, <2>2, <2>5 DEF RowsOf
  <2>6. {m \in rows': m.thread = thread} = RowsOf(thread) \cup {q, a}
    BY <2>1, <2>2 DEF RowsOf
  <2>7. ASSUME thread \in threads
        PROVE  LET R == RowsOf(thread) \cup {q, a} IN Numbered(R) /\ Paired(R) /\ Known(R)
    <3>1. RowsOf(thread) \subseteq Row
      BY DEF RowsOf, WorkspaceTypes
    <3>2. Numbered(RowsOf(thread)) /\ Paired(RowsOf(thread)) /\ Known(RowsOf(thread))
      BY <2>7 DEF ThreadsInv, StoredInv
    <3>3. \A m \in RowsOf(thread): m.ordinal /= q.ordinal
      BY <1>5, <2>2 DEF NumberFree
    <3>4. \A o \in 0..(q.ordinal - 1): \E m \in RowsOf(thread): m.ordinal = o
      BY <1>3, <2>2, <2>7
    <3>5. \A m \in RowsOf(thread): m.by = q.by => m.ordinal < q.seen
      BY <1>3, <2>2, <2>7
    <3>6. QED BY <2>2, <2>4, <3>1, <3>2, <3>3, <3>4, <3>5, ExchangeWritten
  <2>8. ASSUME NEW t \in threads' PROVE Numbered(RowsOf(t))' /\ Paired(RowsOf(t))' /\ Known(RowsOf(t))'
    <3>1. t \in threads
      BY <1>1
    <3>2. CASE t = thread
      BY <2>6, <2>7, <3>1, <3>2 DEF RowsOf, Numbered, Paired, Known
    <3>3. CASE t /= thread
      <4>1. Numbered(RowsOf(t)) /\ Paired(RowsOf(t)) /\ Known(RowsOf(t))
        BY <3>1 DEF ThreadsInv, StoredInv
      <4>2. {m \in rows': m.thread = t} = RowsOf(t)
        BY <2>5, <3>3
      <4>3. QED BY <4>1, <4>2 DEF RowsOf, Numbered, Paired, Known
    <3>4. QED BY <3>2, <3>3
  <2>9. \A m \in rows': m.ordinal <= MaxOrdinal
    BY <1>3, <2>1, <2>2 DEF ThreadsInv, StoredInv
  <2>10. \A m \in rows': m.thread \notin threads' => m.stray /\ wruns'[m.thread[1]].state = "gone"
    BY <1>1, <1>3, <2>1, <2>2 DEF ThreadsInv, StoredInv, Gone
  <2>11. \A t \in threads': wruns'[t[1]].state = "ready"
    BY <1>1 DEF ThreadsInv, StoredInv
  <2>12. StoredInv'
    BY <1>1, <2>8, <2>9, <2>10, <2>11 DEF ThreadsInv, StoredInv, Gone
  <2>13. TurnInv(k)'
    BY <1>2, WorkspacePlaceholders DEF TurnInv
  <2>14. ASSUME NEW o \in Askers \ {k} PROVE TurnInv(o)'
    <3>1. TurnInv(o) /\ turns'[o] = turns[o]
      BY <1>2 DEF ThreadsInv
    <3> DEFINE mine == turns[o].thread
               after == {m \in rows': m.thread = mine}
    <3>2. RowsOf(mine) \subseteq after /\ \A m \in after: m.by = o => m \in RowsOf(mine)
      BY <2>1, <2>2 DEF RowsOf
    <3>3. turns[o].step \in {"asked", "answered", "numbered"} /\ mine \in threads =>
            \A m \in after: m.by = o => m.ordinal < turns[o].seen
      BY <3>1, <3>2 DEF TurnInv
    <3>4. turns[o].step = "numbered" /\ mine \in threads =>
            \A i \in 0..(turns[o].ordinal - 1): \E m \in after: m.ordinal = i
      BY <3>1, <3>2 DEF TurnInv
    <3>5. QED BY <1>1, <3>1, <3>3, <3>4 DEF TurnInv, Gone, RowsOf
  <2>15. QED BY <2>12, <2>13, <2>14 DEF ThreadsInv
<1>6. QED BY <1>4, <1>5

\* Every store call keeps threads consistent, whoever else is asking.
LEMMA WorkspaceNextThreads ==
  ASSUME WorkspaceTypes, ThreadsInv, [WorkspaceNext]_workspaceVars
  PROVE  ThreadsInv'
<1>1. CASE threads' = threads /\ late' = late /\ rows' = rows /\ RunsStay /\ turns' = turns
  BY <1>1, StoredStay DEF ThreadsInv
<1>2. ASSUME NEW u \in Owners, NEW p \in Projects, CreateProject(u, p) \/ ArchiveProject(u, p)
      PROVE  ThreadsInv'
  BY <1>1, <1>2 DEF CreateProject, ArchiveProject, RunsStay
<1>3. ASSUME NEW u \in Owners, NEW p \in Projects, NEW r \in WRuns, CreateProjectRun(u, p, r)
      PROVE  ThreadsInv'
  <2>1. RunsStay
    BY <1>3 DEF CreateProjectRun, RunsStay, WorkspaceTypes
  <2>2. QED BY <1>1, <1>3, <2>1 DEF CreateProjectRun
<1>4. ASSUME NEW r \in WRuns, AttachProjectRun(r) \/ FinishRun(r) PROVE ThreadsInv'
  <2>1. RunsStay
    BY <1>4 DEF AttachProjectRun, FinishRun, RunsStay, WorkspaceTypes
  <2>2. QED BY <1>1, <1>4, <2>1 DEF AttachProjectRun, FinishRun
<1>5. ASSUME NEW r \in WRuns, PruneRun(r) PROVE ThreadsInv'
  <2>1. \A q \in WRuns: wruns'[q].state = IF q \in {r} THEN "gone" ELSE wruns[q].state
    BY <1>5 DEF PruneRun, WorkspaceTypes
  <2>2. QED BY <1>5, <2>1, RunsRemoved DEF PruneRun
<1>6. ASSUME NEW u \in Owners, DeleteOwner(u) PROVE ThreadsInv'
  <2> DEFINE mine == {r \in WRuns: wruns[r].owner = u /\ Exists(r)}
  <2>1. /\ WithoutInterviews(mine) /\ turns' = turns /\ late' \subseteq late
        /\ wruns' = [r \in WRuns |-> IF r \in mine THEN [wruns[r] EXCEPT !.state = "gone"] ELSE wruns[r]]
    BY <1>6 DEF DeleteOwner
  <2> HIDE DEF mine
  <2>2. \A q \in WRuns: wruns'[q].state = IF q \in mine THEN "gone" ELSE wruns[q].state
    BY <2>1 DEF WorkspaceTypes
  <2>3. QED BY <2>1, <2>2, RunsRemoved
<1>7. ASSUME NEW k \in Askers, NEW u \in Owners, NEW t \in Threads, Enter(k, u, t)
      PROVE  ThreadsInv'
  <2>1. PICK request \in Requests: Move(k, [IdleTurn EXCEPT !.step = request, !.owner = u, !.thread = t])
    BY <1>7 DEF Enter
  <2>2. [IdleTurn EXCEPT !.step = request, !.owner = u, !.thread = t].step \in Unbound
    BY WorkspacePlaceholders DEF Turn, Unbound
  <2>3. QED BY <1>7, <2>1, <2>2, TurnBegun DEF Enter
<1>8. ASSUME NEW k \in Askers, AskFollowup(k) \/ AskPay(k) \/ ShowSubject(k) PROVE ThreadsInv'
  <2>1. /\ threads' = threads /\ late' = late /\ rows' = rows /\ wruns' = wruns
        /\ turns[k] \in Turn /\ IdleTurn.step \in Unbound
    BY <1>8, WorkspacePlaceholders DEF AskFollowup, AskPay, ShowSubject, WorkspaceTypes, Unbound
  <2>2. CASE Move(k, IdleTurn)
    BY <2>1, <2>2, TurnBegun
  <2>3. CASE Move(k, [turns[k] EXCEPT !.step = "paid"])
    <3>1. [turns[k] EXCEPT !.step = "paid"].step \in Unbound
      BY <2>1 DEF Turn, Unbound
    <3>2. QED BY <2>1, <2>3, <3>1, TurnBegun
  <2>4. CASE /\ Move(k, [turns[k] EXCEPT !.step = "shown"])
             /\ wruns[turns[k].thread[1]].state = "ready"
    <3>1. /\ [turns[k] EXCEPT !.step = "shown"].step = "shown"
          /\ [turns[k] EXCEPT !.step = "shown"].thread = turns[k].thread
      BY <2>1 DEF Turn
    <3>2. QED BY <2>1, <2>4, <3>1, TurnBegun
  <2>5. QED BY <1>8, <2>2, <2>3, <2>4 DEF AskFollowup, AskPay, ShowSubject, Consume
<1>9. CASE WorkspaceCrash
  <2>1. threads' = threads /\ late' = late /\ rows' = rows /\ RunsStay
    BY <1>9 DEF WorkspaceCrash, RunsStay
  <2>2. \A k \in Askers: turns'[k].step = "idle"
    BY <1>9, WorkspacePlaceholders DEF WorkspaceCrash
  <2>3. QED BY <2>1, <2>2, StoredStay DEF ThreadsInv, Unbound
<1>10. CASE WorkspaceTick \/ UNCHANGED workspaceVars
  BY <1>1, <1>10 DEF WorkspaceTick, workspaceVars, RunsStay
<1>11. QED BY <1>2, <1>3, <1>4, <1>5, <1>6, <1>7, <1>8, <1>9, <1>10,
               ThreadOpened, TurnMoved, ExchangeAppended DEF WorkspaceNext

\* The three invariants of the workspace at first.
LEMMA WorkspaceInitInv == WorkspaceInit => WorkspaceInv
BY AllowanceInitInv, WorkspaceInitTypes, WorkspaceInitThreads, WorkspaceTypesOK DEF WorkspaceInv

\* The three invariants of the workspace after a step.
LEMMA WorkspaceNextInv == WorkspaceInv /\ [WorkspaceNext]_workspaceVars => WorkspaceInv'
<1> SUFFICES ASSUME WorkspaceInv, [WorkspaceNext]_workspaceVars PROVE WorkspaceInv'
  OBVIOUS
<1>1. AllowanceInv /\ WorkspaceTypes /\ ThreadsInv
  BY WorkspaceTypesOK DEF WorkspaceInv
<1>2. AllowanceInv' /\ WorkspaceTypes' /\ ThreadsInv'
  <2>1. \A k \in Askers: turns[k].owner \in Owners
    BY <1>1 DEF WorkspaceTypes, Turn
  <2>2. QED BY <1>1, <2>1, AllowanceNextInv, WorkspaceNextTypes, WorkspaceNextThreads
<1>3. (AllowanceInv /\ WorkspaceTypes <=> WorkspaceTypeOK /\ AllowanceKept)'
  BY WorkspaceTypesOK, PTL
<1>4. QED BY <1>2, <1>3 DEF WorkspaceInv

\* In no hour does an account get more interactive actions of a type than its
\* allowance, for any limit, any length of the hour, and any number of accounts,
\* projects, interviews and pool threads that ask at once.
THEOREM AllowanceHolds == WorkspaceSpec => []AllowanceKept
<1>1. WorkspaceSpec => []WorkspaceInv
  BY WorkspaceInitInv, WorkspaceNextInv, PTL DEF WorkspaceSpec
<1>2. WorkspaceInv => AllowanceKept
  BY DEF WorkspaceInv
<1>3. QED BY <1>1, <1>2, PTL

\* A thread reads as one conversation, for any number of accounts, runs, subjects and
\* pool threads that ask, answer and write at once, whatever is deleted or pruned
\* under them and wherever the process dies.
THEOREM ThreadsRead == WorkspaceSpec => []ThreadsConsistent
<1>1. WorkspaceSpec => []WorkspaceInv
  BY WorkspaceInitInv, WorkspaceNextInv, PTL DEF WorkspaceSpec
<1>2. WorkspaceInv => ThreadsConsistent
  <2> SUFFICES ASSUME WorkspaceInv PROVE ThreadsConsistent
    OBVIOUS
  <2>1. WorkspaceTypes /\ ThreadsInv
    BY WorkspaceTypesOK DEF WorkspaceInv
  <2>2. ExchangesWhole
    <3>1. ASSUME NEW t \in threads
          PROVE  {m.ordinal: m \in RowsOf(t)} = 0..(Cardinality(RowsOf(t)) - 1)
      BY <2>1, NumberedWhole DEF WorkspaceTypes, ThreadsInv, StoredInv
    <3>2. QED BY <2>1, <3>1 DEF ExchangesWhole, ThreadsInv, StoredInv, Paired
  <2>3. KnowsOwnPast /\ OnlyStrayRowsOutlive
    BY <2>1 DEF KnowsOwnPast, OnlyStrayRowsOutlive, ThreadsInv, StoredInv, Known, Exists, Gone
  <2>4. QED BY <2>2, <2>3 DEF ThreadsConsistent
<1>3. QED BY <1>1, <1>2, PTL

---------------------------------------------------------------------------
(* The intake conversation.                                                *)

\* How many of the messages are the user's.
Said(messages) == Cardinality({i \in DOMAIN messages: messages[i] = "user"})

\* A message more: one more of the user's if it is the user's.
LEMMA SaidAppend ==
  ASSUME NEW s \in Seq(Written), NEW role \in Written
  PROVE  /\ Append(s, role) \in Seq(Written)
         /\ Said(s) \in Nat
         /\ Said(Append(s, role)) = IF role = "user" THEN Said(s) + 1 ELSE Said(s)
<1> DEFINE U(q) == {i \in DOMAIN q: q[i] = "user"}
           t == Append(s, role)
<1>1. /\ DOMAIN s = 1..Len(s) /\ Len(s) \in Nat
      /\ t \in Seq(Written) /\ DOMAIN t = 1..(Len(s) + 1)
      /\ \A i \in 1..Len(s): t[i] = s[i]
      /\ t[Len(s) + 1] = role
  OBVIOUS
<1>2. IsFiniteSet(U(s)) /\ Cardinality(U(s)) \in Nat
  <2>1. IsFiniteSet(1..Len(s))
    BY <1>1, FS_Interval
  <2>2. U(s) \in SUBSET (1..Len(s))
    BY <1>1
  <2>3. QED BY <2>1, <2>2, FS_Subset, FS_CardinalityType
<1>3. Len(s) + 1 \notin U(s)
  BY <1>1
<1> HIDE DEF t
<1>4. U(t) = IF role = "user" THEN U(s) \cup {Len(s) + 1} ELSE U(s)
  BY <1>1
<1> HIDE DEF U
<1>5. Cardinality(U(t)) = IF role = "user" THEN Cardinality(U(s)) + 1 ELSE Cardinality(U(s))
  BY <1>2, <1>3, <1>4, FS_AddElement
<1>6. Said(s) = Cardinality(U(s)) /\ Said(t) = Cardinality(U(t))
  BY DEF Said, U
<1>7. QED BY <1>1, <1>2, <1>5, <1>6 DEF t

\* A snapshot that counts its turns.
Counted == {s \in Snapshot: s.turnCount = Said(s.messages)}

\* The empty snapshot has answered nothing.
LEMMA EmptyCounted == EmptySnapshot \in Counted /\ EmptySnapshot.run = NoRun
<1>1. EmptySnapshot \in Snapshot
  BY DEF EmptySnapshot, Snapshot
<1>2. {i \in DOMAIN EmptySnapshot.messages: EmptySnapshot.messages[i] = "user"} = {}
  BY DEF EmptySnapshot
<1>3. Said(EmptySnapshot.messages) = 0
  BY <1>2, FS_EmptySet DEF Said
<1>4. QED BY <1>1, <1>3 DEF EmptySnapshot, Counted

\* Answering adds a message of the assistant and no turn.
LEMMA PlannedCounted == ASSUME NEW s \in Counted PROVE Planned(s) \in Counted
<1>1. s \in Snapshot /\ s.messages \in Seq(Written) /\ s.turnCount = Said(s.messages)
  BY DEF Counted, Snapshot
<1>2. /\ Append(s.messages, "assistant") \in Seq(Written)
      /\ Said(Append(s.messages, "assistant")) = Said(s.messages)
  BY <1>1, SaidAppend DEF Written, Roles
<1>3. Planned(s) \in Snapshot
  BY <1>1, <1>2 DEF Planned, Snapshot
<1>4. Planned(s).messages = Append(s.messages, "assistant") /\ Planned(s).turnCount = s.turnCount
  BY <1>1 DEF Planned, Snapshot
<1>5. QED BY <1>1, <1>2, <1>3, <1>4 DEF Counted

\* What the user types or sends as a form is one message and one turn.
LEMMA UserCounted ==
  ASSUME NEW s \in Counted, NEW a \in Answers, NEW f \in BOOLEAN
  PROVE  UserMessage(s, a) \in Counted /\ FormSubmit(s, f) \in Counted
<1>1. s \in Snapshot /\ s.messages \in Seq(Written) /\ s.turnCount = Said(s.messages)
  BY DEF Counted, Snapshot
<1>2. /\ Append(s.messages, "user") \in Seq(Written)
      /\ Said(Append(s.messages, "user")) = s.turnCount + 1
      /\ s.turnCount \in Nat
  BY <1>1, SaidAppend DEF Written, Roles
<1>3. UserMessage(s, a) \in Snapshot /\ FormSubmit(s, f) \in Snapshot
  <2>1. ASSUME NEW b \in BOOLEAN, NEW q \in Seq(Written), NEW n \in Nat
        PROVE  /\ [s EXCEPT !.framed = TRUE, !.slot = b, !.messages = q, !.turnCount = n] \in Snapshot
               /\ [s EXCEPT !.slot = b, !.messages = q, !.turnCount = n] \in Snapshot
    BY <1>1 DEF Snapshot
  <2>2. Append(s.messages, "user") \in Seq(Written) /\ s.turnCount + 1 \in Nat
    BY <1>2
  <2>3. (s.slot \/ a = "object") \in BOOLEAN /\ (s.slot \/ f) \in BOOLEAN
    OBVIOUS
  <2>4. QED BY <2>1, <2>2, <2>3, Zenon DEF UserMessage, FormSubmit
<1>4. /\ UserMessage(s, a).messages = Append(s.messages, "user")
      /\ UserMessage(s, a).turnCount = s.turnCount + 1
      /\ FormSubmit(s, f).messages = Append(s.messages, "user")
      /\ FormSubmit(s, f).turnCount = s.turnCount + 1
  BY <1>1 DEF UserMessage, FormSubmit, Snapshot
<1>5. QED BY <1>2, <1>3, <1>4 DEF Counted

\* What a client adds that nobody can read is no turn.
LEMMA HandEditCounted ==
  ASSUME NEW s \in Counted
  PROVE  [s EXCEPT !.messages = Append(@, "unusable")] \in Counted
<1> DEFINE r == [s EXCEPT !.messages = Append(@, "unusable")]
<1>1. s \in Snapshot /\ s.messages \in Seq(Written) /\ s.turnCount = Said(s.messages)
  BY DEF Counted, Snapshot
<1>2. /\ Append(s.messages, "unusable") \in Seq(Written)
      /\ Said(Append(s.messages, "unusable")) = Said(s.messages)
  BY <1>1, SaidAppend DEF Written
<1>3. r \in Snapshot
  BY <1>1, <1>2 DEF Snapshot
<1>4. r.messages = Append(s.messages, "unusable") /\ r.turnCount = s.turnCount
  BY <1>1 DEF Snapshot
<1>5. QED BY <1>1, <1>2, <1>3, <1>4 DEF Counted

\* A conversation starts with the greeting and no turn.
LEMMA StartedCounted ==
  InitialState \in Counted /\ \A s \in Counted: Started(s) \in Counted
<1>1. InitialState \in Snapshot
  <2>1. <<"assistant">> \in Seq(Written)
    BY DEF Written, Roles
  <2>2. QED BY <2>1 DEF InitialState, EmptySnapshot, Snapshot
<1>2. InitialState.messages = Append(<<>>, "assistant") /\ InitialState.turnCount = 0
  BY DEF InitialState, EmptySnapshot
<1>3. Said(<<>>) = 0
  BY EmptyCounted DEF Counted, EmptySnapshot
<1>4. Said(Append(<<>>, "assistant")) = 0
  <2>1. <<>> \in Seq(Written) /\ "assistant" \in Written
    BY DEF Written, Roles
  <2>2. QED BY <1>3, <2>1, SaidAppend
<1>5. QED BY <1>1, <1>2, <1>4 DEF Counted, Started

\* An advanced snapshot counts its messages.
LEMMA AdvancedCounted ==
  ASSUME NEW s \in Counted, NEW r \in Advanced(s) PROVE r \in Counted
<1>1. Started(s) \in Counted /\ InitialState \in Counted
  BY StartedCounted
<1>2. CASE r \in {Planned(InitialState), Planned(Started(s))}
  BY <1>1, <1>2, PlannedCounted
<1>3. CASE r \in {Planned(UserMessage(Started(s), a)): a \in Answers}
  <2>1. PICK a \in Answers: r = Planned(UserMessage(Started(s), a))
    BY <1>3
  <2>2. UserMessage(Started(s), a) \in Counted
    BY <1>1, UserCounted
  <2>3. QED BY <2>1, <2>2, PlannedCounted
<1>4. CASE r \in {Planned(FormSubmit(Started(s), f)): f \in BOOLEAN}
  <2>1. PICK f \in BOOLEAN: r = Planned(FormSubmit(Started(s), f))
    BY <1>4
  <2>2. FormSubmit(Started(s), f) \in Counted
    BY <1>1, UserCounted DEF Answers
  <2>3. QED BY <2>1, <2>2, PlannedCounted
<1>5. QED BY <1>2, <1>3, <1>4 DEF Advanced

\* The rows h list the messages q, but for those nobody could read.
Mirrors(h, q) ==
    /\ DOMAIN h = {i \in DOMAIN q: q[i] /= "unusable"}
    /\ \A i \in DOMAIN h: h[i] = q[i]

\* Such rows have a place and a role.
LEMMA MirrorTyped ==
  ASSUME NEW h, NEW q \in Seq(Written), Mirrors(h, q)
  PROVE  DOMAIN h \subseteq Nat /\ \A i \in DOMAIN h: h[i] \in Roles
<1>1. DOMAIN q \subseteq Nat /\ \A i \in DOMAIN q: q[i] \in Roles \cup {"unusable"}
  BY DEF Written
<1>2. QED BY <1>1 DEF Mirrors

\* The stored snapshot and every tab's copy count their turns; the rows are the
\* messages of the stored one.
IntakeInv ==
    /\ session \in Session
    /\ ~session.saved => session = NoSession /\ history = <<>>
    /\ tabs \in [Tabs -> [user: Callers, snapshot: Snapshot]]
    /\ Mirrors(history, session.snapshot.messages)
    /\ session.snapshot \in Counted
    /\ \A t \in Tabs: tabs[t].snapshot \in Counted

\* What the invariant says of the rows and their types.
LEMMA IntakeInvGives == IntakeInv => IntakeTypeOK /\ SnapshotConsistent
<1> SUFFICES ASSUME IntakeInv PROVE IntakeTypeOK /\ SnapshotConsistent
  OBVIOUS
<1>1. session.snapshot.messages \in Seq(Written)
  BY DEF IntakeInv, Counted, Snapshot
<1>2. DOMAIN history \subseteq Nat /\ \A i \in DOMAIN history: history[i] \in Roles
  BY <1>1, MirrorTyped DEF IntakeInv
<1>3. IntakeTypeOK
  BY <1>2 DEF IntakeInv, IntakeTypeOK
<1>4. HistoryMirrorsSnapshot
  BY DEF IntakeInv, Mirrors, HistoryMirrorsSnapshot
<1>5. TurnsCounted
  BY DEF IntakeInv, TurnsCounted, Counted, Said
<1>6. QED BY <1>3, <1>4, <1>5 DEF SnapshotConsistent

\* No messages, no rows.
LEMMA NothingMirrored == Mirrors(<<>>, EmptySnapshot.messages)
<1>1. EmptySnapshot.messages = <<>> /\ DOMAIN <<>> = {}
  BY DEF EmptySnapshot
<1>2. QED BY <1>1 DEF Mirrors

\* Tabs begin with the empty snapshot.
LEMMA IntakeInitInv == IntakeInit => IntakeInv
<1> SUFFICES ASSUME IntakeInit PROVE IntakeInv
  OBVIOUS
<1>1. EmptySnapshot \in Snapshot
  BY EmptyCounted DEF Counted
<1>2. NoSession \in Session /\ NoSession.snapshot = EmptySnapshot
  BY <1>1 DEF NoSession, Session, Callers
<1>3. [user |-> Anonymous, snapshot |-> EmptySnapshot] \in [user: Callers, snapshot: Snapshot]
  BY <1>1 DEF Callers
<1>4. session.snapshot = EmptySnapshot /\ history = <<>> /\ \A t \in Tabs: tabs[t].snapshot = EmptySnapshot
  BY <1>2 DEF IntakeInit
<1>5. QED BY <1>2, <1>3, <1>4, EmptyCounted, NothingMirrored DEF IntakeInit, IntakeInv

\* A save leaves a stored snapshot that counts, and its messages as rows.
LEMMA SaveKeeps ==
  ASSUME IntakeInv, NEW u \in Callers, NEW s \in Counted, SaveSession(u, s)
  PROVE  /\ session' \in Session /\ session'.saved
         /\ Mirrors(history', session'.snapshot.messages)
         /\ session'.snapshot \in Counted
<1>1. s \in Snapshot /\ s.run \in IRuns \cup {NoRun} /\ s.messages \in Seq(Written)
  BY DEF Counted, Snapshot
<1>2. session \in Session /\ session.owner \in Callers /\ session.run \in IRuns \cup {NoRun}
  BY DEF IntakeInv, Session
<1>3. session' \in Session /\ session'.saved /\ session'.snapshot = s
  BY <1>1, <1>2 DEF SaveSession, Upserted, Session
<1>4. Mirrors(history', s.messages)
  <2>1. \A i \in DOMAIN s.messages: s.messages[i] \in Roles <=> s.messages[i] /= "unusable"
    <3>1. \A i \in DOMAIN s.messages: s.messages[i] \in Written
      BY <1>1
    <3>2. "unusable" \notin Roles
      BY DEF Roles
    <3>3. QED BY <3>1, <3>2 DEF Written
  <2>2. history' = [i \in Usable(s) |-> s.messages[i]]
    BY DEF SaveSession, Replaced
  <2>3. Usable(s) = {i \in DOMAIN s.messages: s.messages[i] /= "unusable"}
    BY <2>1 DEF Usable
  <2>4. QED BY <2>2, <2>3 DEF Mirrors
<1>5. QED BY <1>1, <1>3, <1>4

\* Every save, advance, claim and link keeps the session's history.
LEMMA IntakeNextInv == IntakeInv /\ [IntakeNext]_intakeVars => IntakeInv'
<1> SUFFICES ASSUME IntakeInv, [IntakeNext]_intakeVars PROVE IntakeInv'
  OBVIOUS
<1> DEFINE Tab == [user: Callers, snapshot: Snapshot]
<1>a. /\ session \in Session
      /\ ~session.saved => session = NoSession /\ history = <<>>
      /\ tabs \in [Tabs -> Tab]
      /\ Mirrors(history, session.snapshot.messages)
      /\ session.snapshot \in Counted
      /\ \A t \in Tabs: tabs[t].snapshot \in Counted /\ tabs[t].user \in Callers
  BY DEF IntakeInv
\* A tab that gets another snapshot.
<1>c. ASSUME NEW t \in Tabs, NEW s \in Counted, tabs' = [tabs EXCEPT ![t].snapshot = s]
      PROVE  tabs' \in [Tabs -> Tab] /\ \A o \in Tabs: tabs'[o].snapshot \in Counted
  <2>1. s \in Snapshot
    BY DEF Counted
  <2>2. /\ tabs' \in [Tabs -> Tab]
        /\ \A o \in Tabs: tabs'[o].snapshot = IF o = t THEN s ELSE tabs[o].snapshot
    BY <1>a, <1>c, <2>1
  <2>3. QED BY <1>a, <2>2
<1>1. ASSUME NEW t \in Tabs, NEW u \in Callers, SignIn(t, u) PROVE IntakeInv'
  <2>1. /\ tabs' \in [Tabs -> Tab]
        /\ \A o \in Tabs: tabs'[o].snapshot = tabs[o].snapshot
    BY <1>1, <1>a DEF SignIn
  <2>2. QED BY <1>1, <1>a, <2>1 DEF SignIn, IntakeInv
<1>2. ASSUME NEW t \in Tabs, Reload(t) PROVE IntakeInv'
  <2>1. tabs' \in [Tabs -> Tab] /\ \A o \in Tabs: tabs'[o].snapshot \in Counted
    BY <1>2, <1>a, <1>c DEF Reload
  <2>2. QED BY <1>2, <1>a, <2>1 DEF Reload, IntakeInv
<1>3. ASSUME NEW t \in Tabs, EditLocally(t) PROVE IntakeInv'
  <2>1. PICK a \in Answers:
          tabs' = [tabs EXCEPT ![t].snapshot = Planned(UserMessage(Started(@), a))]
    BY <1>3 DEF EditLocally
  <2> DEFINE s == Planned(UserMessage(Started(tabs[t].snapshot), a))
  <2>2. s \in Counted
    BY <1>a, StartedCounted, UserCounted, PlannedCounted
  <2>3. tabs' = [tabs EXCEPT ![t].snapshot = s]
    BY <2>1
  <2> HIDE DEF s
  <2>4. tabs' \in [Tabs -> Tab] /\ \A o \in Tabs: tabs'[o].snapshot \in Counted
    BY <1>c, <2>2, <2>3
  <2>5. QED BY <1>3, <1>a, <2>4 DEF EditLocally, IntakeInv
<1>9. ASSUME NEW t \in Tabs, EditByHand(t) PROVE IntakeInv'
  <2> DEFINE s == [tabs[t].snapshot EXCEPT !.messages = Append(@, "unusable")]
  <2>1. s \in Counted
    BY <1>a, HandEditCounted
  <2>2. tabs' = [tabs EXCEPT ![t].snapshot = s]
    BY <1>9 DEF EditByHand
  <2> HIDE DEF s
  <2>3. tabs' \in [Tabs -> Tab] /\ \A o \in Tabs: tabs'[o].snapshot \in Counted
    BY <1>c, <2>1, <2>2
  <2>4. QED BY <1>9, <1>a, <2>3 DEF EditByHand, IntakeInv
<1>4. ASSUME NEW t \in Tabs, Save(t) PROVE IntakeInv'
  <2>1. /\ session' \in Session /\ session'.saved
        /\ Mirrors(history', session'.snapshot.messages)
        /\ session'.snapshot \in Counted
    BY <1>4, <1>a, SaveKeeps DEF Save
  <2>2. QED BY <1>4, <1>a, <2>1 DEF Save, IntakeInv
<1>5. ASSUME NEW t \in Tabs, Advance(t) PROVE IntakeInv'
  <2>1. PICK s \in Advanced(tabs[t].snapshot):
          SaveSession(tabs[t].user, s) /\ tabs' = [tabs EXCEPT ![t].snapshot = s]
    BY <1>5 DEF Advance
  <2>2. s \in Counted
    BY <1>a, AdvancedCounted
  <2>3. /\ session' \in Session /\ session'.saved
        /\ Mirrors(history', session'.snapshot.messages)
        /\ session'.snapshot \in Counted
    BY <1>a, <2>1, <2>2, SaveKeeps
  <2>4. tabs' \in [Tabs -> Tab] /\ \A o \in Tabs: tabs'[o].snapshot \in Counted
    BY <1>c, <2>1, <2>2
  <2>5. QED BY <2>3, <2>4 DEF IntakeInv
<1>6. ASSUME NEW t \in Tabs, NEW r \in IRuns, LinkRun(t, r) PROVE IntakeInv'
  <2>1. session.snapshot \in Snapshot
    BY <1>a DEF Counted
  <2>2. /\ session' = [session EXCEPT !.run = r, !.snapshot.run = r] /\ session.saved
        /\ history' = history /\ tabs' = tabs
    BY <1>6 DEF LinkRun
  <2>3. /\ session'.snapshot \in Snapshot
        /\ session'.snapshot.messages = session.snapshot.messages
        /\ session'.snapshot.turnCount = session.snapshot.turnCount
    BY <1>a, <2>1, <2>2 DEF Session, Snapshot
  <2>4. session' \in Session /\ session'.saved
    BY <1>a, <2>2, <2>3 DEF Session
  <2>5. session'.snapshot \in Counted
    BY <1>a, <2>3 DEF Counted
  <2>6. QED BY <1>a, <2>2, <2>3, <2>4, <2>5 DEF IntakeInv
<1>7. ASSUME NEW u \in Accounts, DropAccount(u) PROVE IntakeInv'
  <2>1. NoSession \in Session /\ NoSession.snapshot = EmptySnapshot
    BY EmptyCounted DEF NoSession, Session, Callers, Counted
  <2>2. QED BY <1>7, <1>a, <2>1, EmptyCounted, NothingMirrored DEF DropAccount, IntakeInv
<1>8. CASE UNCHANGED intakeVars
  BY <1>8, <1>a DEF intakeVars, IntakeInv
<1>10. QED BY <1>1, <1>2, <1>3, <1>4, <1>5, <1>6, <1>7, <1>8, <1>9 DEF IntakeNext

\* What a reload shows is one conversation whose turns are counted, for any number of
\* tabs, accounts and runs and conversations of any length, whatever stale copies the
\* tabs save over one another.
THEOREM SnapshotHolds == IntakeSpec => []SnapshotConsistent
<1>1. IntakeSpec => []IntakeInv
  BY IntakeInitInv, IntakeNextInv, PTL DEF IntakeSpec
<1>2. QED BY <1>1, IntakeInvGives, PTL

\* A save, a link or a reload neither unlinks the run of a session nor hands a claimed
\* session to somebody else.
LEMMA ClaimKeptByStep ==
  ASSUME IntakeInv, [IntakeNext]_intakeVars, session.saved, session'.saved
  PROVE  /\ session.run /= NoRun => session'.run /= NoRun
         /\ session.owner /= Anonymous => session'.owner = session.owner
<1>a. session \in Session /\ NoRun \notin IRuns
  BY IntakeConstants DEF IntakeInv
<1>1. ASSUME NEW u \in Callers, NEW s \in Snapshot, SaveSession(u, s)
      PROVE  /\ session.run /= NoRun => session'.run /= NoRun
             /\ session.owner /= Anonymous => session'.owner = session.owner
  BY <1>1 DEF SaveSession, Upserted
<1>2. CASE session' = session
  BY <1>2
<1>3. ASSUME NEW t \in Tabs, Save(t) \/ Advance(t)
      PROVE  /\ session.run /= NoRun => session'.run /= NoRun
             /\ session.owner /= Anonymous => session'.owner = session.owner
  <2>1. tabs[t].user \in Callers /\ tabs[t].snapshot \in Counted
    BY DEF IntakeInv
  <2>2. \A s \in Counted: s \in Snapshot
    BY DEF Counted
  <2>3. QED BY <1>1, <1>3, <2>1, <2>2, AdvancedCounted DEF Save, Advance
<1>4. ASSUME NEW t \in Tabs, NEW r \in IRuns, LinkRun(t, r)
      PROVE  /\ session.run /= NoRun => session'.run /= NoRun
             /\ session.owner /= Anonymous => session'.owner = session.owner
  BY <1>4, <1>a DEF LinkRun, Session
<1>5. ASSUME NEW u \in Accounts, DropAccount(u) PROVE FALSE
  BY <1>5 DEF DropAccount, NoSession
<1>6. QED BY <1>2, <1>3, <1>4, <1>5
          DEF IntakeNext, SignIn, Reload, EditLocally, EditByHand, intakeVars

\* A session that stays stored keeps a run once it has one and its owner once it has
\* one, for any number of tabs, accounts and runs.
THEOREM ClaimAndLinkStay == IntakeSpec => ClaimAndLinkKept
<1>1. IntakeSpec => []IntakeInv
  BY IntakeInitInv, IntakeNextInv, PTL DEF IntakeSpec
<1>2. IntakeInv /\ [IntakeNext]_intakeVars =>
        [session.saved /\ session'.saved =>
           /\ session.run /= NoRun => session'.run /= NoRun
           /\ session.owner /= Anonymous => session'.owner = session.owner]_intakeVars
  BY ClaimKeptByStep
<1>3. QED BY <1>1, <1>2, PTL DEF IntakeSpec, ClaimAndLinkKept

---------------------------------------------------------------------------
(* The requests-per-minute budget.                                         *)

\* The slots of a window, as a sum of its places.
LEMMA SlotsTotal == ASSUME NEW w PROVE Slots(w) = Total(w, Milliseconds)
BY DEF Slots, Total

\* The slots of all processes, as a sum over the processes.
LEMMA LocalSlotsTotal == LocalSlots = Total([p \in Procs |-> Slots(local[p])], Procs)
<1> DEFINE f == [p \in Procs |-> Slots(local[p])]
           body(g, s) == IF s = {} THEN 0 ELSE Slots(local[Pick(s)]) + g[s \ {Pick(s)}]
<1>1. \A g: IsFold(g, f, Procs) <=> g = [s \in SUBSET Procs |-> body(g, s)]
  <2>1. \A s \in SUBSET Procs: s /= {} => f[Pick(s)] = Slots(local[Pick(s)])
    BY Picked
  <2> HIDE DEF f
  <2> SUFFICES ASSUME NEW g
               PROVE  IsFold(g, f, Procs) <=> g = [s \in SUBSET Procs |-> body(g, s)]
    OBVIOUS
  <2>2. \A s \in SUBSET Procs: Unfolded(g, f, s) = body(g, s)
    BY <2>1 DEF Unfolded
  <2>3. QED BY <2>2 DEF IsFold
<1>2. LocalSlots = (CHOOSE g: g = [s \in SUBSET Procs |-> body(g, s)])[Procs]
  BY DEF LocalSlots, MapThenSumSet, MapThenFoldSet, Pick
<1>3. (CHOOSE g: g = [s \in SUBSET Procs |-> body(g, s)]) = Fold(f, Procs)
  <2> HIDE DEF f, body
  <2> QED BY <1>1 DEF Fold
<1> HIDE DEF f
<1>4. QED BY <1>2, <1>3, TotalIsFold DEF f

\* The places of a window: there are some, and finitely many.
LEMMA Places ==
  /\ Minute \in Nat \ {0} /\ Rpm \in Nat \ {0} /\ MaxUnlisted \in Nat
  /\ IsFiniteSet(Milliseconds) /\ 0 \in Milliseconds
  /\ Milliseconds = 0..(Minute - 1) /\ \A a \in Milliseconds: a \in Nat
<1>1. Minute \in Nat \ {0} /\ Rpm \in Nat \ {0} /\ MaxUnlisted \in Nat
  BY RpmConstants
<1>2. QED BY <1>1, FS_Interval DEF Milliseconds

\* A window has a number of slots; taking one adds one; ageing adds none.
LEMMA WindowSlots ==
  ASSUME NEW w \in Window
  PROVE  /\ Slots(w) \in Nat
         /\ Take(w) \in Window /\ Slots(Take(w)) = Slots(w) + 1
         /\ Aged(w) \in Window /\ Slots(Aged(w)) <= Slots(w)
<1>1. \A a \in Milliseconds: w[a] \in Nat
  BY DEF Window
<1>2. Slots(w) \in Nat
  BY <1>1, Places, SlotsTotal, TotalNat
<1>3. Take(w) \in Window
  BY <1>1, Places DEF Take, Window
<1>4. Take(w)[0] = w[0] + 1 /\ \A a \in Milliseconds \ {0}: w[a] = Take(w)[a]
  BY Places DEF Take, Window
<1>5. \A a \in Milliseconds: w[a] \in Int /\ Take(w)[a] \in Int
  BY <1>1, <1>3 DEF Window
<1>6. Slots(Take(w)) = Slots(w) - w[0] + Take(w)[0]
  <2>1. Total(Take(w), Milliseconds) = Total(w, Milliseconds) - w[0] + Take(w)[0]
    BY <1>4, <1>5, Places, TotalChange
  <2>2. QED BY <2>1, SlotsTotal
<1>7. Slots(Take(w)) = Slots(w) + 1
  BY <1>1, <1>2, <1>4, <1>6, Places
<1>8. \A a \in Milliseconds: Aged(w)[a] = IF a = 0 THEN 0 ELSE w[a - 1]
  BY DEF Aged
<1>9. Aged(w) \in Window
  <2>1. \A a \in Milliseconds: a /= 0 => a - 1 \in Milliseconds
    BY Places DEF Milliseconds
  <2>2. \A a \in Milliseconds: (IF a = 0 THEN 0 ELSE w[a - 1]) \in Nat
    BY <1>1, <2>1
  <2>3. QED BY <2>2 DEF Aged, Window
<1>10. Slots(Aged(w)) <= Slots(w)
  <2>1. Total(Aged(w), 0..(Minute - 1)) <= Total(w, 0..(Minute - 1))
    BY <1>1, <1>8, Places, TotalShifted
  <2>2. QED BY <2>1, Places, SlotsTotal
<1>11. QED BY <1>2, <1>3, <1>7, <1>9, <1>10

\* A slot is taken only where there is room for it.
LEMMA TakenWithin ==
  ASSUME NEW w \in Window, NEW n \in Nat, Slots(w) <= n, NEW v,
         v = w \/ (Slots(w) < n /\ v = Take(w))
  PROVE  v \in Window /\ Slots(v) <= n
<1>1. Slots(w) \in Nat /\ Take(w) \in Window /\ Slots(Take(w)) = Slots(w) + 1
  BY WindowSlots
<1>2. CASE v = w
  BY <1>2
<1>3. CASE Slots(w) < n /\ v = Take(w)
  BY <1>1, <1>3
<1>4. QED BY <1>2, <1>3

\* An empty window has no slots.
LEMMA NoSlotsEmpty == NoSlots \in Window /\ Slots(NoSlots) = 0
<1>1. \A a \in Milliseconds: NoSlots[a] = 0
  BY DEF NoSlots
<1>2. Total(NoSlots, Milliseconds) = 0 * Cardinality(Milliseconds)
  BY <1>1, Places, TotalConstant
<1>3. Cardinality(Milliseconds) \in Nat
  BY Places, FS_CardinalityType
<1>4. Slots(NoSlots) = 0
  BY <1>2, <1>3, SlotsTotal
<1>5. QED BY <1>4 DEF NoSlots, Window

\* Each window keeps to its own budget; only a misread wait gives more.
RpmInv ==
    /\ RpmTypeOK
    /\ Slots(zset) <= Rpm /\ Slots(unlisted) <= MaxUnlisted
    /\ \A p \in Procs: Slots(local[p]) <= LocalBudget

\* A process may take at least one slot in a minute.
LEMMA BudgetPositive == LocalBudget \in Nat /\ LocalBudget >= 1
<1>1. Cardinality(Procs) \in Nat \ {0}
  BY RpmConstants, FS_CardinalityType, FS_EmptySet
<1>2. \A k \in Nat \ {0}: Rpm \div k \in Nat
  BY Places
<1>3. QED BY <1>1, <1>2 DEF LocalBudget

\* No slot is taken at first.
LEMMA RpmInitInv == RpmInit => RpmInv
BY NoSlotsEmpty, BudgetPositive, Places DEF RpmInit, RpmInv, RpmTypeOK

\* Acquiring, failing and time keep the windows within their budgets.
LEMMA RpmNextInv == RpmInv /\ [RpmNext]_rpmVars => RpmInv'
<1> SUFFICES ASSUME RpmInv, [RpmNext]_rpmVars PROVE RpmInv'
  OBVIOUS
<1> USE DEF RpmInv, RpmTypeOK
<1>a. LocalBudget' = LocalBudget
  BY DEF LocalBudget
<1>1. ASSUME NEW p \in Procs, RedisAcquire(p) PROVE RpmInv'
  <2>1. zset' = zset \/ (SlotFree(zset) /\ zset' = Take(zset))
    BY <1>1 DEF RedisAcquire
  <2>2. zset' \in Window /\ Slots(zset') <= Rpm
    BY <2>1, TakenWithin, Places DEF SlotFree
  <2>3. unlisted' = unlisted \/ (Slots(unlisted) < MaxUnlisted /\ unlisted' = Take(unlisted))
    BY <1>1 DEF RedisAcquire
  <2>4. unlisted' \in Window /\ Slots(unlisted') <= MaxUnlisted
    BY <2>3, TakenWithin, Places
  <2>5. QED BY <1>1, <1>a, <2>2, <2>4 DEF RedisAcquire, Leave
<1>2. ASSUME NEW p \in Procs, RedisError(p) PROVE RpmInv'
  <2>1. zset' = zset \/ (SlotFree(zset) /\ zset' = Take(zset))
    BY <1>2 DEF RedisError
  <2>2. zset' \in Window /\ Slots(zset') <= Rpm
    BY <2>1, TakenWithin, Places DEF SlotFree
  <2>3. QED BY <1>2, <1>a, <2>2 DEF RedisError, Leave
<1>3. ASSUME NEW p \in Procs, LocalAcquire(p) PROVE RpmInv'
  <2>1. local[p] \in Window /\ Slots(local[p]) < LocalBudget
    BY <1>3 DEF LocalAcquire
  <2>2. Take(local[p]) \in Window /\ Slots(Take(local[p])) <= LocalBudget
    BY <2>1, WindowSlots, BudgetPositive
  <2>3. /\ local' \in [Procs -> Window]
        /\ \A q \in Procs: local'[q] = IF q = p THEN Take(local[p]) ELSE local[q]
    BY <1>3, <2>2 DEF LocalAcquire
  <2>4. \A q \in Procs: Slots(local'[q]) <= LocalBudget
    BY <2>2, <2>3
  <2>5. \A q \in Procs: local'[q] /= NoSlots => q \in degraded
    BY <1>3, <2>3 DEF LocalAcquire
  <2>6. QED BY <1>3, <1>a, <2>3, <2>4, <2>5 DEF LocalAcquire
<1>4. CASE RpmTick
  <2>1. /\ zset' \in Window /\ Slots(zset') <= Rpm
        /\ unlisted' \in Window /\ Slots(unlisted') <= MaxUnlisted
    <3>1. Slots(Aged(zset)) <= Slots(zset) /\ Slots(Aged(unlisted)) <= Slots(unlisted)
      BY WindowSlots
    <3>2. Slots(Aged(zset)) \in Nat /\ Slots(zset) \in Nat
          /\ Slots(Aged(unlisted)) \in Nat /\ Slots(unlisted) \in Nat
      BY WindowSlots
    <3>3. Aged(zset) \in Window /\ Aged(unlisted) \in Window
      BY WindowSlots
    <3>4. zset' = Aged(zset) /\ unlisted' = Aged(unlisted)
      BY <1>4 DEF RpmTick
    <3>5. Slots(zset) <= Rpm /\ Slots(unlisted) <= MaxUnlisted
      OBVIOUS
    <3> HIDE DEF RpmInv, RpmTypeOK
    <3>6. QED BY <3>1, <3>2, <3>3, <3>4, <3>5, Places
  <2>2. ASSUME NEW q \in Procs
        PROVE  /\ local'[q] = Aged(local[q]) /\ local'[q] \in Window
               /\ Slots(local'[q]) <= LocalBudget
    <3>1. local[q] \in Window /\ local'[q] = Aged(local[q])
      BY <1>4 DEF RpmTick
    <3>2. Slots(Aged(local[q])) <= Slots(local[q]) /\ Slots(Aged(local[q])) \in Nat
          /\ Slots(local[q]) \in Nat /\ Aged(local[q]) \in Window
      BY <3>1, WindowSlots
    <3>3. QED BY <3>1, <3>2, BudgetPositive
  <2>3. Aged(NoSlots) = NoSlots
    <3>1. \A a \in Milliseconds: a /= 0 => a - 1 \in Milliseconds
      BY Places DEF Milliseconds
    <3>2. \A a \in Milliseconds: (IF a = 0 THEN 0 ELSE NoSlots[a - 1]) = 0
      BY <3>1 DEF NoSlots
    <3>3. QED BY <3>2 DEF Aged, NoSlots
  <2>4. local' \in [Procs -> Window]
    BY <1>4, <2>2 DEF RpmTick
  <2>5. \A q \in Procs: local'[q] /= NoSlots => q \in degraded
    BY <2>2, <2>3
  <2>6. QED BY <1>4, <1>a, <2>1, <2>2, <2>4, <2>5 DEF RpmTick
<1>5. CASE UNCHANGED rpmVars
  BY <1>5, <1>a DEF rpmVars
<1>6. QED BY <1>1, <1>2, <1>3, <1>4, <1>5 DEF RpmNext

\* As many budgets as there are processes: the whole budget, or one slot each.
LEMMA BudgetShared ==
  LocalBudget * Cardinality(Procs) <=
    (IF Rpm > Cardinality(Procs) THEN Rpm ELSE Cardinality(Procs))
<1>1. Cardinality(Procs) \in Nat \ {0}
  BY RpmConstants, FS_CardinalityType, FS_EmptySet
<1>2. SUFFICES ASSUME NEW k \in Nat \ {0}, k = Cardinality(Procs)
               PROVE  LocalBudget * k <= (IF Rpm > k THEN Rpm ELSE k)
  BY <1>1
<1>3. CASE Rpm \div k > 1
  <2>1. (Rpm \div k) * k <= Rpm
    BY Places
  <2>2. LocalBudget = Rpm \div k
    BY <1>2, <1>3 DEF LocalBudget
  <2>3. (Rpm \div k) \in Nat
    BY Places
  <2>4. QED BY <2>1, <2>2, <2>3, Places
<1>4. CASE ~ (Rpm \div k > 1)
  <2>1. LocalBudget = 1
    BY <1>2, <1>4 DEF LocalBudget
  <2>2. QED BY <2>1, Places
<1>5. QED BY <1>3, <1>4

\* The local windows together hold one budget per process at most.
LEMMA RpmInvFleet == RpmInv => FleetAtMostTwice
<1> SUFFICES ASSUME RpmInv PROVE FleetAtMostTwice
  OBVIOUS
<1> DEFINE f == [p \in Procs |-> Slots(local[p])]
           g == [p \in Procs |-> LocalBudget]
<1>1. \A p \in Procs: f[p] \in Nat /\ g[p] \in Nat /\ f[p] <= g[p] /\ g[p] = LocalBudget
  BY WindowSlots, BudgetPositive DEF RpmInv, RpmTypeOK
<1>2. LocalSlots = Total(f, Procs)
  BY LocalSlotsTotal
<1> HIDE DEF f, g
<1>3. Total(f, Procs) <= Total(g, Procs)
  BY <1>1, RpmConstants, TotalLe
<1>4. Total(g, Procs) = LocalBudget * Cardinality(Procs)
  BY <1>1, RpmConstants, BudgetPositive, TotalConstant
<1>5. Total(f, Procs) \in Nat /\ Total(g, Procs) \in Nat
  BY <1>1, RpmConstants, TotalNat
<1>6. Slots(zset) \in Nat /\ Slots(zset) <= Rpm
  BY WindowSlots DEF RpmInv, RpmTypeOK
<1>7. Cardinality(Procs) \in Nat
  BY RpmConstants, FS_CardinalityType
<1>8. LocalSlots \in Nat /\ LocalSlots <= (IF Rpm > Cardinality(Procs) THEN Rpm ELSE Cardinality(Procs))
  BY <1>2, <1>3, <1>4, <1>5, <1>7, BudgetShared, Places
<1>9. QED BY <1>6, <1>7, <1>8, Places DEF FleetAtMostTwice

\* In a minute the fleet sends at most twice the budget, or the budget and a slot for
\* each process, for any number of processes, any budget and any window, however the
\* processes go back and forth between Redis and their own windows.
THEOREM FleetBudget == RpmSpec => []FleetAtMostTwice
<1>1. RpmSpec => []RpmInv
  BY RpmInitInv, RpmNextInv, PTL DEF RpmSpec
<1>2. QED BY <1>1, RpmInvFleet, PTL

---------------------------------------------------------------------------
(* The services side by side.                                              *)

\* A posted batch is typed.
LEMMA McpTypesInit == McpInit => McpTypeOK
<1> SUFFICES ASSUME McpInit PROVE McpTypeOK
  OBVIOUS
<1>1. batch \in Seq(Item)
  BY DispatchStarts DEF DispatchInv
<1>2. QED BY <1>1 DEF McpInit, McpTypeOK, Outcomes, EndKinds

\* No batch: another service moves.
LEMMA McpTypesIdle ==
  ASSUME batch = <<>>, taken = 0, effects = {}, ended = "result", replies = <<>>, outcome = "open"
  PROVE  McpTypeOK
<1>1. <<>> \in [1..0 -> Item] /\ 0 \in 0..MaxBatch
  BY McpConstants
<1>2. batch \in BoundedSeq(Item, MaxBatch)
  BY <1>1 DEF BoundedSeq, SeqOf
<1>3. QED BY <1>2 DEF McpTypeOK, Outcomes, EndKinds

\* An item taken is one of the batch, and is answered at most once.
LEMMA McpTypesStep == McpTypeOK /\ [McpNext]_mcpVars => McpTypeOK'
<1> SUFFICES ASSUME McpTypeOK, [McpNext]_mcpVars PROVE McpTypeOK'
  OBVIOUS
<1>1. /\ Len(batch) \in Nat /\ Len(batch) <= MaxBatch /\ MaxBatch \in Nat
  <2>1. PICK n \in 0..MaxBatch: batch \in [1..n -> Item]
    BY DEF McpTypeOK, BoundedSeq, SeqOf
  <2>2. n \in Nat /\ n <= MaxBatch /\ MaxBatch \in Nat
    BY McpConstants
  <2>3. Len(batch) = n
    BY <2>1, <2>2
  <2>4. QED BY <2>2, <2>3
<1>2. /\ taken \in 0..Len(batch) /\ effects \subseteq 1..Len(batch)
      /\ replies \in Seq(ReplyRow) /\ Len(replies) <= taken /\ Len(replies) \in Nat
  BY DEF McpTypeOK
<1>3. CASE TakeItem
  <2>1. taken + 1 \in 1..Len(batch) /\ taken' = taken + 1 /\ batch' = batch
    BY <1>1, <1>2, <1>3 DEF TakeItem
  <2>2. ASSUME NEW kind \in {"result", "error"}
        PROVE  Answered(kind) \in Seq(ReplyRow) /\ Len(Answered(kind)) = Len(replies) + 1
    <3>1. [at |-> taken + 1, kind |-> kind] \in ReplyRow
      BY <1>1, <2>1 DEF ReplyRow
    <3>2. QED BY <1>2, <3>1 DEF Answered
  <2>3. /\ effects' \subseteq effects \cup {taken + 1}
        /\ replies' \in {replies, Answered("result"), Answered("error")}
        /\ outcome' \in {"open", "error500"}
    BY <1>3 DEF TakeItem
  <2>4. replies' \in Seq(ReplyRow) /\ Len(replies') <= taken + 1
    <3>1. CASE replies' = replies
      BY <1>1, <1>2, <3>1
    <3>2. CASE replies' = Answered("result") \/ replies' = Answered("error")
      BY <1>1, <1>2, <2>2, <3>2
    <3>3. QED BY <2>3, <3>1, <3>2
  <2>5. effects' \subseteq 1..Len(batch) /\ taken' \in 0..Len(batch)
    BY <1>1, <1>2, <2>1, <2>3
  <2>6. ended' \in EndKinds
    BY <1>3 DEF TakeItem, Executions, Ends, McpTypeOK
  <2>7. QED BY <2>1, <2>3, <2>4, <2>5, <2>6 DEF McpTypeOK, Outcomes
<1>4. CASE SendReplies
  BY <1>4 DEF SendReplies, McpTypeOK, Outcomes
<1>5. CASE UNCHANGED mcpVars
  BY <1>5 DEF mcpVars, McpTypeOK
<1>6. QED BY <1>3, <1>4, <1>5 DEF McpNext

\* Each service's own invariant, whichever of them moves.
ServicesInv ==
    /\ OAuthTypeOK /\ WorkspaceInv /\ IntakeInv
    /\ RpmInv /\ LoginInv /\ McpTypeOK

\* All services start in their invariants.
LEMMA ServicesStart == ServicesInit => ServicesInv
<1> SUFFICES ASSUME ServicesInit PROVE ServicesInv
  OBVIOUS
<1>1. OAuthInit /\ WorkspaceInit /\ IntakeInit /\ RpmInit /\ LoginInit
  BY DEF ServicesInit
<1>2. McpTypeOK
  BY McpTypesInit, McpTypesIdle DEF ServicesInit
<1>3. OAuthTypeOK /\ WorkspaceInv /\ IntakeInv /\ RpmInv /\ LoginInv
  BY <1>1, OAuthTypeInit, WorkspaceInitInv, IntakeInitInv, RpmInitInv, LoginStarts
<1>4. QED BY <1>2, <1>3 DEF ServicesInv

\* A step of one service keeps the invariants of all.
LEMMA ServicesStep == ServicesInv /\ [ServicesNext]_servicesVars => ServicesInv'
<1> SUFFICES ASSUME ServicesInv, [ServicesNext]_servicesVars PROVE ServicesInv'
  OBVIOUS
<1>1. [OAuthNext]_oauthVars /\ [WorkspaceNext]_workspaceVars /\ [IntakeNext]_intakeVars
      /\ [RpmNext]_rpmVars /\ [LoginNext]_loginVars /\ [McpNext]_mcpVars
  <2>1. CASE UNCHANGED servicesVars
    BY <2>1 DEF servicesVars
  <2>2. CASE ServicesNext
    BY <2>2 DEF ServicesNext, OAuthMoves, WorkspaceMoves, IntakeMoves, RpmMoves, LoginMoves, McpMoves
  <2>3. QED BY <2>1, <2>2
<1>2. OAuthTypeOK' /\ WorkspaceInv' /\ IntakeInv'
  BY <1>1, OAuthTypeStep, WorkspaceNextInv, IntakeNextInv DEF ServicesInv
<1>3. RpmInv' /\ LoginInv' /\ McpTypeOK'
  BY <1>1, RpmNextInv, LoginStep, McpTypesStep DEF ServicesInv
<1>4. QED BY <1>2, <1>3 DEF ServicesInv

\* Every table, cookie, window and queue of the services keeps its type, for any
\* value of every constant.
THEOREM ServicesTyped == ServicesSpec => []ServicesTypeOK
<1>1. ServicesInv => ServicesTypeOK
  BY IntakeInvGives DEF ServicesInv, ServicesTypeOK, WorkspaceInv, RpmInv, LoginInv
<1>2. QED BY <1>1, ServicesStart, ServicesStep, PTL DEF ServicesSpec
==============================================================================
