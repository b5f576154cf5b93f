--------------------- MODULE HistoricalIngestion_proofs ---------------------
(***************************************************************************)
(* A bootstrap that is resumed with the same page size skips no match, and *)
(* is complete when it says so, for any archive, growth and failures.      *)
(* What is inductive says in addition where a session stands: on the page  *)
(* the next session would begin with, whose matches are stored or still in *)
(* todo.  Below: a refresh, and the links of ScoreboardLinks.              *)
(***************************************************************************)
EXTENDS ScoreboardLinks, TLAPS, WellFoundedInduction

OneSize == \A s, t \in PageSizes : s = t

SessionInv ==
  /\ archived \in Nat /\ nextPage \in Nat \ {0}
  /\ base = None \/ (base \in Nat /\ base <= archived)
  /\ todo # None => session # None /\ session.page # 0
  /\ session # None /\ session.mode = "bootstrap" /\ session.page # 0 =>
       session.page = nextPage /\ session.cutoff = 0 /\ base # None
  /\ exhausted => base # None
  /\ base = None => nextPage = 1

LoadedInv ==
  todo # None /\ session.mode = "bootstrap" =>
    \A p \in Nat \ {0}, s \in PageSizes :
      p = nextPage + 1 => Before(p, s) \intersect (1..base) \subseteq stored \union todo

BootstrapInv ==
  SessionInv /\ LoadedInv /\ ResumeSkipsNothing /\ ExhaustedMeansComplete

-----------------------------------------------------------------------------
(* Pages.                                                                  *)

\* The newest of some matches is one of them.
LEMMA NewestIsOne ==
  ASSUME NEW n \in Nat, NEW S \in SUBSET (1..n), S # {}
  PROVE  Max(S) \in S
<1> DEFINE T == {n - i : i \in S}
<1>1. T \subseteq Nat
  OBVIOUS
<1>2. T # {}
  <2>1. PICK i \in S : TRUE
    OBVIOUS
  <2>2. n - i \in T
    BY <2>1
  <2> QED
    BY <2>2
<1>3. \A i \in S : n - i \in T
  OBVIOUS
<1>4. \A x \in T : \E i \in S : x = n - i
  OBVIOUS
<1> DEFINE R == OpToRel(<, Nat)
<1>r. \A x, y \in Nat : y < x => <<y, x>> \in R
  BY DEF OpToRel
<1>w. IsWellFoundedOn(R, Nat)
  BY NatLessThanWellFounded
<1> HIDE DEF T, R
<1>5. PICK x \in T : \A y \in T : ~ (<<y, x>> \in R)
  BY <1>1, <1>2, <1>w, WFMin
<1>6. ASSUME NEW y \in T
      PROVE  x <= y
  <2>1. x \in Nat /\ y \in Nat
    BY <1>1
  <2>2. ~ (<<y, x>> \in R)
    BY <1>5
  <2>3. ~ (y < x)
    BY <1>r, <2>1, <2>2
  <2> QED
    BY <2>1, <2>3
<1>7. PICK m \in S : x = n - m
  BY <1>4
<1>8. ASSUME NEW i \in S
      PROVE  m >= i
  <2>1. x <= n - i
    BY <1>3, <1>6
  <2> QED
    BY <1>7, <2>1
<1> QED
  BY <1>7, <1>8 DEF Max

LEMMA Step ==
  ASSUME NEW p \in Nat \ {0}, NEW s \in Nat
  PROVE  (p + 1 - 1) * s = p * s /\ p * s = (p - 1) * s + s /\ (p - 1) * s \in Nat
OBVIOUS

\* A page and the pages before it are the pages before the next.
LEMMA NextPage ==
  ASSUME NEW p \in Nat \ {0}, NEW s \in Nat, archived \in Nat
  PROVE  Before(p + 1, s) \subseteq Before(p, s) \union Page(p, s)
<1>1. (p + 1 - 1) * s = p * s
  BY Step
<1>2. (p - 1) * s \in Int /\ p * s \in Int
  OBVIOUS
<1> QED
  BY <1>1, <1>2 DEF Before, Page

\* What is newer than a match of page p comes before page p + 1.
LEMMA NewerThanPage ==
  ASSUME NEW p \in Nat \ {0}, NEW s \in Nat, archived \in Nat,
         NEW j \in Int, archived - p * s < j,
         NEW i \in 1..archived, i >= j
  PROVE  i \in Before(p + 1, s)
<1>1. (p + 1 - 1) * s = p * s
  BY Step
<1>2. p * s \in Int
  OBVIOUS
<1> QED
  BY <1>1, <1>2 DEF Before

LEMMA FirstPage ==
  ASSUME NEW s \in Nat, archived \in Nat
  PROVE  Before(1, s) = {}
BY DEF Before

\* Past the last page there is nothing left.
LEMMA LastPage ==
  ASSUME NEW p \in Nat \ {0}, NEW s \in Nat \ {0}, archived \in Nat, Page(p, s) = {}
  PROVE  1..archived \subseteq Before(p, s)
<1> DEFINE m == (p - 1) * s
<1>1. m \in Nat /\ p * s = m + s
  BY Step
<1>2. Page(p, s) = {i \in 1..archived : archived - (m + s) < i /\ i <= archived - m}
  BY <1>1 DEF Page
<1>3. Before(p, s) = {i \in 1..archived : i > archived - m}
  BY DEF Before
<1> HIDE DEF m
<1>4. archived - m < 1
  <2>1. ASSUME archived - m >= 1
        PROVE  FALSE
    <3>1. archived - m \in 1..archived /\ archived - (m + s) < archived - m
      BY <1>1, <2>1
    <3> QED
      BY <1>2, <3>1
  <2> QED
    BY <2>1, <1>1
<1> QED
  BY <1>1, <1>3, <1>4
-----------------------------------------------------------------------------
(* Types.                                                                  *)

LEMMA TypeInit ==
  ASSUME HIAssumption, Init
  PROVE  TypeOK
<1>1. archived \in 0..MaxMatches /\ nextPage \in Nat \ {0} /\ fails \in 0..MaxFails
  BY DEF HIAssumption, Init
<1> QED
  BY <1>1 DEF Init, TypeOK

LEMMA CutoffType ==
  ASSUME TypeOK, HIAssumption
  PROVE  Cutoff \in Int
<1>1. CASE stored = {}
  BY <1>1 DEF Cutoff
<1>2. CASE stored # {}
  <2>1. archived \in Nat /\ stored \in SUBSET (1..archived)
    BY DEF TypeOK, HIAssumption
  <2>0. Max(stored) \in stored
    BY <1>2, <2>1, NewestIsOne
  <2>2. stored \subseteq Int
    BY <2>1
  <2>3. Max(stored) \in Int
    BY <2>0, <2>2
  <2> QED
    BY <1>2, <2>3 DEF Cutoff, HIAssumption
<1> QED
  BY <1>1, <1>2

\* These steps leave a session, of its type.
LEMMA SessionGoesOn ==
  ASSUME TypeOK, Bootstrap \/ Refresh \/ AttemptPrimary \/ StartImport \/ LoadPage
  PROVE  session' \in Session /\ session' # None
<1>0. \A s \in Session : s # None
  BY NoneAssumption
<1>1. CASE Bootstrap \/ Refresh
  <2>1. ASSUME NEW mode \in {"bootstrap", "incremental"}, Begin(mode)
        PROVE  session' \in Session
    BY <2>1, HIAssumption DEF Begin, HIAssumption, Session
  <2> QED
    BY <1>0, <1>1, <2>1 DEF Bootstrap, Refresh
<1>2. CASE AttemptPrimary
  <2>1. session \in Session
    BY <1>2 DEF AttemptPrimary, TypeOK
  <2> QED
    BY <1>0, <1>2, <2>1 DEF AttemptPrimary, Session
<1>3. CASE StartImport
  <2>1. session \in Session /\ archived \in Nat /\ nextPage \in Nat \ {0}
    BY <1>3, HIAssumption DEF StartImport, TypeOK, HIAssumption
  <2>2. StartPage(session.mode) \in Nat
        /\ (IF session.mode = "bootstrap" THEN 0 ELSE Cutoff) \in Int
    BY <2>1, CutoffType, HIAssumption DEF StartPage
  <2>3. session' \in Session
    BY <1>3, <2>1, <2>2 DEF StartImport, Session
  <2> QED
    BY <1>0, <2>3
<1>4. CASE LoadPage
  <2>1. session \in Session
    BY <1>4 DEF LoadPage, Importing, TypeOK
  <2>2. session' \in Session
    BY <1>4, <2>1 DEF LoadPage, Session
  <2> QED
    BY <1>0, <2>2
<1> QED
  BY <1>1, <1>2, <1>3, <1>4

LEMMA TypeStep ==
  ASSUME TypeOK, HIAssumption, NoneAssumption, [Next]_vars
  PROVE  TypeOK'
<1>1. CASE Archive
  BY <1>1 DEF Archive, TypeOK, HIAssumption, progress
<1>2. CASE Bootstrap \/ Refresh
  <2>1. UNCHANGED <<archived, stored, nextPage, exhausted, todo, fails, base>>
        /\ session = None
    BY <1>2 DEF Bootstrap, Refresh, Begin, progress
  <2> QED
    BY <1>2, <2>1, SessionGoesOn DEF TypeOK
<1>3. CASE AttemptPrimary
  BY <1>3, SessionGoesOn DEF AttemptPrimary, TypeOK, progress
<1>10. CASE StartImport
  <2>1. exhausted' \in BOOLEAN /\ base' \in (0..MaxMatches) \union {None}
    BY <1>10 DEF StartImport, TypeOK
  <2> QED
    BY <1>10, <2>1, SessionGoesOn DEF StartImport, TypeOK
<1>4. CASE EndOfArchive
  BY <1>4 DEF EndOfArchive, Importing, TypeOK
<1>5. CASE LoadPage
  <2>1. UNCHANGED <<archived, stored, nextPage, exhausted, fails, base>>
        /\ todo' \subseteq 1..archived
    BY <1>5 DEF LoadPage, Page, progress
  <2> QED
    BY <1>5, <2>1, SessionGoesOn DEF TypeOK
<1>6. CASE UpsertMatch
  <2>0. archived \in Nat /\ todo \in SUBSET (1..archived) /\ todo # {}
    BY <1>6 DEF UpsertMatch, TypeOK, HIAssumption
  <2>1. Max(todo) \in todo
    BY <2>0, NewestIsOne
  <2> QED
    BY <1>6, <2>1 DEF UpsertMatch, TypeOK, progress
<1>7. CASE CompletePage
  <2>1. session \in Session
    BY <1>7 DEF CompletePage, TypeOK, NoneAssumption
  <2>2. ASSUME session.left # 1
        PROVE  [session EXCEPT !.page = @ + 1, !.left = @ - 1] \in Session
    <3>1. session.page + 1 \in Nat \ {0} /\ session.left - 1 \in Nat \ {0}
      BY <2>1, <2>2 DEF Session
    <3> QED
      BY <2>1, <3>1 DEF Session
  <2>4. session' \in Session \union {None}
    BY <1>7, <2>2 DEF CompletePage
  <2>5. nextPage' \in Nat \ {0}
    BY <1>7, <2>1 DEF CompletePage, TypeOK, progress, Session
  <2>6. exhausted' \in BOOLEAN
    BY <1>7 DEF CompletePage, TypeOK, progress
  <2> QED
    BY <1>7, <2>4, <2>5, <2>6 DEF CompletePage, TypeOK
<1>8. CASE Fail
  BY <1>8 DEF Fail, TypeOK, progress, HIAssumption
<1>9. CASE UNCHANGED vars
  BY <1>9 DEF vars, TypeOK
<1> QED
  BY <1>1, <1>2, <1>3, <1>4, <1>5, <1>6, <1>7, <1>8, <1>9, <1>10 DEF Next, Ingest

\* Matches, pages, sessions and progress stay of their types.
THEOREM TypeCorrect == Spec => []TypeOK
<1>1. Init => TypeOK
  BY TypeInit, HIAssumption
<1>2. TypeOK /\ [Next]_vars => TypeOK'
  BY TypeStep, HIAssumption, NoneAssumption
<1> QED
  BY <1>1, <1>2, PTL DEF Spec

-----------------------------------------------------------------------------
(* Steps.                                                                  *)

LEMMA InitStep == HIAssumption /\ Init => BootstrapInv
<1> SUFFICES ASSUME HIAssumption, Init
             PROVE  BootstrapInv
  OBVIOUS
<1>1. SessionInv
  BY DEF HIAssumption, Init, SessionInv
<1>2. LoadedInv
  BY DEF Init, LoadedInv
<1>3. ResumeSkipsNothing
  BY DEF Init, ResumeSkipsNothing
<1>4. ExhaustedMeansComplete
  BY DEF Init, ExhaustedMeansComplete
<1> QED
  BY <1>1, <1>2, <1>3, <1>4 DEF BootstrapInv

\* The archive grows: the same page number stands for later matches.
LEMMA Growth ==
  ASSUME NEW p \in Nat \ {0}, NEW s \in Nat, archived \in Nat, archived' = archived + 1
  PROVE  Before(p, s)' \intersect (1..archived) \subseteq Before(p, s)
<1>1. (p - 1) * s \in Nat
  BY Step
<1> DEFINE m == (p - 1) * s
<1>2. Before(p, s) = {i \in 1..archived : i > archived - m}
      /\ Before(p, s)' = {i \in 1..(archived + 1) : i > archived + 1 - m}
  BY DEF Before
<1> HIDE DEF m
<1> QED
  BY <1>1, <1>2 DEF m

LEMMA ArchiveStep ==
  ASSUME BootstrapInv, HIAssumption, Archive
  PROVE  BootstrapInv'
<1>1. SessionInv'
  BY DEF BootstrapInv, SessionInv, Archive, progress
<1>2. ASSUME NEW p \in Nat \ {0}, NEW s \in Nat
      PROVE  Before(p, s)' \intersect (1..archived) \subseteq Before(p, s)
  BY Growth DEF Archive, BootstrapInv, SessionInv
<1>3. base # None => base' = base /\ 1..base \subseteq 1..archived
  BY DEF BootstrapInv, SessionInv, Archive
<1>4. LoadedInv'
  BY <1>2, <1>3 DEF BootstrapInv, SessionInv, LoadedInv, Archive, progress, HIAssumption
<1>5. ResumeSkipsNothing'
  BY <1>2, <1>3 DEF BootstrapInv, SessionInv, ResumeSkipsNothing, Archive, progress, HIAssumption
<1>6. ExhaustedMeansComplete'
  BY DEF BootstrapInv, ExhaustedMeansComplete, Archive, progress
<1> QED
  BY <1>1, <1>4, <1>5, <1>6 DEF BootstrapInv

\* A session that begins has no page, and the RCON attempt gives it none.
LEMMA BeginStep ==
  ASSUME TypeOK, TypeOK', BootstrapInv, NoneAssumption, Bootstrap \/ Refresh \/ AttemptPrimary
  PROVE  BootstrapInv'
<1>1. /\ UNCHANGED <<archived, stored, nextPage, exhausted, todo, base>>
      /\ (session = None /\ session'.page = 0)
         \/ (session # None /\ session' # None /\ session'.page = session.page
             /\ session'.mode = session.mode /\ session'.cutoff = session.cutoff)
  BY DEF Bootstrap, Refresh, Begin, AttemptPrimary, progress, TypeOK, Session, NoneAssumption
<1>2. SessionInv'
  BY <1>1 DEF BootstrapInv, SessionInv
<1>3. LoadedInv'
  BY <1>1 DEF BootstrapInv, SessionInv, LoadedInv, Before
<1>4. ResumeSkipsNothing' /\ ExhaustedMeansComplete'
  BY <1>1 DEF BootstrapInv, ResumeSkipsNothing, ExhaustedMeansComplete, Before
<1> QED
  BY <1>2, <1>3, <1>4 DEF BootstrapInv

\* The import starts on the page the last bootstrap left, or on the first.
LEMMA StartImportStep ==
  ASSUME TypeOK, TypeOK', BootstrapInv, HIAssumption, NoneAssumption, StartImport
  PROVE  BootstrapInv'
<1>0. session \in Session /\ todo = None
  BY DEF StartImport, TypeOK, BootstrapInv, SessionInv
<1>1. /\ UNCHANGED <<archived, stored, nextPage, todo>>
      /\ session'.size \in PageSizes /\ (exhausted' => exhausted)
  BY <1>0 DEF StartImport, Session
<1>2. \/ /\ session'.mode = "bootstrap" /\ session'.page = nextPage /\ session'.cutoff = 0
         /\ base' # None /\ (base' = base \/ (base = None /\ base' = archived))
         /\ ~ exhausted'
      \/ session'.mode # "bootstrap" /\ session'.page = 1 /\ base' = base
  <2>1. archived \in Nat /\ archived # None
    BY DEF BootstrapInv, SessionInv, HIAssumption
  <2>2. CASE session.mode = "bootstrap"
    <3>1. session'.mode = "bootstrap" /\ session'.page = nextPage /\ session'.cutoff = 0
      BY <1>0, <2>2 DEF StartImport, StartPage, Session
    <3>2. base' # None /\ (base' = base \/ (base = None /\ base' = archived))
      BY <2>1, <2>2 DEF StartImport
    <3>3. ~ exhausted'
      BY <2>2 DEF StartImport
    <3> QED
      BY <3>1, <3>2, <3>3
  <2>3. CASE session.mode # "bootstrap"
    BY <1>0, <2>3 DEF StartImport, StartPage, Session
  <2> QED
    BY <2>2, <2>3
<1>3. SessionInv'
  BY <1>0, <1>1, <1>2 DEF BootstrapInv, SessionInv
<1>4. LoadedInv'
  BY <1>0, <1>1 DEF LoadedInv
<1>5. ResumeSkipsNothing'
  <2>1. CASE base' = base
    BY <1>1, <2>1 DEF BootstrapInv, ResumeSkipsNothing, Before
  <2>2. CASE base' # base
    <3>1. nextPage = 1 /\ archived \in Nat
      BY <1>1, <1>2, <2>2 DEF BootstrapInv, SessionInv
    <3>2. \A s \in PageSizes : Before(1, s) = {}
      BY <3>1, FirstPage DEF HIAssumption
    <3> QED
      BY <1>1, <3>1, <3>2 DEF ResumeSkipsNothing, Before
  <2> QED
    BY <2>1, <2>2
<1>6. ExhaustedMeansComplete'
  BY <1>1, <1>2 DEF BootstrapInv, ExhaustedMeansComplete
<1> QED
  BY <1>3, <1>4, <1>5, <1>6 DEF BootstrapInv

\* Past the end of the archive, what comes before the next page is all of it.
LEMMA EndOfArchiveStep ==
  ASSUME TypeOK, TypeOK', BootstrapInv, HIAssumption, NoneAssumption, OneSize, EndOfArchive
  PROVE  BootstrapInv'
<1>1. /\ UNCHANGED <<archived, stored, nextPage, todo, base>> /\ session # None
      /\ todo = None /\ session' = None /\ session.page # 0
  BY DEF EndOfArchive, Importing
<1>2. exhausted' => exhausted \/ session.mode = "bootstrap"
  BY DEF EndOfArchive
<1>3. session.mode = "bootstrap" => base # None /\ 1..base \subseteq stored
  <2> SUFFICES ASSUME session.mode = "bootstrap"
               PROVE  base # None /\ 1..base \subseteq stored
    OBVIOUS
  <2>1. /\ session.page = nextPage /\ nextPage \in Nat \ {0} /\ session.size \in PageSizes
        /\ base # None /\ 1..base \subseteq 1..archived /\ archived \in Nat
    BY <1>1 DEF BootstrapInv, SessionInv, TypeOK, Session
  <2>2. Page(nextPage, session.size) = {}
    BY <2>1 DEF EndOfArchive
  <2>3. 1..archived \subseteq Before(nextPage, session.size)
    BY <2>1, <2>2, LastPage DEF HIAssumption
  <2>4. Before(nextPage, session.size) \intersect (1..base) \subseteq stored
    BY <2>1 DEF BootstrapInv, ResumeSkipsNothing
  <2> QED
    BY <2>1, <2>3, <2>4
<1>4. SessionInv'
  BY <1>1, <1>2, <1>3 DEF BootstrapInv, SessionInv
<1>5. LoadedInv' /\ ResumeSkipsNothing'
  BY <1>1 DEF BootstrapInv, LoadedInv, ResumeSkipsNothing, Before
<1>6. ExhaustedMeansComplete'
  BY <1>1, <1>2, <1>3 DEF BootstrapInv, ExhaustedMeansComplete
<1> QED
  BY <1>4, <1>5, <1>6 DEF BootstrapInv

\* A bootstrap has no cutoff: all of its page is to be stored.
LEMMA LoadPageStep ==
  ASSUME TypeOK, TypeOK', BootstrapInv, HIAssumption, NoneAssumption, OneSize, LoadPage
  PROVE  BootstrapInv'
<1>1. /\ UNCHANGED <<archived, stored, nextPage, exhausted, base>> /\ session # None /\ session.page # 0
      /\ todo' = {i \in Page(session.page, session.size) : i >= session.cutoff}
  BY DEF LoadPage, Importing, progress
<1>2. /\ session' # None /\ session'.mode = session.mode /\ session'.page = session.page
      /\ session'.size = session.size /\ session'.cutoff = session.cutoff
  BY <1>1 DEF LoadPage, TypeOK, Session, NoneAssumption
<1>3. SessionInv'
  BY <1>1, <1>2 DEF BootstrapInv, SessionInv
<1>4. LoadedInv'
  <2> SUFFICES ASSUME session.mode = "bootstrap"
               PROVE  \A p \in Nat \ {0}, s \in PageSizes :
                        p = nextPage + 1 =>
                          Before(p, s) \intersect (1..base) \subseteq stored \union todo'
    BY <1>1, <1>2 DEF LoadedInv, Before
  <2>1. /\ session.page = nextPage /\ nextPage \in Nat \ {0} /\ session.size \in PageSizes
        /\ session.cutoff = 0 /\ base # None /\ archived \in Nat
    BY <1>1 DEF BootstrapInv, SessionInv, TypeOK, Session
  <2>2. todo' = Page(nextPage, session.size)
    BY <1>1, <2>1 DEF Page
  <2>3. Before(nextPage, session.size) \intersect (1..base) \subseteq stored
    BY <2>1 DEF BootstrapInv, ResumeSkipsNothing
  <2>4. Before(nextPage + 1, session.size)
          \subseteq Before(nextPage, session.size) \union Page(nextPage, session.size)
    BY <2>1, NextPage DEF HIAssumption
  <2>5. \A s \in PageSizes : s = session.size
    BY <2>1 DEF OneSize
  <2> QED
    BY <2>2, <2>3, <2>4, <2>5
<1>5. ResumeSkipsNothing' /\ ExhaustedMeansComplete'
  BY <1>1 DEF BootstrapInv, ResumeSkipsNothing, ExhaustedMeansComplete, Before
<1> QED
  BY <1>3, <1>4, <1>5 DEF BootstrapInv

\* What is stored leaves todo.
LEMMA UpsertMatchStep ==
  ASSUME TypeOK, BootstrapInv, HIAssumption, UpsertMatch
  PROVE  BootstrapInv'
<1>1. /\ UNCHANGED <<archived, nextPage, exhausted, session, base>> /\ todo # None
      /\ stored \subseteq stored' /\ stored \union todo = stored' \union todo'
  <2>1. archived \in Nat /\ todo \in SUBSET (1..archived) /\ todo # {}
    BY DEF UpsertMatch, TypeOK, HIAssumption
  <2>2. Max(todo) \in todo
    BY <2>1, NewestIsOne
  <2> QED
    BY <2>2 DEF UpsertMatch, progress
<1>2. SessionInv'
  BY <1>1 DEF BootstrapInv, SessionInv
<1>3. LoadedInv'
  BY <1>1 DEF BootstrapInv, LoadedInv, Before
<1>4. ResumeSkipsNothing' /\ ExhaustedMeansComplete'
  BY <1>1 DEF BootstrapInv, ResumeSkipsNothing, ExhaustedMeansComplete, Before
<1> QED
  BY <1>2, <1>3, <1>4 DEF BootstrapInv

\* A page counts as completed when nothing of it is left to store.
LEMMA CompletePageStep ==
  ASSUME TypeOK, TypeOK', BootstrapInv, HIAssumption, NoneAssumption, CompletePage
  PROVE  BootstrapInv'
<1>1. /\ UNCHANGED <<archived, stored, base>> /\ todo = {} /\ todo' = None
      /\ session \in Session /\ (exhausted' => exhausted)
  BY DEF CompletePage, progress, TypeOK, NoneAssumption
<1>2. session' # None => session'.page = session.page + 1 /\ session'.mode = session.mode
                         /\ session'.cutoff = session.cutoff
  BY <1>1 DEF CompletePage, Session
<1>3. CASE session.mode = "bootstrap"
  <2>1. nextPage' = nextPage + 1 /\ ~ exhausted' /\ base # None /\ nextPage \in Nat \ {0}
        /\ session.page = nextPage /\ session.cutoff = 0
    BY <1>1, <1>3 DEF CompletePage, BootstrapInv, SessionInv, NoneAssumption
  <2>2. SessionInv'
    BY <1>1, <1>2, <1>3, <2>1 DEF BootstrapInv, SessionInv
  <2>3. ResumeSkipsNothing'
    <3>1. \A p \in Nat \ {0}, s \in PageSizes :
            p = nextPage + 1 => Before(p, s) \intersect (1..base) \subseteq stored
      BY <1>1, <1>3 DEF BootstrapInv, LoadedInv, NoneAssumption
    <3>2. \A s \in PageSizes : Before(nextPage', s) \intersect (1..base) \subseteq stored
      BY <2>1, <3>1
    <3>3. (\A s \in PageSizes : Before(nextPage, s) \intersect (1..base) \subseteq stored)'
      BY <1>1, <3>2 DEF Before
    <3> QED
      BY <3>3 DEF ResumeSkipsNothing
  <2> QED
    BY <1>1, <2>1, <2>2, <2>3 DEF BootstrapInv, LoadedInv, ExhaustedMeansComplete
<1>4. CASE session.mode # "bootstrap"
  <2>1. UNCHANGED <<nextPage, exhausted>>
    BY <1>4 DEF CompletePage, progress
  <2>2. SessionInv'
    BY <1>1, <1>2, <1>4, <2>1 DEF BootstrapInv, SessionInv
  <2> QED
    BY <1>1, <2>1, <2>2 DEF BootstrapInv, LoadedInv, ResumeSkipsNothing,
                            ExhaustedMeansComplete, Before
<1> QED
  BY <1>3, <1>4

\* A session that ends early leaves its page to the next.
LEMMA FailStep ==
  ASSUME BootstrapInv, Fail
  PROVE  BootstrapInv'
  BY DEF Fail, progress, BootstrapInv, SessionInv, LoadedInv, ResumeSkipsNothing,
         ExhaustedMeansComplete, Before

LEMMA StutterStep ==
  ASSUME BootstrapInv, UNCHANGED vars
  PROVE  BootstrapInv'
  BY DEF vars, BootstrapInv, SessionInv, LoadedInv, ResumeSkipsNothing,
         ExhaustedMeansComplete, Before

LEMMA BootstrapAlways == ASSUME OneSize PROVE Spec => []BootstrapInv
<1>1. Init => BootstrapInv
  BY InitStep, HIAssumption
<1>2. TypeOK /\ TypeOK' /\ BootstrapInv /\ [Next]_vars => BootstrapInv'
  BY ArchiveStep, BeginStep, StartImportStep, EndOfArchiveStep, LoadPageStep, UpsertMatchStep,
     CompletePageStep, FailStep, StutterStep, OneSize, HIAssumption, NoneAssumption
     DEF Next, Ingest
<1> QED
  BY <1>1, <1>2, TypeCorrect, PTL DEF Spec

\* A bootstrap that is resumed with the same page size skips no match that the
\* archive held when the first one began.
THEOREM NothingSkipped == ASSUME OneSize PROVE Spec => []ResumeSkipsNothing
<1>1. BootstrapInv => ResumeSkipsNothing
  BY DEF BootstrapInv
<1> QED
  BY <1>1, BootstrapAlways, OneSize, PTL

\* It is recorded as exhausted only when all of those matches are stored.
THEOREM CompleteWhenExhausted == ASSUME OneSize PROVE Spec => []ExhaustedMeansComplete
<1>1. BootstrapInv => ExhaustedMeansComplete
  BY DEF BootstrapInv
<1> QED
  BY <1>1, BootstrapAlways, OneSize, PTL
-----------------------------------------------------------------------------
(***************************************************************************)
(* A refresh.  Inductive is where it stands: what it was to reach and has  *)
(* passed is stored or still in todo, on pages that move towards the older *)
(* matches while it reads them.                                            *)
(***************************************************************************)
\* What the session is to reach.
Wanted == {i \in 1..session.began : i >= session.cutoff}

Standing ==
  session # None =>
    /\ session.page = 0 => todo = None
    /\ todo = None => ~session.stop

Reached ==
  session # None /\ session.mode = "incremental" /\ session.page # 0 =>
    /\ session.began <= archived
    /\ todo = None => Wanted \intersect Before(session.page, session.size) \subseteq stored
    /\ todo # None =>
         /\ Wanted \intersect Before(session.page + 1, session.size) \subseteq stored \union todo
         /\ session.stop => Wanted \subseteq stored \union todo

RefreshInv == TypeOK /\ Standing /\ Reached

LEMMA SessionFields ==
  ASSUME TypeOK, session # None
  PROVE  /\ session \in Session /\ session.page \in Nat /\ session.size \in Nat \ {0}
         /\ session.began \in Nat /\ session.cutoff \in Int /\ session.stop \in BOOLEAN
         /\ archived \in Nat /\ stored \subseteq 1..archived
<1>1. session \in Session
  BY DEF TypeOK
<1>2. archived \in Nat /\ stored \subseteq 1..archived
  BY HIAssumption DEF TypeOK, HIAssumption
<1>3. session.size \in Nat \ {0}
  BY <1>1, HIAssumption DEF Session, HIAssumption
<1> QED
  BY <1>1, <1>2, <1>3 DEF Session

LEMMA RefreshInit == ASSUME Init PROVE RefreshInv
BY TypeInit, HIAssumption DEF Init, RefreshInv, Standing, Reached

\* The archive grows under a session.
LEMMA RefreshArchive == ASSUME RefreshInv, TypeOK', Archive PROVE RefreshInv'
<1>1. UNCHANGED <<stored, session, todo>> /\ archived' = archived + 1
  BY DEF Archive
<1>2. Standing'
  BY <1>1 DEF RefreshInv, Standing
<1>3. ASSUME session # None, session.mode = "incremental", session.page # 0
      PROVE  /\ session.began <= archived
             /\ Before(session.page, session.size)' \intersect (1..archived)
                  \subseteq Before(session.page, session.size)
             /\ Before(session.page + 1, session.size)' \intersect (1..archived)
                  \subseteq Before(session.page + 1, session.size)
             /\ Wanted \subseteq 1..archived
  <2>1. /\ session.page \in Nat \ {0} /\ session.page + 1 \in Nat \ {0}
        /\ session.size \in Nat /\ archived \in Nat /\ session.began \in Nat
    BY <1>3, SessionFields DEF RefreshInv
  <2>2. session.began <= archived
    BY <1>3 DEF RefreshInv, Reached
  <2>3. \A p \in Nat \ {0} :
          Before(p, session.size)' \intersect (1..archived) \subseteq Before(p, session.size)
    BY <1>1, <2>1, Growth
  <2>4. QED
    BY <1>1, <2>1, <2>2, <2>3 DEF Wanted, Before
<1>4. Reached'
  <2> SUFFICES ASSUME session # None, session.mode = "incremental", session.page # 0
               PROVE  Reached'
    BY <1>1 DEF Reached
  <2>1. session.began <= archived + 1
    BY <1>3, SessionFields DEF RefreshInv
  <2>2. Wanted' = Wanted
    BY <1>1 DEF Wanted
  <2>3. QED
    BY <1>1, <1>3, <2>1, <2>2 DEF RefreshInv, Reached
<1>5. QED
  BY <1>2, <1>4 DEF RefreshInv

\* A session without a page has reached nothing; its first page has none before it.
LEMMA RefreshStarts ==
  ASSUME RefreshInv, TypeOK', Bootstrap \/ Refresh \/ AttemptPrimary \/ StartImport
  PROVE  RefreshInv'
<1>1. CASE Bootstrap \/ Refresh
  <2>1. /\ session = None /\ session' # None /\ session'.page = 0 /\ session'.stop = FALSE
        /\ todo' = todo
    <3>1. session' # None
      BY <1>1, SessionGoesOn DEF RefreshInv
    <3>2. ASSUME NEW mode, Begin(mode)
          PROVE  session = None /\ session'.page = 0 /\ session'.stop = FALSE /\ todo' = todo
      BY <3>2 DEF Begin
    <3> QED
      BY <1>1, <3>1, <3>2 DEF Bootstrap, Refresh
  <2>2. todo = None
    BY <2>1 DEF RefreshInv, TypeOK
  <2>3. QED
    BY <2>1, <2>2 DEF RefreshInv, Standing, Reached
<1>2. CASE AttemptPrimary
  <2>1. /\ session # None /\ session' # None /\ UNCHANGED <<archived, stored, todo>>
        /\ session'.mode = session.mode /\ session'.page = session.page
        /\ session'.size = session.size /\ session'.cutoff = session.cutoff
        /\ session'.stop = session.stop /\ session'.began = session.began
    <3>1. session # None /\ session \in Session /\ session' # None
      BY <1>2, SessionFields, SessionGoesOn DEF AttemptPrimary, RefreshInv
    <3> QED
      BY <1>2, <3>1 DEF AttemptPrimary, Session
  <2>2. Wanted' = Wanted
    BY <2>1 DEF Wanted
  <2>3. Standing'
    BY <2>1 DEF RefreshInv, Standing
  <2>4. Reached'
    BY <2>1, <2>2 DEF RefreshInv, Reached, Before
  <2>5. QED
    BY <2>3, <2>4 DEF RefreshInv
<1>3. CASE StartImport
  <2>1. session \in Session /\ session.page = 0 /\ session # None /\ session' # None
    BY <1>3, SessionFields, SessionGoesOn DEF StartImport, RefreshInv
  <2>2. /\ session' # None /\ UNCHANGED <<archived, stored, todo>>
        /\ session'.mode = session.mode /\ session'.stop = session.stop
        /\ session'.page = StartPage(session.mode) /\ session'.began = archived
        /\ session'.size = session.size
    BY <1>3, <2>1 DEF StartImport, Session
  <2>3. todo = None /\ ~session.stop
    BY <2>1 DEF RefreshInv, Standing
  <2>4. Standing'
    BY <2>2, <2>3 DEF Standing
  <2>5. Reached'
    <3> SUFFICES ASSUME session.mode = "incremental"
                 PROVE  Reached'
      BY <2>2 DEF Reached
    <3>1. session'.page = 1 /\ session.size \in Nat /\ archived \in Nat
      BY <2>2, SessionFields, <2>1 DEF StartPage, RefreshInv
    <3>2. Before(1, session.size) = {}
      BY <3>1, FirstPage
    <3>3. Before(session.page, session.size)' = {}
      BY <2>2, <3>1, <3>2 DEF Before
    <3>4. QED
      BY <2>2, <2>3, <3>1, <3>3 DEF Reached
  <2>6. QED
    BY <2>4, <2>5 DEF RefreshInv
<1>4. QED
  BY <1>1, <1>2, <1>3

\* A loaded page is stored or in todo, but for what is older than the cutoff; and
\* when there is some of that, all that is wanted has been seen.
LEMMA RefreshLoad == ASSUME RefreshInv, TypeOK', LoadPage PROVE RefreshInv'
<1> DEFINE page == Page(session.page, session.size)
<1>1. session # None /\ session.page # 0 /\ todo = None /\ UNCHANGED <<archived, stored>>
  BY DEF LoadPage, Importing
<1>2. /\ session \in Session /\ session.page \in Nat \ {0} /\ session.size \in Nat \ {0}
      /\ session.began \in Nat /\ session.cutoff \in Int /\ archived \in Nat
  BY <1>1, SessionFields DEF RefreshInv
<1>3. /\ todo' = {i \in page : i >= session.cutoff}
      /\ session' = [session EXCEPT !.stop = \E i \in page : i < session.cutoff]
  BY DEF LoadPage
<1>4. /\ session' # None /\ session'.mode = session.mode /\ session'.page = session.page
      /\ session'.size = session.size /\ session'.cutoff = session.cutoff
      /\ session'.began = session.began
      /\ session'.stop = \E i \in page : i < session.cutoff
  BY <1>1, <1>2, <1>3, NoneAssumption DEF Session
<1>5. todo' # None
  <2>1. archived \in 0..MaxMatches /\ 1..archived \subseteq Match
    BY HIAssumption DEF RefreshInv, TypeOK, Match
  <2>2. todo' \in SUBSET Match
    BY <1>3, <2>1 DEF Page
  <2>3. QED
    BY <2>2, NoneAssumption
<1>6. Standing'
  BY <1>1, <1>4, <1>5 DEF Standing
<1>7. Reached'
  <2> SUFFICES ASSUME session.mode = "incremental"
               PROVE  Reached'
    BY <1>4 DEF Reached
  <2>1. /\ session.began <= archived
        /\ Wanted \intersect Before(session.page, session.size) \subseteq stored
    BY <1>1 DEF RefreshInv, Reached
  <2>2. Before(session.page + 1, session.size)
          \subseteq Before(session.page, session.size) \union page
    BY <1>2, NextPage
  <2>3. Wanted' = Wanted
    BY <1>4 DEF Wanted
  <2>4. Wanted \intersect page \subseteq todo'
    BY <1>3 DEF Wanted
  <2>5. Wanted \intersect Before(session.page + 1, session.size) \subseteq stored \union todo'
    BY <2>1, <2>2, <2>4
  <2>6. ASSUME session'.stop
        PROVE  Wanted \subseteq Before(session.page + 1, session.size)
    <3>1. PICK j \in page : j < session.cutoff
      BY <1>4, <2>6
    <3>2. j \in Int /\ archived - session.page * session.size < j
      BY DEF Page
    <3>3. \A i \in Wanted : i \in 1..archived /\ i >= j
      BY <1>2, <2>1, <3>1, <3>2 DEF Wanted
    <3>4. QED
      BY <1>2, <3>2, <3>3, NewerThanPage
  <2>7. Before(session.page + 1, session.size)' = Before(session.page + 1, session.size)
    BY <1>1, <1>4 DEF Before
  <2>8. QED
    BY <1>1, <1>4, <1>5, <2>1, <2>3, <2>5, <2>6, <2>7 DEF Reached
<1>8. QED
  BY <1>6, <1>7 DEF RefreshInv

LEMMA RefreshUpsert == ASSUME RefreshInv, TypeOK', UpsertMatch PROVE RefreshInv'
<1>1. /\ UNCHANGED <<archived, session>> /\ todo # None
      /\ stored \union todo \subseteq stored' \union todo'
      /\ todo' = todo \ {Max(todo)}
  BY DEF UpsertMatch
<1>2. todo \in SUBSET Match
  <2>1. archived \in 0..MaxMatches /\ todo \subseteq 1..archived
    BY <1>1 DEF RefreshInv, TypeOK
  <2>2. QED
    BY <2>1, HIAssumption DEF Match
<1>3. todo' # None
  <2>1. todo' \in SUBSET Match
    BY <1>1, <1>2
  <2>2. QED
    BY <2>1, NoneAssumption
<1>4. Wanted' = Wanted
  BY <1>1 DEF Wanted
<1>5. Standing'
  BY <1>1, <1>3 DEF RefreshInv, Standing
<1>6. Reached'
  BY <1>1, <1>3, <1>4 DEF RefreshInv, Reached, Before
<1>7. QED
  BY <1>5, <1>6 DEF RefreshInv

\* Nothing of the page is left, and the session goes on before the cutoff only.
LEMMA RefreshPageDone == ASSUME RefreshInv, TypeOK', CompletePage PROVE RefreshInv'
<1>1. todo = {} /\ todo' = None /\ UNCHANGED <<archived, stored>> /\ {} # None
  BY NoneAssumption DEF CompletePage
<1>2. session # None
  BY <1>1 DEF RefreshInv, TypeOK
<1>3. session \in Session /\ session.page \in Nat /\ session.stop \in BOOLEAN
  BY <1>2, SessionFields DEF RefreshInv
<1>4. session' # None =>
        /\ ~session.stop /\ session'.mode = session.mode /\ session'.page = session.page + 1
        /\ session'.size = session.size /\ session'.cutoff = session.cutoff
        /\ session'.began = session.began /\ session'.stop = session.stop
  BY <1>3 DEF CompletePage, Session
<1>5. session.page # 0
  BY <1>1, <1>2 DEF RefreshInv, Standing
<1>6. Standing'
  BY <1>1, <1>4 DEF Standing
<1>7. session' # None => Wanted' = Wanted
  BY <1>4 DEF Wanted
<1>8. Reached'
  <2> SUFFICES ASSUME session' # None, session.mode = "incremental"
               PROVE  Reached'
    BY <1>4 DEF Reached
  <2>1. /\ session.began <= archived
        /\ Wanted \intersect Before(session.page + 1, session.size) \subseteq stored
    BY <1>1, <1>2, <1>5 DEF RefreshInv, Reached
  <2>2. QED
    BY <1>1, <1>4, <1>7, <2>1 DEF Reached, Before
<1>9. QED
  BY <1>6, <1>8 DEF RefreshInv

LEMMA RefreshAlways == Spec => []RefreshInv
<1>1. Init => RefreshInv
  BY RefreshInit
<1>2. RefreshInv /\ [Next]_vars => RefreshInv'
  <2> SUFFICES ASSUME RefreshInv, [Next]_vars PROVE RefreshInv'
    OBVIOUS
  <2>0. TypeOK'
    BY TypeStep, HIAssumption, NoneAssumption DEF RefreshInv
  <2>1. CASE EndOfArchive \/ Fail
    <3>1. session' = None
      BY <2>1 DEF EndOfArchive, Fail
    <3>2. QED
      BY <2>0, <3>1 DEF RefreshInv, Standing, Reached
  <2>2. CASE UNCHANGED vars
    BY <2>0, <2>2 DEF vars, RefreshInv, Standing, Reached, Wanted, Before
  <2>3. QED
    BY <2>0, <2>1, <2>2, RefreshArchive, RefreshStarts, RefreshLoad, RefreshUpsert,
       RefreshPageDone DEF Next, Ingest
<1>3. QED
  BY <1>1, <1>2, PTL DEF Spec

\* A refresh that ends well, and not at its page limit, has stored what the archive
\* held since the cutoff when it began, for every page size, overlap and growth.
THEOREM RefreshReaches == Spec => RefreshReachesCutoff
<1>1. RefreshInv /\ [Next]_vars =>
        [ /\ session # None /\ session' = None /\ fails' = fails
          /\ session.mode = "incremental" /\ (session.left > 1 \/ session.stop)
          => {i \in 1..session.began : i >= session.cutoff} \subseteq stored' ]_vars
  <2> SUFFICES ASSUME RefreshInv, [Next]_vars, session # None, session' = None, fails' = fails,
                      session.mode = "incremental", session.left > 1 \/ session.stop
               PROVE  Wanted \subseteq stored'
    BY DEF Wanted
  <2>1. CASE EndOfArchive
    <3>1. /\ session.page # 0 /\ todo = None /\ Page(session.page, session.size) = {}
          /\ stored' = stored
      BY <2>1 DEF EndOfArchive, Importing
    <3>2. /\ session.page \in Nat \ {0} /\ session.size \in Nat \ {0} /\ archived \in Nat
          /\ session.began \in Nat
      BY <3>1, SessionFields DEF RefreshInv
    <3>3. 1..archived \subseteq Before(session.page, session.size)
      BY <3>1, <3>2, LastPage
    <3>4. /\ session.began <= archived
          /\ Wanted \intersect Before(session.page, session.size) \subseteq stored
      BY <3>1 DEF RefreshInv, Reached
    <3>5. Wanted \subseteq 1..archived
      BY <3>2, <3>4 DEF Wanted
    <3>6. QED
      BY <3>1, <3>3, <3>4, <3>5
  <2>2. CASE CompletePage
    <3>1. /\ todo = {} /\ stored' = stored /\ {} # None /\ (session.stop \/ session.left = 1)
      <4>1. session \in Session
        BY SessionFields DEF RefreshInv
      <4>2. ASSUME session.left # 1
            PROVE  [session EXCEPT !.page = @ + 1, !.left = @ - 1] \in Session
        <5>1. session.page + 1 \in Nat /\ session.left - 1 \in Nat \ {0}
          BY <4>1, <4>2 DEF Session
        <5> QED
          BY <4>1, <5>1 DEF Session
      <4>3. session.stop \/ session.left = 1
        BY <2>2, <4>2, NoneAssumption DEF CompletePage
      <4> QED
        BY <2>2, <4>3, NoneAssumption DEF CompletePage
    <3>2. session.stop
      BY <3>1
    <3>3. session.page # 0
      BY <3>1 DEF RefreshInv, Standing
    <3>4. QED
      BY <3>1, <3>2, <3>3 DEF RefreshInv, Reached
  <2>3. CASE Fail
    BY <2>3 DEF Fail, RefreshInv, TypeOK, HIAssumption
  <2>4. CASE Bootstrap \/ Refresh
    BY <2>4 DEF Bootstrap, Refresh, Begin
  <2>5. CASE Archive \/ UpsertMatch \/ UNCHANGED vars
    BY <2>5 DEF Archive, UpsertMatch, vars
  <2>6. CASE AttemptPrimary \/ StartImport \/ LoadPage
    BY <2>6, SessionGoesOn DEF RefreshInv
  <2>7. QED
    BY <2>1, <2>2, <2>3, <2>4, <2>5, <2>6 DEF Next, Ingest
<1>2. QED
  BY <1>1, RefreshAlways, PTL DEF Spec, RefreshReachesCutoff

-----------------------------------------------------------------------------
(***************************************************************************)
(* ScoreboardLinks: a link leads to the match's own page, for any matches, *)
(* whatever they have in common.  A window of AdminLog gives its own match *)
(* ten points and any other at most eight, a window of samples six and     *)
(* four: the middle of a window lies in one match only.                    *)
(***************************************************************************)
LEMMA MatchesInOrder ==
  ASSUME NEW i \in Match, NEW j \in Match, i # j
  PROVE  /\ Played[i].start \in Int /\ Played[i].end \in Int
         /\ Played[j].start \in Int /\ Played[j].end \in Int
         /\ Played[i].end <= Played[j].start \/ Played[j].end <= Played[i].start
<1>1. i < j \/ j < i
  BY HIAssumption DEF Match
<1> QED
  BY <1>1, PlayedAssumption

-----------------------------------------------------------------------------
(* Windows of AdminLog.                                                    *)

LEMMA OwnAdminLogScore ==
  ASSUME NEW i \in Match, NEW w \in AdminLogWindows(i)
  PROVE  Score(i, w) = 10
<1> DEFINE c == Played[i]
<1>1. PICK a \in 0..LongestLag, b \in 0..LongestLag :
        w = [map |-> c.map, start |-> c.start + a, end |-> c.end + b,
             result |-> c.result, alike |-> {}]
  BY DEF AdminLogWindows
<1>2. /\ c.start \in Int /\ c.end \in Int /\ c.result # None
      /\ 2 * LongestLag < c.end - c.start
      /\ LongestLag \in Nat /\ Near \in Nat /\ LongestLag <= Near
  BY PlayedAssumption, ConfidenceAssumption
<1>3. w.start = c.start + a /\ w.end = c.end + b /\ w.result = c.result /\ w.alike = {}
  BY <1>1
<1> HIDE DEF c
<1>4. Overlapping(c, w)
  BY <1>2, <1>3 DEF Overlapping
<1>5. AroundMiddle(c, w)
  BY <1>2, <1>3 DEF AroundMiddle
<1>6. EdgesWithin(c, w, Near)
  BY <1>2, <1>3 DEF EdgesWithin
<1>7. LengthsAgree(c, w)
  BY <1>2, <1>3 DEF LengthsAgree, Length
<1>8. ResultPoints(c, w) = 2
  BY <1>2, <1>3 DEF ResultPoints
<1> USE DEF c
<1> QED
  BY <1>3, <1>4, <1>5, <1>6, <1>7, <1>8 DEF Score, Points

LEMMA OtherAdminLogScore ==
  ASSUME NEW i \in Match, NEW j \in Match, i # j, NEW w \in AdminLogWindows(i)
  PROVE  Score(j, w) \in 0..8
<1> DEFINE c == Played[j]
<1>1. PICK a \in 0..LongestLag, b \in 0..LongestLag :
        w = [map |-> Played[i].map, start |-> Played[i].start + a,
             end |-> Played[i].end + b, result |-> Played[i].result, alike |-> {}]
  BY DEF AdminLogWindows
<1>2. 2 * LongestLag < Played[i].end - Played[i].start /\ LongestLag \in Nat
  BY PlayedAssumption
<1>3. /\ w.start = Played[i].start + a /\ w.end = Played[i].end + b
      /\ w.alike = {}
  BY <1>1
<1>4. ~ AroundMiddle(c, w)
  BY <1>2, <1>3, MatchesInOrder DEF AroundMiddle
<1>5. ResultPoints(c, w) \in 0..2
  BY DEF ResultPoints
<1> QED
  BY <1>3, <1>4, <1>5 DEF Score, Points

-----------------------------------------------------------------------------
(* Windows of samples.                                                     *)

LEMMA OwnSessionScore ==
  ASSUME NEW i \in Match, NEW w \in SessionWindows(i)
  PROVE  Score(i, w) \in 6..8
<1> DEFINE c == Played[i]
<1>1. /\ c.start \in Int /\ c.end \in Int
      /\ w.start \in c.start..c.end /\ w.end \in c.start..c.end
      /\ w.start < w.end /\ w.result = None
      /\ w.alike = {} \/ w.alike = Match \ {i}
  BY PlayedAssumption DEF SessionWindows
<1> HIDE DEF c
<1>2. Overlapping(c, w)
  BY <1>1 DEF Overlapping
<1>3. AroundMiddle(c, w)
  BY <1>1 DEF AroundMiddle
<1>4. LengthsAgree(c, w)
  BY <1>1, <1>2 DEF LengthsAgree, Length
<1>5. ResultPoints(c, w) = 0
  BY <1>1 DEF ResultPoints
<1>6. i \notin w.alike
  BY <1>1
<1> USE DEF c
<1> QED
  BY <1>2, <1>3, <1>4, <1>5, <1>6 DEF Score, Points

LEMMA OtherSessionScore ==
  ASSUME NEW i \in Match, NEW j \in Match, i # j, NEW w \in SessionWindows(i)
  PROVE  Score(j, w) \in 0..4
<1> DEFINE c == Played[j]
<1>1. /\ w.start \in Played[i].start..Played[i].end
      /\ w.end \in Played[i].start..Played[i].end
      /\ w.start < w.end /\ w.result = None
  BY DEF SessionWindows
<1>2. ~ Overlapping(c, w)
  BY <1>1, MatchesInOrder DEF Overlapping
<1>3. ~ AroundMiddle(c, w)
  BY <1>1, MatchesInOrder DEF AroundMiddle
<1>4. ResultPoints(c, w) = 0
  BY <1>1 DEF ResultPoints
<1> QED
  BY <1>2, <1>3, <1>4 DEF Score, Points

-----------------------------------------------------------------------------
(* The choice.                                                             *)

LEMMA SessionScoresApart ==
  ASSUME NEW i \in Match, NEW s \in SessionScores[i]
  PROVE  s[i] \in 6..8 /\ \A j \in Match \ {i} : s[j] \in 0..4
<1>1. PICK w \in SessionWindows(i) : s = Scores(w)
  BY DEF SessionScores
<1>2. w.map = Played[i].map
  BY DEF SessionWindows
<1>3. s[i] = Score(i, w)
  BY <1>1, <1>2 DEF Scores
<1>4. \A j \in Match \ {i} : s[j] = Score(j, w) \/ s[j] = 0
  BY <1>1 DEF Scores
<1> QED
  BY <1>3, <1>4, OwnSessionScore, OtherSessionScore

LEMMA AdminLogScoresApart ==
  ASSUME NEW i \in Match, NEW s \in AdminLogScores[i]
  PROVE  s[i] = 10 /\ \A j \in Match \ {i} : s[j] \in 0..8
<1>1. PICK w \in AdminLogWindows(i) : s = Scores(w)
  BY DEF AdminLogScores
<1>2. w.map = Played[i].map
  BY DEF AdminLogWindows
<1>3. s[i] = Score(i, w)
  BY <1>1, <1>2 DEF Scores
<1>4. \A j \in Match \ {i} : s[j] = Score(j, w) \/ s[j] = 0
  BY <1>1 DEF Scores
<1> QED
  BY <1>3, <1>4, OwnAdminLogScore, OtherAdminLogScore

\* Whatever is stored: a match that is a candidate gets its own link, and the
\* session of one that is not gets none.
LEMMA ChoiceIsOwn ==
  ASSUME NEW i \in Match, Candidates \subseteq Match
  PROVE  /\ i \in Candidates =>
              \A s \in AdminLogScores[i] \cup SessionScores[i] : Linkable(s) = {i}
         /\ i \notin Candidates => \A s \in SessionScores[i] : Linkable(s) = {}
<1>1. ASSUME NEW s, s[i] \in 5..10, \A j \in Match \ {i} : s[j] \in 0..8 /\ s[j] < s[i],
             i \in Candidates
      PROVE  Linkable(s) = {i}
  <2>1. Best(s, i) /\ s[i] >= MinConfidence
    BY <1>1, ConfidenceAssumption DEF Best
  <2>2. \A j \in Candidates \ {i} : ~ Best(s, j)
    BY <1>1 DEF Best
  <2> QED
    BY <1>1, <2>1, <2>2 DEF Linkable
<1>2. ASSUME NEW s \in SessionScores[i], i \notin Candidates
      PROVE  Linkable(s) = {}
  <2>1. \A j \in Candidates : s[j] < MinConfidence /\ s[j] \in Int
    BY <1>2, SessionScoresApart, ConfidenceAssumption
  <2> QED
    BY <2>1, ConfidenceAssumption DEF Linkable
<1>3. ASSUME NEW s \in SessionScores[i]
      PROVE  s[i] \in 5..10 /\ \A j \in Match \ {i} : s[j] \in 0..8 /\ s[j] < s[i]
  BY SessionScoresApart
<1>4. ASSUME NEW s \in AdminLogScores[i]
      PROVE  s[i] \in 5..10 /\ \A j \in Match \ {i} : s[j] \in 0..8 /\ s[j] < s[i]
  BY AdminLogScoresApart
<1> QED
  BY <1>1, <1>2, <1>3, <1>4

-----------------------------------------------------------------------------
(* Candidates are matches of the archive.                                  *)

LinkInv ==
  /\ archived \in 0..MaxMatches
  /\ stored \subseteq 1..archived
  /\ copied \subseteq 1..archived
  /\ details \subseteq 1..archived

LEMMA CandidatesAreMatches == LinkInv => Candidates \subseteq Match
<1> SUFFICES ASSUME LinkInv
             PROVE  Candidates \subseteq Match
  OBVIOUS
<1>1. Candidates \subseteq 1..archived
  BY DEF LinkInv, Candidates, Latest
<1>2. 1..archived \subseteq Match
  BY HIAssumption DEF LinkInv, Match
<1> QED
  BY <1>1, <1>2

LEMMA LinkInvInit == LinkInit => LinkInv
  BY HIAssumption DEF LinkInit, Init, LinkInv

LEMMA LinkInvStep == LinkInv /\ [LinkNext]_allVars => LinkInv'
<1> SUFFICES ASSUME LinkInv, [LinkNext]_allVars
             PROVE  LinkInv'
  OBVIOUS
<1>0. archived \in Nat /\ MaxMatches \in Nat
  BY HIAssumption DEF LinkInv
<1>1. CASE Archive /\ UNCHANGED linkVars
  BY <1>0, <1>1 DEF Archive, LinkInv, linkVars
<1>2. CASE SessionStores
  BY <1>2 DEF SessionStores, StoreMatch, LinkInv
<1>3. CASE CopyCandidates
  <2>1. Candidates \subseteq 1..archived
    BY <1>3 DEF Candidates, Latest, LinkInv
  <2> QED
    BY <2>1, <1>3 DEF CopyCandidates, vars, LinkInv
<1>4. CASE ToolPage
  <2>1. PICK size \in PageSizes, p \in 1..archived, from \in 1..archived, to \in 1..archived :
          LET inRange == Page(p, size) \cap from..to IN
          /\ details' = inRange
          /\ \E inserted \in SUBSET inRange :
               copied' = IF postgres THEN copied \cup inserted ELSE copied
    BY <1>4 DEF ToolPage
  <2>2. Page(p, size) \subseteq 1..archived
    BY DEF Page
  <2>3. details' \subseteq 1..archived /\ copied' \subseteq 1..archived
    BY <2>1, <2>2 DEF LinkInv
  <2> QED
    BY <2>3, <1>4 DEF ToolPage, vars, LinkInv
<1>5. CASE ToolFails
  BY <1>5 DEF ToolFails, vars, LinkInv
<1>6. CASE ToolDetail
  <2>1. Max(details) \in details
    BY <1>0, <1>6, NewestIsOne DEF ToolDetail, LinkInv
  <2> QED
    BY <2>1, <1>6 DEF ToolDetail, StoreMatch, LinkInv
<1>7. CASE UNCHANGED allVars
  BY <1>7 DEF allVars, vars, linkVars, LinkInv
<1> QED
  BY <1>1, <1>2, <1>3, <1>4, <1>5, <1>6, <1>7 DEF LinkNext, Tool

LEMMA LinkInvOwn == LinkInv => LinkedToItsOwn
<1> SUFFICES ASSUME LinkInv, NEW i \in 1..archived
             PROVE  IF i \in Candidates
                    THEN \A s \in AdminLogScores[i] \cup SessionScores[i] : Linkable(s) = {i}
                    ELSE \A s \in SessionScores[i] : Linkable(s) = {}
  BY DEF LinkedToItsOwn
<1>1. i \in Match
  BY HIAssumption DEF LinkInv, Match
<1> QED
  BY <1>1, CandidatesAreMatches, ChoiceIsOwn

\* Whatever matches are played, whatever sessions and the tool store, in whatever
\* order and with whatever failures: a match that is a candidate is linked to
\* itself only, and the window of a session without its match to none.
THEOREM LinksAreOwn == LinkSpec => []LinkedToItsOwn
<1>1. LinkInit => LinkInv
  BY LinkInvInit
<1>2. LinkInv /\ [LinkNext]_allVars => LinkInv'
  BY LinkInvStep
<1>3. LinkInv => LinkedToItsOwn
  BY LinkInvOwn
<1> QED
  BY <1>1, <1>2, <1>3, PTL DEF LinkSpec
=============================================================================
