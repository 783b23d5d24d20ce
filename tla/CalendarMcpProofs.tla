------------------------- MODULE CalendarMcpProofs -------------------------
(***************************************************************************)
(* What read_range promises, for every calendar the search can see whole:  *)
(* degraded or exactly what is there, however the search is paged and      *)
(* wherever it fails.  And no token expires under a request.               *)
(***************************************************************************)
EXTENDS CalendarMcp, FiniteSetTheorems, TLAPS

\* What the assumption says of each constant.
LEMMA Parameters ==
  /\ First \in Int /\ Last \in Int
  /\ LOOKBACK_DAYS \in Nat \ {0} /\ MAX_ALL_DAY_SPAN \in Nat \ {0}
  /\ PAGE_LIMIT \in Nat \ {0} /\ MAX_PAGES \in Nat \ {0}
  /\ Life \in Nat /\ Slack \in Nat /\ Timeout \in Nat /\ Timeout <= Slack /\ Slack < Life
  /\ Entries \in Seq(Entry) /\ Mailboxes \subseteq SUBSET DOMAIN Entries
BY McpAssumption DEF McpAssumption

-----------------------------------------------------------------------------
(* Pages *)

\* The hits of the query are finitely many and ranked from 1.
LEMMA RankFacts ==
  ASSUME mailbox \subseteq DOMAIN Entries
  PROVE  /\ Cardinality(Hits) \in Nat
         /\ \A i \in Hits : Rank(i) \in 1 .. Cardinality(Hits)
<1>1. DOMAIN Entries = 1 .. Len(Entries) /\ Len(Entries) \in Nat
  BY Parameters
<1>2. IsFiniteSet(DOMAIN Entries)
  BY <1>1, FS_Interval
<1>3. IsFiniteSet(Hits) /\ Hits \subseteq DOMAIN Entries
  BY <1>2, FS_Subset DEF Hits
<1>4. Cardinality(Hits) \in Nat
  BY <1>3, FS_CardinalityType
<1>5. ASSUME NEW i \in Hits
      PROVE  Rank(i) \in 1 .. Cardinality(Hits)
  <2> DEFINE S == {j \in Hits : j <= i}
  <2>1. IsFiniteSet(S) /\ Cardinality(S) <= Cardinality(Hits)
    BY <1>3, FS_Subset
  <2>2. i \in S
    BY <1>1, <1>3
  <2>3. Cardinality(S) \in Nat /\ Cardinality(S) # 0
    BY <2>1, <2>2, FS_CardinalityType, FS_EmptySet
  <2> QED
    BY <1>4, <2>1, <2>3 DEF Rank
<1> QED
  BY <1>4, <1>5

\* While the search goes on it has the hits up to its offset; when it is over it has
\* all of them, or knows that it has not, or was given nothing.
SearchInv ==
  /\ mailbox \subseteq DOMAIN Entries
  /\ run = [pc |-> run.pc, shaken |-> run.shaken, offset |-> run.offset, pages |-> run.pages,
            items |-> run.items, partial |-> run.partial]
  /\ run.partial \in BOOLEAN
  /\ run.pc # "idle" => answer = Contract!NoAnswer
  /\ run.pc \in {"token", "sent"} =>
       /\ run.offset \in Nat /\ run.pages \in Nat /\ run.pages < MAX_PAGES
       /\ ~ run.partial => run.items = {i \in Hits : Rank(i) <= run.offset}
  /\ run.pc = "parse" => run.partial \/ run.items = Hits \/ run.items = {}

\* While the mailbox stays, what the query matches stays.
LEMMA HitsStay == mailbox' = mailbox => Hits' = Hits /\ \A i : Rank(i)' = Rank(i)
BY DEF Hits, Rank

\* Taking a page keeps the invariant: a whole page, a partial one or none.
LEMMA PageStep ==
  ASSUME SearchInv, NEW items, NEW more \in BOOLEAN, NEW partial \in BOOLEAN,
         TakePage(items, more, partial),
         \/ partial
         \/ items = PageAt(run.offset) /\ more = More(run.offset)
         \/ items = {} /\ run.offset = 0 /\ ~ more
  PROVE  SearchInv'
<1>1. /\ run.pc = "sent" /\ UNCHANGED <<mailbox, cache, answer>>
      /\ run' = [run EXCEPT
           !.items = @ \union items,
           !.partial = @ \/ partial \/ CutShort(more),
           !.pages = @ + 1,
           !.offset = IF more THEN @ + PAGE_LIMIT ELSE @,
           !.pc = IF GoesOn(more) THEN "token" ELSE "parse"]
  BY DEF TakePage, Arrives
<1>0. /\ mailbox \subseteq DOMAIN Entries /\ answer = Contract!NoAnswer
      /\ run = [pc |-> run.pc, shaken |-> run.shaken, offset |-> run.offset,
                pages |-> run.pages, items |-> run.items, partial |-> run.partial]
      /\ run.partial \in BOOLEAN
      /\ run.offset \in Nat /\ run.pages \in Nat /\ run.pages < MAX_PAGES
      /\ ~ run.partial => run.items = {i \in Hits : Rank(i) <= run.offset}
  BY <1>1 DEF SearchInv
<1>m. MAX_PAGES \in Nat /\ PAGE_LIMIT \in Nat \ {0}
  BY Parameters
<1>r. /\ Cardinality(Hits) \in Nat
      /\ \A i \in Hits : Rank(i) \in 1 .. Cardinality(Hits)
  BY <1>0, RankFacts
<1>h. Hits' = Hits /\ \A i : Rank(i)' = Rank(i)
  BY <1>1, HitsStay
<1>c. CutShort(more) \in BOOLEAN /\ GoesOn(more) \in BOOLEAN
  BY <1>0, <1>m DEF CutShort, GoesOn
<1>2. run' = [pc |-> IF GoesOn(more) THEN "token" ELSE "parse", shaken |-> run.shaken,
              offset |-> IF more THEN run.offset + PAGE_LIMIT ELSE run.offset,
              pages |-> run.pages + 1, items |-> run.items \union items,
              partial |-> (run.partial \/ partial \/ CutShort(more))]
  BY <1>0, <1>1
<1>3. /\ run'.pc = (IF GoesOn(more) THEN "token" ELSE "parse")
      /\ run'.offset = (IF more THEN run.offset + PAGE_LIMIT ELSE run.offset)
      /\ run'.pages = run.pages + 1
      /\ run'.items = run.items \union items
      /\ run'.partial = (run.partial \/ partial \/ CutShort(more))
      /\ run' = [pc |-> run'.pc, shaken |-> run'.shaken, offset |-> run'.offset,
                 pages |-> run'.pages, items |-> run'.items, partial |-> run'.partial]
  BY <1>2
<1>p. run'.partial \in BOOLEAN
  BY <1>0, <1>3, <1>c
<1>4. ASSUME ~ run.partial, items = PageAt(run.offset)
      PROVE  run'.items = {i \in Hits : Rank(i) <= run.offset + PAGE_LIMIT}
  BY <1>0, <1>3, <1>4, <1>m, <1>r DEF PageAt
<1>5. CASE GoesOn(more)
  <2>1. more /\ run.pages + 1 < MAX_PAGES
    BY <1>5 DEF GoesOn
  <2>2. ~ run'.partial => ~ run.partial /\ ~ partial
    BY <1>3
  <2>3. ~ run'.partial => run'.items = {i \in Hits : Rank(i) <= run'.offset}
    BY <1>3, <1>4, <2>1, <2>2
  <2>4. ~ run'.partial => run'.items = {i \in Hits' : Rank(i)' <= run'.offset}
    BY <1>h, <2>3
  <2> QED
    <3>1. run'.offset \in Nat /\ run'.pages \in Nat /\ run'.pages < MAX_PAGES
      BY <1>0, <1>3, <1>m, <2>1
    <3>2. run'.pc = "token" /\ mailbox' \subseteq DOMAIN Entries /\ answer' = Contract!NoAnswer
      BY <1>0, <1>1, <1>3, <1>5
    <3> QED
      BY <1>3, <1>p, <2>4, <3>1, <3>2 DEF SearchInv
<1>6. CASE ~ GoesOn(more)
  <2>0. more => CutShort(more)
    BY <1>0, <1>m, <1>6 DEF GoesOn, CutShort
  <2>1. ~ run'.partial => ~ run.partial /\ ~ partial /\ ~ more
    BY <1>3, <2>0
  <2>2. ASSUME ~ run'.partial PROVE run'.items = Hits \/ run'.items = {}
    <3>1. CASE items = PageAt(run.offset) /\ more = More(run.offset)
      <4>1. Cardinality(Hits) <= run.offset + PAGE_LIMIT
        <5>1. ~ More(run.offset)
          BY <2>1, <2>2, <3>1
        <5> QED
          BY <1>0, <1>m, <1>r, <5>1 DEF More
      <4>2. run'.items = {i \in Hits : Rank(i) <= run.offset + PAGE_LIMIT}
        BY <1>4, <2>1, <2>2, <3>1
      <4>3. \A i \in Hits : Rank(i) <= run.offset + PAGE_LIMIT
        BY <1>0, <1>m, <1>r, <4>1
      <4> QED
        BY <4>2, <4>3
    <3>2. CASE items = {} /\ run.offset = 0
      BY <1>0, <1>3, <1>r, <2>1, <2>2, <3>2
    <3> QED
      BY <2>1, <2>2, <3>1, <3>2
  <2>3. run'.partial \/ run'.items = Hits' \/ run'.items = {}
    BY <1>h, <1>p, <2>2
  <2> QED
    BY <1>0, <1>1, <1>3, <1>6, <1>p, <2>3 DEF SearchInv
<1> QED
  BY <1>5, <1>6

\* A run that has ended remembers nothing that could be wrong.
LEMMA IdleKeepsSearch ==
  ASSUME SearchInv, run' = IdleRun, mailbox' = mailbox
  PROVE  SearchInv'
BY DEF SearchInv, IdleRun

\* Every step keeps what is known of the search.
LEMMA SearchStep == SearchInv /\ [Next]_vars => SearchInv'
<1> SUFFICES ASSUME SearchInv, [Next]_vars PROVE SearchInv'
  OBVIOUS
<1>m. MAX_PAGES \in Nat \ {0}
  BY Parameters
<1>h. mailbox' = mailbox => Hits' = Hits /\ \A i : Rank(i)' = Rank(i)
  BY HitsStay
<1>1. CASE Start
  <2>1. /\ run' = [IdleRun EXCEPT !.pc = "token"] /\ answer' = Contract!NoAnswer
        /\ mailbox' = mailbox
    BY <1>1 DEF Start
  <2>2. run' = [pc |-> "token", shaken |-> FALSE, offset |-> 0, pages |-> 0,
                items |-> {}, partial |-> FALSE]
    BY <2>1 DEF IdleRun
  <2>3. {i \in Hits : Rank(i) <= 0} = {}
    BY RankFacts DEF SearchInv
  <2>4. {i \in Hits' : Rank(i)' <= 0} = {}
    BY <1>h, <2>1, <2>3
  <2>5. /\ run'.pc = "token" /\ run'.offset = 0 /\ run'.pages = 0 /\ run'.items = {}
        /\ run'.partial = FALSE /\ run'.shaken = FALSE
    BY <2>2
  <2>s. run' = [pc |-> run'.pc, shaken |-> run'.shaken, offset |-> run'.offset,
                pages |-> run'.pages, items |-> run'.items, partial |-> run'.partial]
    BY <2>2, <2>5
  <2>b. mailbox' \subseteq DOMAIN Entries
    BY <2>1 DEF SearchInv
  <2>6. run'.items = {i \in Hits' : Rank(i)' <= run'.offset}
    BY <2>4, <2>5
  <2>7. run'.offset \in Nat /\ run'.pages \in Nat /\ run'.pages < MAX_PAGES
    BY <1>m, <2>5
  <2> QED
    BY <2>1, <2>5, <2>6, <2>7, <2>b, <2>s DEF SearchInv
<1>2. CASE UseCached \/ Refresh \/ Handshake
  <2>1. /\ UNCHANGED <<mailbox, answer>> /\ run.pc \in {"token", "sent"}
        /\ \/ run' = [run EXCEPT !.pc = "sent"]
           \/ run' = [run EXCEPT !.pc = "token", !.shaken = TRUE]
    BY <1>2 DEF UseCached, Refresh, Handshake, SendWith, Arrives
  <2>2. /\ run'.pc \in {"token", "sent"} /\ run'.offset = run.offset /\ run'.pages = run.pages
        /\ run'.items = run.items /\ run'.partial = run.partial
        /\ run' = [pc |-> run'.pc, shaken |-> run'.shaken, offset |-> run'.offset,
                   pages |-> run'.pages, items |-> run'.items, partial |-> run'.partial]
    BY <2>1 DEF SearchInv
  <2> QED
    BY <1>h, <2>1, <2>2 DEF SearchInv
<1>3. CASE NoUsableToken \/ Unauthorised \/ ConnectorFails \/ ConnectorHangs \/ Conclude
  BY <1>3, IdleKeepsSearch
     DEF NoUsableToken, Unauthorised, ConnectorFails, ConnectorHangs, Conclude, Degrade, Arrives
<1>4. CASE Page
  <2>1. More(run.offset) \in BOOLEAN
    BY DEF More
  <2> QED
    BY <1>4, <2>1, PageStep DEF Page
<1>5. CASE PartialPage
  BY <1>5, PageStep DEF PartialPage
<1>6. CASE BlindPage
  BY <1>6, PageStep DEF BlindPage
<1>7. CASE Tick \/ UNCHANGED vars
  BY <1>7, <1>h DEF Tick, vars, SearchInv
<1> QED
  BY <1>1, <1>2, <1>3, <1>4, <1>5, <1>6, <1>7 DEF Next

\* What is known of the search is so in every state.
LEMMA SearchIsWhole == Spec => []SearchInv
<1>1. Init => SearchInv
  <2> SUFFICES ASSUME Init PROVE SearchInv
    OBVIOUS
  <2>1. mailbox \subseteq DOMAIN Entries /\ run = IdleRun
    BY Parameters DEF Init
  <2> QED
    BY <2>1 DEF SearchInv, IdleRun
<1> QED
  BY <1>1, SearchStep, PTL DEF Spec

-----------------------------------------------------------------------------
(* Tokens *)

\* The lifetime that is left of a token and the time its request has taken add up
\* to more than the slack, which is the most a request may take.
TokenInv ==
  /\ cache.life \in Nat
  /\ cache = [life |-> cache.life, whole |-> cache.whole]
  /\ run.pc = "sent" =>
       /\ held = [life |-> held.life, waited |-> held.waited]
       /\ held.life \in Nat /\ held.waited \in 0 .. Timeout
       /\ held.life + held.waited > Slack

\* A request starts with a token that outlives the slack.
LEMMA SentToken ==
  ASSUME NEW life \in Nat, life > Slack, SendWith(life)
  PROVE  /\ held' = [life |-> held'.life, waited |-> held'.waited]
         /\ held'.life \in Nat /\ held'.waited \in 0 .. Timeout
         /\ held'.life + held'.waited > Slack
BY Parameters DEF SendWith

\* Every step keeps what is known of the tokens.
LEMMA TokenStep == SearchInv /\ TokenInv /\ [Next]_vars => TokenInv'
<1> SUFFICES ASSUME SearchInv, TokenInv, [Next]_vars PROVE TokenInv'
  OBVIOUS
<1>1. CASE Start
  BY <1>1 DEF Start, TokenInv, Seed, IdleRun
<1>2. CASE Tick
  <2>1. CASE run.pc = "sent"
    <3>1. /\ held' = [life |-> IF held.life > 0 THEN held.life - 1 ELSE 0,
                      waited |-> held.waited + 1]
          /\ held.waited < Timeout /\ run' = run
      BY <1>2, <2>1 DEF Tick
    <3>2. held.life \in Nat /\ held.waited \in 0 .. Timeout /\ held.life + held.waited > Slack
      BY <2>1 DEF TokenInv
    <3>3. held.life > 0
      BY <3>1, <3>2, Parameters
    <3>4. held' = [life |-> held.life - 1, waited |-> held.waited + 1]
      BY <3>1, <3>3
    <3>5. cache' = [life |-> cache'.life, whole |-> cache'.whole] /\ cache'.life \in Nat
      BY <1>2 DEF Tick, TokenInv
    <3> QED
      BY <3>1, <3>2, <3>3, <3>4, <3>5, Parameters DEF TokenInv
  <2>2. CASE run.pc # "sent"
    BY <1>2, <2>2 DEF Tick, TokenInv
  <2> QED
    BY <2>1, <2>2
<1>3. CASE UseCached
  BY <1>3, SentToken DEF UseCached, Usable, TokenInv
<1>4. CASE Refresh
  <2>1. SendWith(Life) /\ Save
    BY <1>4 DEF Refresh
  <2>2. cache'.life \in Nat /\ cache' = [life |-> cache'.life, whole |-> cache'.whole]
    BY <2>1, Parameters DEF Save, Spend, TokenInv
  <2> QED
    BY <2>1, <2>2, SentToken, Parameters DEF TokenInv
<1>5. CASE NoUsableToken
  BY <1>5 DEF NoUsableToken, Degrade, IdleRun, TokenInv
<1>6. CASE Unauthorised \/ ConnectorFails \/ ConnectorHangs \/ Handshake
  <2>1. cache' = cache /\ run'.pc # "sent"
    <3>1. CASE Handshake
      <4>1. run' = [run EXCEPT !.pc = "token", !.shaken = TRUE] /\ cache' = cache
        BY <3>1 DEF Handshake, Arrives
      <4> QED
        BY <4>1 DEF SearchInv
    <3>2. CASE Unauthorised \/ ConnectorFails \/ ConnectorHangs
      BY <3>2 DEF Unauthorised, ConnectorFails, ConnectorHangs, Arrives, Degrade, IdleRun
    <3> QED
      BY <1>6, <3>1, <3>2
  <2> QED
    BY <2>1 DEF TokenInv
<1>7. CASE Page \/ PartialPage \/ BlindPage
  <2>1. \E items, more, partial : TakePage(items, more, partial)
    BY <1>7 DEF Page, PartialPage, BlindPage
  <2>2. PICK items, more, partial : TakePage(items, more, partial)
    BY <2>1
  <2>3. /\ cache' = cache
        /\ run' = [run EXCEPT
             !.items = @ \union items,
             !.partial = @ \/ partial \/ CutShort(more),
             !.pages = @ + 1,
             !.offset = IF more THEN @ + PAGE_LIMIT ELSE @,
             !.pc = IF GoesOn(more) THEN "token" ELSE "parse"]
    BY <2>2 DEF TakePage, Arrives
  <2>4. run'.pc = IF GoesOn(more) THEN "token" ELSE "parse"
    BY <2>3 DEF SearchInv
  <2> QED
    BY <2>3, <2>4 DEF TokenInv
<1>8. CASE Conclude \/ UNCHANGED vars
  BY <1>8 DEF Conclude, IdleRun, vars, TokenInv
<1> QED
  BY <1>1, <1>2, <1>3, <1>4, <1>5, <1>6, <1>7, <1>8 DEF Next

\* No access token expires while a request that carries it is under way.
THEOREM NoTokenExpiresInFlight == Spec => []TokenOutlivesRequest
<1>1. Init => TokenInv
  BY DEF Init, Seed, IdleRun, TokenInv
<1>2. TokenInv => TokenOutlivesRequest
  BY Parameters DEF TokenInv, TokenOutlivesRequest
<1> QED
  BY <1>1, <1>2, SearchIsWhole, TokenStep, PTL DEF Spec

-----------------------------------------------------------------------------
(* The contract *)

\* What the query and the parser can see whole: an entry that reaches into the
\* window begins no earlier than is looked for, is no longer than is followed, and
\* when it lasts days it is entered as all-day.
FoundWhole ==
  \A i \in DOMAIN Entries :
    Entries[i].parses /\ DaysOf[i] \intersect Window # {} =>
      /\ Entries[i].first >= First - LOOKBACK_DAYS
      /\ Entries[i].span <= MAX_ALL_DAY_SPAN
      /\ Entries[i].allDay \/ Entries[i].span = 1

\* And nothing in the window is beyond the parser.
VisibleWhole ==
  /\ FoundWhole
  /\ \A i \in DOMAIN Entries : DaysOf[i] \intersect Window # {} => Entries[i].parses

\* The types of an entry.
LEMMA EntryFacts ==
  ASSUME NEW i \in DOMAIN Entries
  PROVE  /\ Entries[i].first \in Int /\ Entries[i].span \in Nat /\ Entries[i].span # 0
         /\ Entries[i].allDay \in BOOLEAN /\ Entries[i].cancelled \in BOOLEAN
<1>1. Entries[i] \in Entry
  BY Parameters
<1> QED
  BY <1>1 DEF Entry

\* parse_event gives an entry days it covers, and all of them when it is seen whole.
LEMMA ParsedDays ==
  ASSUME NEW i \in DOMAIN Entries
  PROVE  /\ Parsed(i) \subseteq DaysOf[i]
         /\ FoundWhole /\ Entries[i].parses /\ DaysOf[i] \intersect Window # {}
              => Parsed(i) = DaysOf[i]
<1> DEFINE f == Entries[i].first
           n == Entries[i].span
           span == IF n <= MAX_ALL_DAY_SPAN THEN n ELSE MAX_ALL_DAY_SPAN
<1>1. f \in Int /\ n \in Nat /\ n # 0 /\ MAX_ALL_DAY_SPAN \in Nat /\ MAX_ALL_DAY_SPAN # 0
  BY EntryFacts, Parameters
<1>2. /\ DaysOf[i] = IF Entries[i].cancelled THEN {} ELSE f .. f + n - 1
      /\ Parsed(i) = IF Entries[i].cancelled THEN {}
                     ELSE IF ~ Entries[i].allDay THEN {f}
                     ELSE f .. f + span - 1
  BY DEF DaysOf, Parsed
<1>3. ASSUME FoundWhole, Entries[i].parses, DaysOf[i] \intersect Window # {}
      PROVE  n <= MAX_ALL_DAY_SPAN /\ (Entries[i].allDay \/ n = 1)
  BY <1>3 DEF FoundWhole
<1> HIDE DEF f, n
<1>4. {f} \subseteq f .. f + n - 1 /\ f .. f + span - 1 \subseteq f .. f + n - 1
  BY <1>1
<1>5. Parsed(i) \subseteq DaysOf[i]
  BY <1>2, <1>4
<1>6. ASSUME FoundWhole, Entries[i].parses, DaysOf[i] \intersect Window # {}
      PROVE  Parsed(i) = DaysOf[i]
  <2>1. n <= MAX_ALL_DAY_SPAN /\ (Entries[i].allDay \/ n = 1)
    BY <1>3, <1>6
  <2>2. span = n /\ (n = 1 => f .. f + n - 1 = {f})
    BY <1>1, <2>1
  <2> HIDE DEF span
  <2> QED
    BY <1>2, <2>1, <2>2
<1> QED
  BY <1>5, <1>6

\* All hits, parsed, are what the calendar holds for the window.
LEMMA AllHitsAreTheAnswer ==
  ASSUME VisibleWhole, mailbox \subseteq DOMAIN Entries, run.items = Hits
  PROVE  InRange = Contract!Holds(mailbox)
<1>1. ASSUME NEW i, NEW w \in Window
      PROVE  i \in Understood /\ w \in Parsed(i) <=> i \in mailbox /\ w \in DaysOf[i]
  <2>1. ASSUME i \in Understood, w \in Parsed(i)
        PROVE  i \in mailbox /\ w \in DaysOf[i]
    BY <2>1, ParsedDays DEF Understood, Hits
  <2>2. ASSUME i \in mailbox, w \in DaysOf[i]
        PROVE  i \in Understood /\ w \in Parsed(i)
    <3>1. i \in DOMAIN Entries /\ DaysOf[i] \intersect Window # {}
      BY <2>2
    <3>2. Entries[i].parses /\ Entries[i].first >= First - LOOKBACK_DAYS /\ Parsed(i) = DaysOf[i]
      BY <3>1, ParsedDays DEF VisibleWhole, FoundWhole
    <3>3. /\ Entries[i].first \in Int /\ First \in Int /\ Last \in Int
          /\ Entries[i].span \in Nat /\ LOOKBACK_DAYS \in Nat
      BY <3>1, EntryFacts, Parameters
    <3>4. Entries[i].first <= w /\ w <= Last /\ w \in Int
      BY <2>2, <3>1, <3>3 DEF DaysOf, Window
    <3>5. i \in Hits
      BY <2>2, <3>2, <3>3, <3>4 DEF Hits
    <3> QED
      BY <2>2, <3>2, <3>5 DEF Understood
  <2> QED
    BY <2>1, <2>2
<1> QED
  BY <1>1 DEF InRange, Contract!Holds

\* A step of the reader is one of the contract, or none of its business.
LEMMA ContractStep ==
  ASSUME RequireEvents, VisibleWhole
  PROVE  SearchInv /\ [Next]_vars => [Contract!Next]_(Contract!vars)
<1> SUFFICES ASSUME SearchInv, [Next]_vars
             PROVE  Contract!Next \/ UNCHANGED <<mailbox, answer>>
  BY DEF Contract!vars
<1>1. CASE Start
  BY <1>1 DEF Start, Contract!Next, Contract!Ask
<1>2. CASE NoUsableToken \/ Unauthorised \/ ConnectorFails
  <2>1. answer' = Contract!Degraded /\ mailbox' = mailbox /\ run.pc \in {"token", "sent"}
    BY <1>2 DEF NoUsableToken, Unauthorised, ConnectorFails, Degrade, Arrives
  <2> QED
    BY <2>1 DEF SearchInv, Contract!Next, Contract!Fail
<1>3. CASE Conclude
  <2>1. /\ run.pc = "parse" /\ mailbox' = mailbox /\ answer = Contract!NoAnswer
        /\ answer' = IF run.partial \/ Suspicious THEN Contract!Degraded
                     ELSE Contract!Read(InRange)
    BY <1>3 DEF Conclude, SearchInv
  <2>2. CASE run.partial \/ Suspicious
    BY <2>1, <2>2 DEF Contract!Next, Contract!Fail
  <2>3. CASE ~ (run.partial \/ Suspicious)
    <3>1. run.items # {}
      BY <2>3 DEF Suspicious, InRange, Understood
    <3>2. run.items = Hits /\ mailbox \subseteq DOMAIN Entries
      BY <2>1, <2>3, <3>1 DEF SearchInv
    <3>3. InRange = Contract!Holds(mailbox)
      BY <3>2, AllHitsAreTheAnswer
    <3> QED
      BY <2>1, <2>3, <3>3 DEF Contract!Next, Contract!Answer
  <2> QED
    BY <2>2, <2>3
<1>4. CASE \/ Tick \/ UseCached \/ Refresh \/ ConnectorHangs \/ Handshake
           \/ Page \/ PartialPage \/ BlindPage \/ UNCHANGED vars
  BY <1>4 DEF Tick, UseCached, Refresh, ConnectorHangs, Handshake, Page, PartialPage,
              BlindPage, TakePage, SendWith, Arrives, vars
<1> QED
  BY <1>1, <1>2, <1>3, <1>4 DEF Next

\* With REQUIRE_CALENDAR_EVENTS on and a calendar that can be seen whole, the reader
\* implements the contract of the classify job for every number of pages and entries.
THEOREM ReaderKeepsContract ==
  ASSUME RequireEvents, VisibleWhole
  PROVE  Spec => ImplementsContract
<1>1. Init => Contract!Init
  BY Parameters DEF Init, Contract!Init
<1>2. SearchInv /\ [Next]_vars => [Contract!Next]_(Contract!vars)
  BY ContractStep
<1> QED
  BY <1>1, <1>2, SearchIsWhole, PTL DEF Spec, ImplementsContract, Contract!Spec

-----------------------------------------------------------------------------
(* What a degraded window says *)

TooMany == Cardinality(Hits) > PAGE_LIMIT * MAX_PAGES

Readable == {i \in mailbox : Entries[i].parses /\ DaysOf[i] \intersect Window # {}}

\* What is left of the bounds.
BudgetOK == budget \in [Troubles -> Int] /\ \A t \in Troubles : budget[t] <= Budget[t]

\* While nothing has gone wrong the cache is whole, a search that goes on has been
\* given page after page, one that is over has everything or met the cap, and a
\* degraded window has its reason in the calendar.
UntroubledInv ==
  /\ BudgetOK
  /\ budget = Budget =>
       /\ cache.whole
       /\ run.pc \in {"token", "sent"} => ~ run.partial /\ run.offset = run.pages * PAGE_LIMIT
       /\ run.pc = "parse" /\ (run.partial \/ run.items # Hits) => TooMany
       /\ answer.degraded => TooMany \/ Readable = {}

\* What has gone wrong once has gone wrong.
LEMMA SpentStaysSpent ==
  ASSUME BudgetOK
  PROVE  /\ \A t \in Troubles : Spend(t) => BudgetOK' /\ budget' # Budget
         /\ budget' = budget => BudgetOK'
<1>1. ASSUME NEW t \in Troubles, Spend(t)
      PROVE  BudgetOK' /\ budget' # Budget
  <2>1. budget[t] \in Int /\ budget[t] <= Budget[t] /\ Budget[t] \in Int
    BY McpAssumption DEF BudgetOK, McpAssumption
  <2>b. budget' = [budget EXCEPT ![t] = budget[t] - 1]
    BY <1>1 DEF Spend
  <2>2. budget'[t] = budget[t] - 1 /\ \A u \in Troubles : u # t => budget'[u] = budget[u]
    BY <2>b DEF BudgetOK
  <2>3. budget'[t] <= Budget[t] /\ budget'[t] # Budget[t] /\ budget' \in [Troubles -> Int]
    BY <2>1, <2>b, <2>2 DEF BudgetOK
  <2> QED
    BY <2>2, <2>3 DEF BudgetOK
<1> QED
  BY <1>1 DEF BudgetOK

\* A step in which something goes wrong needs no other reason.
LEMMA TroubleKeepsUntroubled ==
  ASSUME UntroubledInv, NEW t \in Troubles, Spend(t)
  PROVE  UntroubledInv'
BY SpentStaysSpent DEF UntroubledInv

\* A whole page of an untroubled search.
LEMMA UntroubledPage ==
  ASSUME SearchInv, TokenInv, UntroubledInv, budget = Budget, Page
  PROVE  UntroubledInv'
<1> DEFINE more == More(run.offset)
<1>1. /\ run.pc = "sent" /\ UNCHANGED <<mailbox, cache, answer, budget>>
      /\ run' = [run EXCEPT
           !.items = @ \union PageAt(run.offset),
           !.partial = @ \/ FALSE \/ CutShort(more),
           !.pages = @ + 1,
           !.offset = IF more THEN @ + PAGE_LIMIT ELSE @,
           !.pc = IF GoesOn(more) THEN "token" ELSE "parse"]
  BY DEF Page, TakePage, Arrives
<1>2. /\ run = [pc |-> run.pc, shaken |-> run.shaken, offset |-> run.offset,
                pages |-> run.pages, items |-> run.items, partial |-> run.partial]
      /\ run.pages \in Nat /\ run.pages < MAX_PAGES /\ ~ run.partial
      /\ run.items = {i \in Hits : Rank(i) <= run.offset}
      /\ run.offset = run.pages * PAGE_LIMIT
      /\ run.partial \in BOOLEAN /\ mailbox \subseteq DOMAIN Entries
  BY <1>1 DEF SearchInv, UntroubledInv
<1>m. MAX_PAGES \in Nat /\ PAGE_LIMIT \in Nat \ {0}
  BY Parameters
<1>h. Hits' = Hits /\ (TooMany' <=> TooMany) /\ Readable' = Readable
  BY <1>1, HitsStay DEF TooMany, Readable
<1>r. /\ Cardinality(Hits) \in Nat
      /\ \A i \in Hits : Rank(i) \in 1 .. Cardinality(Hits)
  BY <1>2, RankFacts
<1>o. /\ run.offset \in Nat
      /\ (run.pages + 1) * PAGE_LIMIT = run.offset + PAGE_LIMIT
  BY <1>2, <1>m
<1>c. CutShort(more) \in BOOLEAN /\ GoesOn(more) \in BOOLEAN
  BY <1>2, <1>m DEF CutShort, GoesOn
<1>3. run' = [pc |-> IF GoesOn(more) THEN "token" ELSE "parse", shaken |-> run.shaken,
              offset |-> IF more THEN run.offset + PAGE_LIMIT ELSE run.offset,
              pages |-> run.pages + 1, items |-> run.items \union PageAt(run.offset),
              partial |-> (run.partial \/ FALSE \/ CutShort(more))]
  BY <1>1, <1>2
<1>4. /\ run'.pc = (IF GoesOn(more) THEN "token" ELSE "parse")
      /\ run'.offset = (IF more THEN run.offset + PAGE_LIMIT ELSE run.offset)
      /\ run'.pages = run.pages + 1
      /\ run'.items = run.items \union PageAt(run.offset)
      /\ run'.partial <=> CutShort(more)
  BY <1>2, <1>3
<1>5. BudgetOK' /\ cache'.whole /\ (answer'.degraded => TooMany' \/ Readable' = {})
  BY <1>1, <1>h, SpentStaysSpent DEF UntroubledInv
<1>6. CASE GoesOn(more)
  <2>1. more /\ ~ CutShort(more)
    BY <1>2, <1>m, <1>6 DEF GoesOn, CutShort
  <2>2. ~ run'.partial /\ run'.offset = run'.pages * PAGE_LIMIT
    BY <1>4, <1>o, <2>1
  <2> QED
    BY <1>4, <1>5, <1>6, <2>2 DEF UntroubledInv
<1>7. CASE ~ GoesOn(more) /\ more
  <2>1. run.pages + 1 = MAX_PAGES
    BY <1>2, <1>m, <1>7 DEF GoesOn
  <2>2. TooMany
    BY <1>7, <1>o, <1>m, <1>r, <2>1 DEF More, TooMany
  <2> QED
    BY <1>4, <1>5, <1>7, <1>h, <2>2 DEF UntroubledInv
<1>8. CASE ~ more
  <2>1. \A i \in Hits : Rank(i) <= run.offset + PAGE_LIMIT
    BY <1>8, <1>o, <1>m, <1>r DEF More
  <2>2. run.items \union PageAt(run.offset) = Hits
    BY <1>2, <1>o, <1>m, <1>r, <2>1 DEF PageAt
  <2>3. run'.pc = "parse" /\ ~ run'.partial /\ run'.items = Hits'
    BY <1>4, <1>8, <1>h, <2>2 DEF GoesOn, CutShort
  <2> QED
    BY <1>5, <2>3 DEF UntroubledInv
<1> QED
  BY <1>6, <1>7, <1>8

\* All hits make a window suspicious only when nothing of it can be read.
LEMMA SuspiciousHits ==
  ASSUME FoundWhole, mailbox \subseteq DOMAIN Entries, run.items = Hits, Suspicious
  PROVE  Readable = {}
<1> SUFFICES ASSUME NEW i \in Readable PROVE FALSE
  OBVIOUS
<1>1. /\ i \in mailbox /\ i \in DOMAIN Entries /\ Entries[i].parses
      /\ DaysOf[i] \intersect Window # {}
  BY DEF Readable
<1>2. Parsed(i) = DaysOf[i] /\ Entries[i].first >= First - LOOKBACK_DAYS
  BY <1>1, ParsedDays DEF FoundWhole
<1>3. PICK w \in Window : w \in DaysOf[i]
  BY <1>1
<1>4. /\ Entries[i].first \in Int /\ First \in Int /\ Last \in Int
      /\ Entries[i].span \in Nat /\ LOOKBACK_DAYS \in Nat
  BY <1>1, EntryFacts, Parameters
<1>5. Entries[i].first <= w /\ w <= Last /\ w \in Int
  BY <1>1, <1>3, <1>4 DEF DaysOf, Window
<1>6. i \in Hits
  BY <1>1, <1>2, <1>4, <1>5 DEF Hits
<1>7. i \in Understood /\ <<i, w>> \in InRange
  BY <1>1, <1>2, <1>3, <1>6 DEF Understood, InRange
<1> QED
  BY <1>7 DEF Suspicious

\* Every step keeps what is known while nothing has gone wrong.
LEMMA UntroubledStep ==
  FoundWhole /\ SearchInv /\ TokenInv /\ UntroubledInv /\ [Next]_vars => UntroubledInv'
<1> SUFFICES ASSUME FoundWhole, SearchInv, TokenInv, UntroubledInv, [Next]_vars
             PROVE  UntroubledInv'
  OBVIOUS
<1> USE DEF Troubles
<1>t. ASSUME NEW t \in Troubles, Spend(t) PROVE UntroubledInv'
  BY <1>t, TroubleKeepsUntroubled
<1>0. CASE budget # Budget /\ budget' = budget
  BY <1>0, SpentStaysSpent DEF UntroubledInv
<1>h. mailbox' = mailbox => Hits' = Hits /\ (TooMany' <=> TooMany) /\ Readable' = Readable
  BY HitsStay DEF TooMany, Readable
<1>k. ASSUME budget = Budget
      PROVE  /\ cache.whole
             /\ run.pc \in {"token", "sent"} =>
                  ~ run.partial /\ run.offset = run.pages * PAGE_LIMIT
             /\ run.pc = "parse" /\ (run.partial \/ run.items # Hits) => TooMany
             /\ answer.degraded => TooMany \/ Readable = {}
             /\ budget' = budget => BudgetOK'
  BY <1>k, SpentStaysSpent DEF UntroubledInv
<1>l. PAGE_LIMIT \in Nat
  BY Parameters
<1>1. CASE Start /\ budget = Budget
  <2>1. /\ run' = [IdleRun EXCEPT !.pc = "token"] /\ answer' = Contract!NoAnswer
        /\ cache' \in {Seed, cache} /\ budget' = budget
    BY <1>1 DEF Start
  <2>2. run'.pc = "token" /\ run'.partial = FALSE /\ run'.offset = 0 /\ run'.pages = 0
    BY <2>1 DEF IdleRun
  <2>3. cache'.whole /\ ~ answer'.degraded /\ BudgetOK'
    BY <1>1, <1>k, <2>1 DEF Seed, Contract!NoAnswer
  <2> QED
    BY <1>l, <2>2, <2>3 DEF UntroubledInv
<1>2. CASE (UseCached \/ Refresh \/ Handshake) /\ budget = Budget /\ budget' = budget
  <2>1. /\ UNCHANGED <<mailbox, answer>> /\ run.pc \in {"token", "sent"}
        /\ \/ run' = [run EXCEPT !.pc = "sent"]
           \/ run' = [run EXCEPT !.pc = "token", !.shaken = TRUE]
    BY <1>2 DEF UseCached, Refresh, Handshake, SendWith, Arrives
  <2>2. /\ run'.pc \in {"token", "sent"} /\ run'.offset = run.offset /\ run'.pages = run.pages
        /\ run'.partial = run.partial
    BY <2>1 DEF SearchInv
  <2>3. cache'.whole
    <3>1. cache' = cache \/ cache' = [life |-> Life, whole |-> TRUE]
          \/ \E u \in Troubles : Spend(u)
      BY <1>2 DEF UseCached, Refresh, Handshake, Arrives, Save
    <3>2. ~ \E u \in Troubles : Spend(u)
      BY <1>2, SpentStaysSpent DEF UntroubledInv
    <3> QED
      BY <1>2, <1>k, <3>1, <3>2
  <2> QED
    BY <1>2, <1>h, <1>k, <2>1, <2>2, <2>3 DEF UntroubledInv
<1>3. CASE NoUsableToken /\ budget = Budget
  BY <1>3, <1>k, <1>t DEF NoUsableToken
<1>4. CASE Unauthorised /\ budget = Budget
  <2>1. held.life # 0
    BY <1>4, Parameters DEF Unauthorised, Arrives, TokenInv
  <2> QED
    BY <1>4, <1>t, <2>1 DEF Unauthorised
<1>5. CASE ConnectorFails \/ ConnectorHangs \/ PartialPage \/ BlindPage
  BY <1>5, <1>t DEF ConnectorFails, ConnectorHangs, PartialPage, BlindPage
<1>6. CASE Page /\ budget = Budget
  BY <1>6, UntroubledPage
<1>7. CASE Conclude /\ budget = Budget
  <2>1. /\ run.pc = "parse" /\ UNCHANGED <<mailbox, cache, budget>> /\ run'.pc = "idle"
        /\ answer' = IF run.partial \/ Suspicious THEN Contract!Degraded
                     ELSE Contract!Read(InRange)
    BY <1>7 DEF Conclude, IdleRun
  <2>2. answer'.degraded => run.partial \/ Suspicious
    BY <2>1 DEF Contract!Read
  <2>3. answer'.degraded => TooMany \/ Readable = {}
    BY <1>7, <1>k, <2>1, <2>2, SuspiciousHits DEF SearchInv
  <2> QED
    BY <1>7, <1>h, <1>k, <2>1, <2>3 DEF UntroubledInv
<1>8. CASE (Tick \/ UNCHANGED vars) /\ budget = Budget
  <2>1. UNCHANGED <<mailbox, run, answer, budget>> /\ cache'.whole
    BY <1>8, <1>k DEF Tick, vars, TokenInv
  <2> QED
    BY <1>8, <1>h, <1>k, <2>1 DEF UntroubledInv
<1>9. \/ budget' = budget \/ \E u \in Troubles : Spend(u)
  BY DEF Next, Start, Tick, UseCached, Refresh, Save, NoUsableToken, Unauthorised,
         ConnectorFails, ConnectorHangs, Handshake, Page, PartialPage, BlindPage, Conclude, vars
<1> QED
  BY <1>0, <1>t, <1>1, <1>2, <1>3, <1>4, <1>5, <1>6, <1>7, <1>8, <1>9 DEF Next

\* The reader does not cry wolf: when every entry the parser understands can be seen
\* whole, a window is degraded because something went wrong, because there are more
\* pages than the cap, or because nothing readable is in it.
THEOREM DegradedForAReason ==
  ASSUME FoundWhole
  PROVE  Spec => []DegradedHasReason
<1>1. Init => TokenInv /\ UntroubledInv
  <2> SUFFICES ASSUME Init PROVE TokenInv /\ UntroubledInv
    OBVIOUS
  <2>1. TokenInv
    BY DEF Init, Seed, IdleRun, TokenInv
  <2>2. BudgetOK
    BY McpAssumption DEF Init, BudgetOK, McpAssumption
  <2>3. cache.whole /\ run.pc = "idle" /\ ~ answer.degraded
    BY DEF Init, Seed, IdleRun, Contract!NoAnswer
  <2> QED
    BY <2>1, <2>2, <2>3 DEF UntroubledInv
<1>2. FoundWhole
  OBVIOUS
<1>3. SearchInv /\ TokenInv /\ UntroubledInv /\ [Next]_vars => TokenInv' /\ UntroubledInv'
  BY <1>2, TokenStep, UntroubledStep
<1>4. UntroubledInv => DegradedHasReason
  BY DEF UntroubledInv, DegradedHasReason, TooMany, Readable
<1> QED
  BY <1>1, <1>3, <1>4, SearchIsWhole, PTL DEF Spec

=============================================================================
