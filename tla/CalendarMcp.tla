----------------------------- MODULE CalendarMcp -----------------------------
(***************************************************************************)
(* Reading the calendar through the Microsoft 365 connector:               *)
(* calendar_mcp.read_range over m365_mcp.search, call, _rpc and token,     *)
(* night after night.  A run takes a token for every request, shakes hands *)
(* once, collects pages, and turns what it got into an answer.             *)
(*                                                                         *)
(* The connector and Entra are outside src/: what they can answer is every *)
(* case the client distinguishes.  An entry of the calendar is its         *)
(* position in Entries, which is in order of its start ("oldest").  Time   *)
(* is counted in parts of the two minutes a request may take.              *)
(***************************************************************************)
EXTENDS Integers, Sequences, FiniteSets

CONSTANTS
  Entries,        \* the entries that can be in the calendar, oldest first
  Mailboxes,      \* which of them are there: sets of positions
  First, Last,    \* the window asked about: start and end of read_range
  LOOKBACK_DAYS,
  MAX_ALL_DAY_SPAN,
  PAGE_LIMIT,
  MAX_PAGES,
  RequireEvents,  \* REQUIRE_CALENDAR_EVENTS
  Life,           \* how long an access token lives
  Slack,          \* the 120 s of m365_mcp.token
  Timeout,        \* the 120 s of m365_mcp._rpc
  Budget          \* bound: how often each thing of Troubles can happen

\* How much time an entry takes, whether it is all-day, cancelled, and whether
\* parse_event understands it.
Entry == [first: Int, span: Nat \ {0}, allDay: BOOLEAN, cancelled: BOOLEAN,
          parses: BOOLEAN]

\* Entra refuses the refresh token or revokes an access token, the cache cannot be
\* written, the connector fails, answers in part, stops matching, or does not
\* answer at all.
Troubles == {"refused", "unsaved", "error", "note", "blind", "hang"}

ASSUME McpAssumption ==
  /\ Entries \in Seq(Entry) /\ Mailboxes \subseteq SUBSET DOMAIN Entries
  /\ First \in Int /\ Last \in Int /\ First <= Last
  /\ {LOOKBACK_DAYS, MAX_ALL_DAY_SPAN, PAGE_LIMIT, MAX_PAGES} \subseteq Nat \ {0}
  /\ RequireEvents \in BOOLEAN
  /\ {Life, Slack, Timeout} \subseteq Nat /\ Timeout <= Slack /\ Slack < Life
  /\ Budget \in [Troubles -> Nat]

VARIABLES
  mailbox,  \* positions of the entries in the calendar
  cache,    \* the token cache: lifetime left of its access token, and whether its
            \* JSON is whole
  run,      \* memory of read_range and search
  held,     \* the access token of the request under way: lifetime left, time waited
  answer,   \* what read_range returned
  budget    \* what is left of Budget

vars == <<mailbox, cache, run, held, answer, budget>>

Window == First .. Last

\* The days an entry covers, whatever the reader makes of it.
DaysOf == [i \in DOMAIN Entries |->
  IF Entries[i].cancelled THEN {}
  ELSE Entries[i].first .. Entries[i].first + Entries[i].span - 1]

Contract == INSTANCE CalendarContract WITH Entries <- DOMAIN Entries

Seed == [life |-> 0, whole |-> TRUE]
NoToken == [life |-> 0, waited |-> 0]
IdleRun == [pc |-> "idle", shaken |-> FALSE, offset |-> 0, pages |-> 0,
            items |-> {}, partial |-> FALSE]

TypeOK ==
  /\ mailbox \in Mailboxes
  /\ cache \in [life: 0 .. Life, whole: BOOLEAN]
  /\ run \in [pc: {"idle", "token", "sent", "parse"}, shaken: BOOLEAN,
              offset: 0 .. PAGE_LIMIT * MAX_PAGES, pages: 0 .. MAX_PAGES,
              items: SUBSET DOMAIN Entries, partial: BOOLEAN]
  /\ run.pc # "sent" => held = NoToken
  /\ held \in [life: 0 .. Life, waited: 0 .. Timeout]
  /\ answer \in [given: BOOLEAN, degraded: BOOLEAN,
                 events: SUBSET ((DOMAIN Entries) \X Window)]
  /\ answer.degraded => answer.given /\ answer.events = {}
  /\ \A t \in Troubles : budget[t] \in 0 .. Budget[t]

-----------------------------------------------------------------------------
Spend(t) == budget[t] > 0 /\ budget' = [budget EXCEPT ![t] = @ - 1]

\* A night's run: a pod that starts from the seed, or a process on a machine
\* where the cache is still there.
Start ==
  /\ run.pc = "idle"
  /\ run' = [IdleRun EXCEPT !.pc = "token"]
  /\ answer' = Contract!NoAnswer
  /\ cache' \in {Seed, cache}
  /\ UNCHANGED <<mailbox, held, budget>>

\* M365Error, which read_range turns into a degraded window.
Degrade ==
  /\ run' = IdleRun /\ held' = NoToken
  /\ answer' = Contract!Degraded

\* Time passes, for the cached token too.
Tick ==
  /\ run.pc = "sent" => held.waited < Timeout
  /\ run.pc = "sent" \/ cache.life > 0
  /\ cache' = [cache EXCEPT !.life = IF @ > 0 THEN @ - 1 ELSE 0]
  /\ held' = IF run.pc # "sent" THEN held
             ELSE [life |-> IF held.life > 0 THEN held.life - 1 ELSE 0,
                   waited |-> held.waited + 1]
  /\ UNCHANGED <<mailbox, run, answer, budget>>

-----------------------------------------------------------------------------
(* m365_mcp.token, called for every request *)

\* Mutant: a token is used until it expires.
UsableToTheEnd == cache.whole /\ cache.life > 0

\* The cached access token outlives the request.
Usable == cache.whole /\ cache.life > Slack

SendWith(life) ==
  /\ run' = [run EXCEPT !.pc = "sent"]
  /\ held' = [life |-> life, waited |-> 0]
  /\ UNCHANGED <<mailbox, answer>>

UseCached ==
  /\ run.pc = "token" /\ Usable
  /\ SendWith(cache.life)
  /\ UNCHANGED <<cache, budget>>

\* _save: the file is written whole; or it cannot be opened and stays as it was;
\* or the write fails after the file was emptied.
Save ==
  \/ cache' = [life |-> Life, whole |-> TRUE] /\ UNCHANGED budget
  \/ /\ Spend("unsaved")
     /\ \/ UNCHANGED cache
        \/ cache' = [cache EXCEPT !.whole = FALSE]

\* Entra gives a new pair of tokens.
Refresh ==
  /\ run.pc = "token" /\ ~ Usable /\ cache.whole
  /\ SendWith(Life)
  /\ Save

\* Entra refuses or cannot be reached, or nothing readable is cached: a scheduled
\* run does not ask for a device code.
NoUsableToken ==
  /\ run.pc = "token" /\ ~ Usable
  /\ IF cache.whole THEN Spend("refused") ELSE UNCHANGED budget
  /\ Degrade
  /\ UNCHANGED <<mailbox, cache>>

-----------------------------------------------------------------------------
(* m365_mcp._rpc, _handshake and call *)

\* Mutant: the query begins with the window.
HitsFromWindow == {i \in mailbox : Entries[i].first \in Window}

\* What the query of read_range matches.
Hits == {i \in mailbox : Entries[i].first \in First - LOOKBACK_DAYS .. Last}

Rank(i) == Cardinality({j \in Hits : j <= i})

PageAt(offset) == {i \in Hits : Rank(i) \in offset + 1 .. offset + PAGE_LIMIT}

More(offset) == Cardinality(Hits) > offset + PAGE_LIMIT

Arrives == run.pc = "sent" /\ UNCHANGED <<mailbox, cache>>

\* HTTP 401: the token has expired under way, or Entra has revoked it.
Unauthorised ==
  /\ Arrives /\ Degrade
  /\ IF held.life = 0 THEN UNCHANGED budget ELSE Spend("refused")

\* An HTTP or JSON-RPC error, an unreadable body, or a nextOffset that does not
\* advance.
ConnectorFails == Arrives /\ Spend("error") /\ Degrade

\* A read that times out is no M365Error: the run ends without an answer.
ConnectorHangs ==
  /\ Arrives /\ Spend("hang")
  /\ run' = IdleRun /\ held' = NoToken
  /\ UNCHANGED answer

Handshake ==
  /\ Arrives /\ held.life > 0 /\ ~ run.shaken
  /\ run' = [run EXCEPT !.pc = "token", !.shaken = TRUE]
  /\ held' = NoToken
  /\ UNCHANGED <<answer, budget>>

\* Mutant: as many pages as allowed count as too many.
CutShortAtCap(more) == run.pages + 1 = MAX_PAGES

\* The for loop of search runs out with pages left: truncated.
CutShort(more) == more /\ run.pages + 1 = MAX_PAGES

GoesOn(more) == more /\ run.pages + 1 < MAX_PAGES

\* One page: its items, a note or a block nobody knows (partial), and a footer
\* with the next offset as long as there is more.
TakePage(items, more, partial) ==
  /\ Arrives /\ held.life > 0 /\ run.shaken
  /\ held' = NoToken
  /\ run' = [run EXCEPT
       !.items = @ \union items,
       !.partial = @ \/ partial \/ CutShort(more),
       !.pages = @ + 1,
       !.offset = IF more THEN @ + PAGE_LIMIT ELSE @,
       !.pc = IF GoesOn(more) THEN "token" ELSE "parse"]
  /\ UNCHANGED answer

Page == TakePage(PageAt(run.offset), More(run.offset), FALSE) /\ UNCHANGED budget

\* The scan was cut short, and says so in prose.
PartialPage ==
  /\ Spend("note")
  /\ \E items \in SUBSET PageAt(run.offset), more \in BOOLEAN :
       (more => More(run.offset)) /\ TakePage(items, more, TRUE)

\* The wildcard quietly stops matching: a clean, empty answer.
BlindPage == Spend("blind") /\ run.offset = 0 /\ TakePage({}, FALSE, FALSE)

-----------------------------------------------------------------------------
(* parse_event and read_range *)

\* The days of one entry: none when cancelled, the first when it is not all-day,
\* else its half-open range within the bound.
Parsed(i) ==
  LET e == Entries[i]
      span == IF e.span <= MAX_ALL_DAY_SPAN THEN e.span ELSE MAX_ALL_DAY_SPAN
  IN  IF e.cancelled THEN {}
      ELSE IF ~ e.allDay THEN {e.first}
      ELSE e.first .. e.first + span - 1

Understood == {i \in run.items : Entries[i].parses}

InRange == {e \in Understood \X Window : e[2] \in Parsed(e[1])}

\* Nothing parsed although something came, or nothing in the window at all.
Suspicious ==
  \/ run.items # {} /\ Understood = {}
  \/ RequireEvents /\ InRange = {}

Conclude ==
  /\ run.pc = "parse"
  /\ answer' = IF run.partial \/ Suspicious THEN Contract!Degraded ELSE Contract!Read(InRange)
  /\ run' = IdleRun
  /\ UNCHANGED <<mailbox, cache, held, budget>>

-----------------------------------------------------------------------------
Init ==
  /\ mailbox \in Mailboxes
  /\ cache = Seed /\ run = IdleRun /\ held = NoToken
  /\ answer = Contract!NoAnswer
  /\ budget = Budget

Next ==
  \/ Start \/ Tick
  \/ UseCached \/ Refresh \/ NoUsableToken
  \/ Unauthorised \/ ConnectorFails \/ ConnectorHangs \/ Handshake
  \/ Page \/ PartialPage \/ BlindPage
  \/ Conclude

Spec == Init /\ [][Next]_vars

-----------------------------------------------------------------------------
(* Properties *)

\* The reader keeps the contract of the classify job: degraded, or exactly the
\* events of the window, through every failure the client can tell.
ImplementsContract == Contract!Spec

\* A token does not expire under a request: Slack is worth the whole of Timeout
\* ("a token that expires mid-request surfaces as a confusing 401", token).
TokenOutlivesRequest == run.pc = "sent" => held.life > 0

\* The reader does not cry wolf: a window is degraded because something went
\* wrong, because the calendar has more pages than the cap, or because nothing
\* readable is in it.
DegradedHasReason ==
  answer.degraded =>
    \/ budget # Budget
    \/ Cardinality(Hits) > PAGE_LIMIT * MAX_PAGES
    \/ {i \in mailbox : Entries[i].parses /\ DaysOf[i] \intersect Window # {}} = {}

\* A cache that cannot be written does not cost the night ("Not fatal for this
\* run, since the access token in hand still works", _save).
UnsavedTokenIsNotFatal ==
  /\ \A t \in Troubles \ {"unsaved"} : budget[t] = Budget[t]
  /\ Cardinality(Hits) <= PAGE_LIMIT * MAX_PAGES
  /\ \E i \in mailbox : Entries[i].parses /\ DaysOf[i] \intersect Window # {}
  => ~ answer.degraded

=============================================================================
