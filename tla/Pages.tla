------------------------------- MODULE Pages --------------------------------
(***************************************************************************)
(* What the pages of the frontend show: values that are read once and then *)
(* watched, two paged tables, the cards of the dashboard, and the charts.  *)
(***************************************************************************)
EXTENDS Integers, Sequences, FiniteSets, FiniteSetsExt, SequencesExt

-----------------------------------------------------------------------------
(***************************************************************************)
(* A value that is read once and then watched: a watch function of         *)
(* ObservableEthersLiquity, which lib-ethers exports, under useAsyncValue, *)
(* the frontend's hook for it, which no page uses at present.  Events are  *)
(* debounced for 50 ms; the timer reads the value at the newest block an   *)
(* event came from.  The value at a block is stood for by that block.      *)
(***************************************************************************)

CONSTANTS MaxEvents   \* bound: blocks with an event

VARIABLES
  tip,           \* external: the last block
  undelivered,   \* external: events of the contracts still on their way
  latestBlock,   \* the debounce closure's newest block
  debounceTimer,
  initialRead,   \* the block at which getValue was called; 0 when answered
  reads,         \* reads the debounced listener started
  component,     \* "new", "mounted" or "unmounted"
  value,         \* callState.value, 0 while not loaded
  newestWatched, \* history: the newest watched value that was shown
  outOfOrder     \* history: an older watched value was shown after a newer one

watchVars == <<tip, undelivered, latestBlock, debounceTimer, initialRead, reads, component,
               value, newestWatched, outOfOrder>>

WatchInit ==
  /\ tip = 1 /\ undelivered = {} /\ latestBlock = 0 /\ debounceTimer = FALSE
  /\ initialRead = 0 /\ reads = {} /\ component = "new"
  /\ value = 0 /\ newestWatched = 0 /\ outOfOrder = FALSE

\* The effect of useAsyncValue: getValue is called and the listener registered.
Mount ==
  /\ component = "new"
  /\ component' = "mounted"
  /\ initialRead' = tip
  /\ undelivered' = {}
  /\ UNCHANGED <<tip, latestBlock, debounceTimer, reads, value, newestWatched, outOfOrder>>

\* External: a block changes the value and emits an event.
Emit ==
  /\ tip < MaxEvents
  /\ tip' = tip + 1
  /\ undelivered' = undelivered \cup {tip + 1}
  /\ UNCHANGED <<latestBlock, debounceTimer, initialRead, reads, component, value, newestWatched, outOfOrder>>

\* debounce: the newest block is kept, the timer set anew.  Events of two contracts
\* may come in any order.
EventArrives(b) ==
  /\ component = "mounted"
  /\ undelivered' = undelivered \ {b}
  /\ latestBlock' = IF b > latestBlock THEN b ELSE latestBlock
  /\ debounceTimer' = TRUE
  /\ UNCHANGED <<tip, initialRead, reads, component, value, newestWatched, outOfOrder>>

DebounceTimeout ==
  /\ debounceTimer
  /\ debounceTimer' = FALSE
  /\ reads' = reads \cup {latestBlock}
  /\ UNCHANGED <<tip, undelivered, latestBlock, initialRead, component, value, newestWatched, outOfOrder>>

\* onValueChanged
WatchAnswer(b) ==
  /\ reads' = reads \ {b}
  /\ IF component = "mounted"
     THEN /\ value' = b
          /\ newestWatched' = IF b > newestWatched THEN b ELSE newestWatched
          /\ outOfOrder' = (outOfOrder \/ b < newestWatched)
     ELSE UNCHANGED <<value, newestWatched, outOfOrder>>
  /\ UNCHANGED <<tip, undelivered, latestBlock, debounceTimer, initialRead, component>>

\* fetchValue: its answer, of any block since the call, only counts when it is first.
InitialAnswer ==
  /\ initialRead # 0
  /\ initialRead' = 0
  /\ IF component = "mounted" /\ value = 0 THEN value' \in initialRead..tip ELSE UNCHANGED value
  /\ UNCHANGED <<tip, undelivered, latestBlock, debounceTimer, reads, component,
                 newestWatched, outOfOrder>>

\* The effect's cleanup: unwatch removes the listener; a timer and reads go on.
Unmount ==
  /\ component = "mounted"
  /\ component' = "unmounted"
  /\ UNCHANGED <<tip, undelivered, latestBlock, debounceTimer, initialRead, reads, value, newestWatched, outOfOrder>>

WatchSteps ==
  \/ \E b \in undelivered : EventArrives(b)
  \/ DebounceTimeout
  \/ \E b \in reads : WatchAnswer(b)
  \/ InitialAnswer

WatchNext == Mount \/ Emit \/ WatchSteps \/ Unmount

-----------------------------------------------------------------------------
(* Properties *)

\* When events stop, a mounted component shows the newest value, whether the initial
\* read or an event is answered first; only the answers of two watched reads coming in
\* the wrong order can leave it with an older one (AsyncValue.ts, debounce).
WatchCatchesUp == <>[](component = "mounted" => value = tip \/ outOfOrder)

-----------------------------------------------------------------------------
(***************************************************************************)
(* Two paged tables of the frontend.  RiskyVaults asks the chain for one   *)
(* page of the vaults, at the block of the store, each time the page or    *)
(* the number of vaults changes, and shows whatever answer comes last.     *)
(* Leaderboard fetches the traders of a tournament once, and cuts its      *)
(* pages out of what it fetched.                                           *)
(***************************************************************************)

CONSTANTS
  pageSize,       \* rows of a page (10 in the frontend)
  MaxVaults,      \* bound: open vaults
  MaxPageBlocks,  \* bound: blocks the store sees
  MaxPresses,     \* bound: presses of the page buttons
  NetValues,      \* external: the tournament's service: net value by trader
  Blacklisted     \* traders whose address, in lower case, is in blacklistedAddresses

ASSUME PageSizeAssumption == pageSize \in Nat \ {0}

Traders == DOMAIN NetValues

VARIABLES
  vaultCounts,   \* numberOfTroves at each block; the store is at the last one
  page,          \* RiskyVaults' page, counted from 0
  pageRequests,  \* its getTroves calls that are not answered
  asked,         \* how many it has made
  vaults,        \* what it shows: the call that was answered last
  overtaken,     \* history: the newest call failed, or an older one was answered after it
  ranking,       \* Leaderboard's data
  pageData, rankPage,
  rankFetch,     \* its request: "none", "waiting" or "over"
  presses

pageVars == <<vaultCounts, page, pageRequests, asked, vaults, overtaken, ranking, pageData,
              rankPage, rankFetch, presses>>
tableVars == <<vaultCounts, page, pageRequests, asked, vaults, overtaken>>
rankVars == <<ranking, pageData, rankPage, rankFetch>>

Loading == [n |-> 0, page |-> 0, block |-> 0]

\* Math.ceil(n / pageSize) || 1
numberOfPages(n) == IF n = 0 THEN 1 ELSE (n + pageSize - 1) \div pageSize
clampedPage(p, n) == IF p < numberOfPages(n) THEN p ELSE numberOfPages(n) - 1

numberOfTroves == Last(vaultCounts)

\* The calls one render leads to: one when the clamped page is another, and one more,
\* by way of forceReload, when the number of vaults is; both at the store's block.
getTroves(was, is, before, after, block) ==
  {[n |-> asked + i, page |-> is, block |-> block] :
     i \in 1..Cardinality({x \in {"page", "reload"} : IF x = "page" THEN was # is ELSE before # after})}

\* A render of RiskyVaults with its effects: page is clamped, pages are asked for.
RenderTable(p, counts) ==
  LET was  == clampedPage(page, numberOfTroves)
      is   == clampedPage(p, Last(counts))
      more == getTroves(was, is, numberOfTroves, Last(counts), Len(counts))
  IN /\ page' = is
     /\ vaultCounts' = counts
     /\ pageRequests' = pageRequests \cup more
     /\ asked' = asked + Cardinality(more)
     /\ overtaken' = (overtaken /\ more = {})
     /\ UNCHANGED vaults

\* The first render asks twice: for the first page, and as numberOfTroves is new.
PagesInit ==
  /\ \E n \in 0..MaxVaults : vaultCounts = <<n>>
  /\ page = 0
  /\ asked = 2 /\ pageRequests = {[n |-> i, page |-> 0, block |-> 1] : i \in 1..2}
  /\ vaults = Loading /\ overtaken = FALSE
  /\ ranking = <<>> /\ pageData = <<>> /\ rankPage = 0 /\ rankFetch = "none"
  /\ presses = 0

\* The store moves on by a block (select includes blockTag, so this renders).
StoreMoves(n) ==
  /\ Len(vaultCounts) < MaxPageBlocks
  /\ RenderTable(page, Append(vaultCounts, n))
  /\ UNCHANGED <<rankVars, presses>>

Press == presses < MaxPresses /\ presses' = presses + 1

nextPage ==
  /\ Press
  /\ clampedPage(page, numberOfTroves) < numberOfPages(numberOfTroves) - 1
  /\ RenderTable(clampedPage(page, numberOfTroves) + 1, vaultCounts)
  /\ UNCHANGED rankVars

previousPage ==
  /\ Press
  /\ clampedPage(page, numberOfTroves) > 0
  /\ RenderTable(clampedPage(page, numberOfTroves) - 1, vaultCounts)
  /\ UNCHANGED rankVars

\* .then(setVaults): nothing tells an answer to an earlier call from the newest.
TableAnswer(r) ==
  /\ pageRequests' = pageRequests \ {r}
  /\ vaults' = r
  /\ overtaken' = (r.n # asked /\ (overtaken \/ vaults.n = asked))
  /\ UNCHANGED <<vaultCounts, page, asked, rankVars, presses>>

\* A rejected call is not caught.
TableError(r) ==
  /\ pageRequests' = pageRequests \ {r}
  /\ overtaken' = (overtaken \/ r.n = asked)
  /\ UNCHANGED <<vaultCounts, page, asked, vaults, rankVars, presses>>

\* The rows of the table, by their place in the list of all vaults of a block.
Positions(p, n) == {i \in 1..n : p * pageSize < i /\ i <= (p + 1) * pageSize}
Rows == IF vaults = Loading THEN {} ELSE Positions(vaults.page, vaultCounts[vaults.block])

\* data.slice(drop, end)
slice(p, data) ==
  SubSeq(data, p * pageSize + 1, IF (p + 1) * pageSize < Len(data) THEN (p + 1) * pageSize ELSE Len(data))

\* Leaderboard mounts; without a configured service nothing is fetched.
FetchRanking ==
  /\ rankFetch = "none"
  /\ rankFetch' = "waiting"
  /\ UNCHANGED <<tableVars, ranking, pageData, rankPage, presses>>

\* The traders the service returned, less the blacklisted, by falling net value; sort
\* leaves equal ones in any order.  A value below zero, a blacklisted trader's too,
\* cannot be parsed: then, as when the request fails, nothing is shown.
RankingAnswer(traders) ==
  /\ rankFetch = "waiting"
  /\ rankFetch' = "over"
  /\ IF \E t \in traders : NetValues[t] < 0
     THEN UNCHANGED <<ranking, pageData>>
     ELSE /\ ranking' \in {s \in SetToSeqs(traders \ Blacklisted) :
                             \A i, j \in 1..Len(s) : i < j => NetValues[s[i]] >= NetValues[s[j]]}
          /\ pageData' = slice(clampedPage(rankPage, Len(ranking')), ranking')
  /\ UNCHANGED <<tableVars, rankPage, presses>>

\* The table of traders; "Loading..." while there is no data.
RankRows == IF ranking = <<>> THEN <<>> ELSE pageData

TurnRankPage(step) ==
  LET p == clampedPage(rankPage, Len(ranking)) + step IN
  /\ Press
  /\ p \in 0..(numberOfPages(Len(ranking)) - 1)
  /\ rankPage' = p
  /\ pageData' = slice(p, ranking)
  /\ UNCHANGED <<tableVars, ranking, rankFetch>>

TableNext ==
  \/ \E n \in 0..MaxVaults : StoreMoves(n)
  \/ nextPage \/ previousPage
  \/ \E r \in pageRequests : TableAnswer(r) \/ TableError(r)

RankingNext ==
  \/ FetchRanking
  \/ \E traders \in SUBSET Traders : RankingAnswer(traders)
  \/ TurnRankPage(1) \/ TurnRankPage(-1)

TablesSpec == PagesInit /\ [][TableNext \/ RankingNext]_pageVars

-----------------------------------------------------------------------------
(* Properties *)

\* Once every call is answered, the table holds the rows the heading counts ("page 2 / 3,
\* 11-20 of 25"): those of the current page in a list of the current length.  Only a
\* failed newest call, or answers out of order, leave it with another page
\* (RiskyVaults.tsx, the effects on page, clampedPage and numberOfTroves).
TableShowsItsPage ==
  pageRequests = {} /\ ~overtaken => Rows = Positions(page, numberOfTroves)

\* Turning the pages of the leaderboard shows every ranked trader exactly once, and
\* the page shown is one of those pages (Leaderboard.tsx).
RankingIsPaged ==
  LET pages == {slice(p, ranking) : p \in 0..(numberOfPages(Len(ranking)) - 1)}
      places == {<<s, i>> : s \in pages, i \in 1..pageSize}
      all == {x \in places : x[2] <= Len(x[1])}
  IN /\ RankRows \in pages
     /\ \A t \in Range(ranking) : \E x \in all : x[1][x[2]] = t
     /\ Cardinality(all) = Len(ranking)

-----------------------------------------------------------------------------
(***************************************************************************)
(* The dashboard and the charts of the frontend.  A card of the dashboard  *)
(* selects a part of every store's state when it is rendered, subscribes   *)
(* to the stores in an effect, which runs later, and from then on is       *)
(* rendered again when an update changes that part; the sums over all      *)
(* stores are computed once, by the effects.  A chart asks for its         *)
(* context on every render, by way of a promise, and copies the data the   *)
(* provider fetched into its own state.                                    *)
(***************************************************************************)

CONSTANTS
  StatStores,       \* the stores, one for each collateral
  MainStore,        \* the first of them
  MaxStat,          \* bound: the values of a part of the state
  MaxStatUpdates,   \* bound: updates of the stores
  MaxVisits         \* bound: visits to the dashboard

ASSUME MainStoreAssumption == MainStore \in StatStores

VARIABLES
  stat,           \* each store's state
  shown,          \* what each card last rendered
  sums,           \* SystemStatsCard's state: totals over the stores
  dashboard,      \* "away", "rendered", or "subscribed" once the effects have run
  statUpdates, visits,
  atMount,        \* the stores as the first render read them
  missed,         \* history: what the price cards select changed before they subscribed
                  \* and has not changed since
  chartFetch,     \* ChartProvider's request: "none", "waiting", "answered" or "failed"
  chart,          \* LineChart: its state and whether its effect left a cleanup
  thens           \* LineChart's promises of the context, with what they captured

statVars == <<stat, shown, sums, dashboard, statUpdates, visits, atMount, missed>>
chartVars == <<chartFetch, chart, thens>>

-----------------------------------------------------------------------------
(* The cards *)

StatState == [price : 0..MaxStat, numberOfTroves : 0..MaxStat, thusdInStabilityPool : 0..MaxStat]
Cards == {"price", "system", "ratio"}
NoSums == [numberOfTroves |-> 0, thusdInStabilityPool |-> 0]

\* The selectors: SystemStatsCard's is the widest one.
select(card, state) == IF card = "system" THEN state ELSE [price |-> state.price]

\* subscribeStores: a card is rendered when the part it selects has changed.
rerenders(card, store, old, new) == select(card, old) # select(card, new)

\* The price cards show the first store.
priceView(states) == [s \in {MainStore} |-> select("price", states[s])]

\* What a card renders: the selected state of the stores, as it is now; the ratio card
\* shows what its effect computed from the first render.
CardView(card, states, mount) ==
  CASE card = "price"  -> priceView(states)
    [] card = "system" -> states
    [] card = "ratio"  -> [s \in StatStores |-> select("ratio", mount[s])]

SumOf(states, field) == MapThenSumSet(LAMBDA s : states[s][field], StatStores)

\* The effect of SystemStatsCard: every store's numbers are added to the state.
addStores(to, states) == [field \in DOMAIN to |-> to[field] + SumOf(states, field)]

\* Navigation to the dashboard renders the cards, each from the stores as they are.
VisitDashboard ==
  /\ dashboard = "away" /\ visits < MaxVisits
  /\ visits' = visits + 1
  /\ dashboard' = "rendered"
  /\ atMount' = stat /\ missed' = FALSE
  /\ sums' = NoSums
  /\ shown' = [card \in Cards |-> CardView(card, stat, stat)]
  /\ UNCHANGED <<stat, statUpdates, chartVars>>

\* The effects, some time after the paint: the cards subscribe, without reading again.
\* SystemStatsCard adds up what the first render read, and by setting its state is
\* rendered again, with the stores as they are now; so is ColRatio, for nothing.
SubscribeCards ==
  /\ dashboard = "rendered"
  /\ dashboard' = "subscribed"
  /\ sums' = addStores(sums, atMount)
  /\ shown' = [shown EXCEPT !["system"] = CardView("system", stat, atMount)]
  /\ UNCHANGED <<stat, statUpdates, visits, atMount, missed, chartVars>>

\* Effects run before the next navigation.  The listeners are not taken off the stores,
\* and render nothing any more.
LeaveDashboard ==
  /\ dashboard = "subscribed"
  /\ dashboard' = "away"
  /\ UNCHANGED <<stat, shown, sums, statUpdates, visits, atMount, missed, chartVars>>

\* A store is updated and calls the listeners of the cards that have subscribed.
StatUpdate(s, state) ==
  /\ statUpdates < MaxStatUpdates /\ state # stat[s]
  /\ statUpdates' = statUpdates + 1
  /\ stat' = [stat EXCEPT ![s] = state]
  /\ shown' = [card \in Cards |->
                 IF dashboard = "subscribed" /\ rerenders(card, s, stat[s], state)
                 THEN CardView(card, stat', atMount) ELSE shown[card]]
  /\ missed' = IF rerenders("price", s, stat[s], state) THEN dashboard = "rendered" ELSE missed
  /\ UNCHANGED <<sums, dashboard, visits, atMount, chartVars>>

StatNext ==
  \/ VisitDashboard \/ SubscribeCards \/ LeaveDashboard
  \/ \E s \in StatStores, state \in StatState : StatUpdate(s, state)

-----------------------------------------------------------------------------
(* A chart.  Arrays are told apart by identity: "own" is LineChart's first *)
(* empty one, "empty" the provider's, "fetched" the service's; "null" is   *)
(* the context without a provider.                                         *)

NewChart == [data |-> "own", loaded |-> FALSE, isMounted |-> TRUE, cleanup |-> FALSE]

Context(fetch) ==
  CASE fetch = "answered" -> "fetched" [] fetch = "failed" -> "null" [] OTHER -> "empty"

\* Faulty variant: the effect does not wait for the chart to be loaded.
chartEffect_Unloaded(c) == c.isMounted

\* The effect's body: whether it leaves a cleanup.
chartEffect(c) == c.isMounted /\ c.loaded

\* A render of LineChart after its state changed from `old' to `new': the effect depends
\* on isMounted, loadedChart and historicalData; its old cleanup clears isMounted.
rerenderChart(old, new) ==
  LET deps(c) == <<c.isMounted, c.loaded, c.data>> IN
  IF deps(old) = deps(new) THEN new
  ELSE IF old.cleanup /\ new.isMounted
       THEN [new EXCEPT !.isMounted = FALSE, !.cleanup = FALSE]
       ELSE [new EXCEPT !.cleanup = chartEffect(new)]

\* Each render calls useHistoricalData: a promise of the context.
Promise(fetch, c) == [context |-> Context(fetch), isMounted |-> c.isMounted]

ChartsInit == chartFetch = "none" /\ chart = NewChart /\ thens = {}

\* ChartProvider and LineChart mount.  Without a configured service the provider steps
\* aside at once.
MountChart(configured) ==
  /\ chartFetch = "none"
  /\ chartFetch' = IF configured THEN "waiting" ELSE "failed"
  /\ chart' = NewChart
  /\ thens' = {Promise(chartFetch', NewChart)}
  /\ UNCHANGED statVars

\* A promise of useHistoricalData is resolved: two assignments, each with its render.
ChartThen(t) ==
  LET c1 == rerenderChart(chart, [chart EXCEPT !.data = t.context])
      c2 == rerenderChart(c1, [c1 EXCEPT !.loaded = TRUE])
  IN IF t.context = "null" \/ ~t.isMounted
     THEN thens' = thens \ {t} /\ UNCHANGED <<chartFetch, chart, statVars>>
     ELSE /\ chart' = c2
          /\ thens' = (thens \ {t}) \cup {Promise(chartFetch, c) : c \in {c1, c2} \ {chart}}
          /\ UNCHANGED <<chartFetch, statVars>>

\* The service answers, which renders the chart with another context, or fails, which
\* mounts it anew without one.  Promises that are due go first.
ChartAnswer(ok) ==
  /\ chartFetch = "waiting" /\ thens = {}
  /\ chartFetch' = IF ok THEN "answered" ELSE "failed"
  /\ chart' = IF ok THEN chart ELSE NewChart
  /\ thens' = {Promise(chartFetch', chart')}
  /\ UNCHANGED statVars

ChartSteps ==
  \/ \E t \in thens : ChartThen(t)
  \/ \E ok \in BOOLEAN : ChartAnswer(ok)

ChartNext == ChartSteps \/ \E configured \in BOOLEAN : MountChart(configured)

\* LoadingChart, or the line of the chart's data.
ChartScreen == IF chart.loaded THEN chart.data ELSE "loading"

DashboardInit ==
  /\ stat = [s \in StatStores |-> [price |-> 0, numberOfTroves |-> 1, thusdInStabilityPool |-> 0]]
  /\ shown = [card \in Cards |-> CardView(card, stat, stat)]
  /\ sums = NoSums /\ dashboard = "away" /\ statUpdates = 0 /\ visits = 0 /\ atMount = stat /\ missed = FALSE
  /\ ChartsInit

DashboardSpec == DashboardInit /\ [][StatNext \/ ChartNext]_<<statVars, chartVars>>

-----------------------------------------------------------------------------
(* Properties *)

\* A card is rendered only when the part of the state it selects changes, and yet, once
\* the cards have subscribed, what is on the dashboard is the stores' present state; the
\* ratio card stays that of the moment the dashboard was opened.  One case is left out:
\* an update between the render of the price cards and their subscription is missed, and
\* stays so until the next one.  The system card misses none, for its effect renders it
\* once more (useThresholdSelector.ts, SystemStatsCard.tsx, ColRatio.tsx).
CardsShowTheStores ==
  dashboard = "subscribed" =>
    \A card \in Cards : (card = "price" /\ missed) \/ shown[card] = CardView(card, stat, atMount)

\* The sums stay those of the first render, each store counted once, although stores may
\* have changed before they were added up and change afterwards (SystemStatsCard.tsx).
SumsAreOfTheMount ==
  dashboard = "subscribed" => \A field \in DOMAIN sums : sums[field] = SumOf(atMount, field)

\* A chart whose service answers ends up with the data it sent, although the chart stops
\* listening to its context with its first change of data; without an answer it keeps
\* the placeholder (LineChart.tsx, ChartProvider.tsx).
ChartShowsItsData ==
  <>[](/\ chartFetch = "answered" => ChartScreen = "fetched"
       /\ chartFetch = "failed" => ChartScreen = "loading")

-----------------------------------------------------------------------------
\* What the pages show is current once the answers are in, but for the cases named above:
\* watched values, tables, rankings, cards and charts.
PagesAreCurrent ==
  /\ WatchCatchesUp
  /\ []TableShowsItsPage
  /\ []RankingIsPaged
  /\ []CardsShowTheStores /\ []SumsAreOfTheMount
  /\ ChartShowsItsData

=============================================================================
