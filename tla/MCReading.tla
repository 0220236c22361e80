------------------------------ MODULE MCReading ------------------------------
(***************************************************************************)
(* The reading side of the client on small instances.  Its components      *)
(* are checked side by side: `subject' says which one a behaviour is       *)
(* about, and the others keep their initial state.                         *)
(***************************************************************************)
EXTENDS BlockPolledStore, StoreProvider, AugmentedProvider, Pages, AmountFields

VARIABLE subject

\* External: the net values of the traders of a tournament.
NetValuesOfTraders == <<3, 2, 2, 1, 0, -1>>

\* Texts with fewer and with more places than a Decimal keeps, with exponents of both
\* signs, and one that is not a decimal.
TextsToType ==
  {NotADecimal, [digits |-> 7, scale |-> 0, exp |-> 0], [digits |-> 1549, scale |-> 3, exp |-> 0],
   [digits |-> 1549, scale |-> 3, exp |-> 1], [digits |-> 255, scale |-> 1, exp |-> -1]}

readingVars == <<subject, storeVars, providerVars, augVars, batchVars, watchVars, pageVars, gateVars,
                 statVars, chartVars, nodeVars, fieldVars>>

ReadingInit ==
  /\ subject \in {"store", "panel", "provider", "batch", "watch", "table", "ranking", "gate",
                  "cards", "chart", "reads", "receipts", "lookups",
                  "fields"}
  /\ StoreInit /\ ProviderInit /\ AugInit /\ BatchInit /\ WatchInit
  /\ PagesInit /\ GateInit /\ DashboardInit /\ NodeReadsInit /\ FieldsInit
  /\ subject = "table" \/ vaultCounts = <<0>>
  /\ subject = "fields" \/ \A f \in FieldIds : maxAmount[f] = CHOOSE x \in MaxAmounts : TRUE
  /\ subject = "gate" \/ network = "sepolia"

\* The parts of the page only vary with the subjects that are about them.
PagesStay == UNCHANGED <<pageVars, gateVars, statVars, chartVars, nodeVars, fieldVars>>
ReadsStay == UNCHANGED <<storeVars, providerVars, augVars, batchVars, watchVars, nodeVars, fieldVars>>

AboutStore(step) ==
  subject = "store" /\ step /\ UNCHANGED <<subject, providerVars, augVars, batchVars, watchVars>> /\ PagesStay
AboutPanel(step) ==
  subject = "panel" /\ step /\ UNCHANGED <<subject, storeVars, augVars, batchVars, watchVars>> /\ PagesStay
AboutProvider(step) ==
  subject = "provider" /\ step /\ UNCHANGED <<subject, storeVars, providerVars, batchVars, watchVars>> /\ PagesStay
AboutBatch(step) ==
  subject = "batch" /\ step /\ UNCHANGED <<subject, storeVars, providerVars, augVars, watchVars>> /\ PagesStay
AboutWatch(step) ==
  subject = "watch" /\ step /\ UNCHANGED <<subject, storeVars, providerVars, augVars, batchVars>> /\ PagesStay
AboutPages(name, step) ==
  subject = name /\ step /\ UNCHANGED <<subject, gateVars, statVars, chartVars>> /\ ReadsStay
AboutGate(step) ==
  subject = "gate" /\ step /\ UNCHANGED <<subject, pageVars, statVars, chartVars>> /\ ReadsStay
AboutDashboard(name, step) ==
  subject = name /\ step /\ UNCHANGED <<subject, pageVars, gateVars>> /\ ReadsStay
AboutNodes(name, step) ==
  subject = name /\ step /\ UNCHANGED <<subject, storeVars, providerVars, augVars, batchVars, watchVars,
                                        pageVars, gateVars, statVars, chartVars, fieldVars>>
AboutFields(step) ==
  subject = "fields" /\ step /\ UNCHANGED <<subject, storeVars, providerVars, augVars, batchVars, watchVars,
                                            pageVars, gateVars, statVars, chartVars, nodeVars>>

ReadingNext ==
  \/ AboutStore(StoreNext)
  \/ AboutPanel(ProviderNext)
  \/ AboutProvider(AugNext)
  \/ AboutBatch(BatchNext)
  \/ AboutWatch(WatchNext)
  \/ AboutPages("table", TableNext) \/ AboutPages("ranking", RankingNext)
  \/ AboutGate(GateNext)
  \/ AboutDashboard("cards", StatNext) \/ AboutDashboard("chart", ChartNext)
  \/ AboutNodes("reads", ReadNext) \/ AboutNodes("receipts", WaitNext)
  \/ AboutNodes("lookups", LookupNext)
  \/ AboutFields(FieldsNext)

\* The event loop runs what is due, the node answers or rejects every request, a
\* connection that is opened is established or closed, and blocks go on being mined.
\* Requests to the store wait while listeners are told, and a node that is asked again
\* and again catches up in the end: strong fairness.
ReadingFairness ==
  /\ SF_readingVars(AboutStore(Answers)) /\ WF_readingVars(AboutStore(Notifications))
  /\ WF_readingVars(AboutPanel(ConnectionsMade)) /\ WF_readingVars(AboutPanel(StoreAnswers))
  /\ WF_readingVars(AboutProvider(SomeSocketOpens)) /\ WF_readingVars(AboutProvider(Reconnect))
  /\ WF_readingVars(AboutProvider(MineBlock)) /\ WF_readingVars(AboutProvider(Announcements))
  /\ WF_readingVars(AboutProvider(CallListeners)) /\ WF_readingVars(AboutProvider(NoReceipt))
  /\ SF_readingVars(AboutProvider(ReceiptFound))
  /\ WF_readingVars(AboutBatch(BatchSteps))
  /\ WF_readingVars(AboutWatch(WatchSteps))
  /\ WF_readingVars(AboutGate(GateSteps))
  /\ WF_readingVars(AboutDashboard("chart", ChartSteps))
  /\ WF_readingVars(AboutNodes("reads", ReadSteps))
  /\ WF_readingVars(AboutNodes("reads", SomeNodeSyncs))
  /\ WF_readingVars(AboutNodes("reads", NewestIsAnnounced))

ReadingSpec == ReadingInit /\ [][ReadingNext]_readingVars /\ ReadingFairness
=============================================================================
