\* Every result of a classification of up to three messages, rendered with and
\* without the priority filter, uncapped and capped below the batch.
SPECIFICATION Spec
CONSTANTS
  k1 = k1  k2 = k2  k3 = k3
  NoSnapshot = NoSnapshot  NoDigest = NoDigest
  Messages = {k1, k2, k3}
  Labels = {"Ads"}
  LenientProvider = TRUE
  Batches <- SomeBatches
  AccountOf <- TwoAccounts
  Sender <- ThreeSenders
  Read <- OneRead
  Dates = {1, 2}
  Priority = {"high", "low", ""}
  Caps = {0, 1, 2}
  Snapshots <- Previously
  NoSender = 0
  Promotions = "Ads"
  TopLimit = 1
  BurstSize = 2
INVARIANTS ShowsMostUrgent SectionsHoldShown CountsAddUp HighlightsTruthful
CHECK_DEADLOCK FALSE
