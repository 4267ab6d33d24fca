\* Two accounts, one worker slot, connections that break at any moment, one
\* unreadable message, one empty folder; two keywords of which the server permits
\* any subset.
SPECIFICATION Spec
CONSTANTS
  inbox = inbox  archive = archive  drafts = drafts  other = other  m1 = m1  m2 = m2  m3 = m3
  NumAccounts = 2
  FoldersOf <- TwoAccounts
  Mail <- AllMail
  Unparsable = {m3}
  Keywords = {"Useful", "Ads"}
  MaxConcurrent = 1
  Faults = {"drop", "dial", "login", "command", "cancel"}
INVARIANTS TypeOK CompleteOrFailed FlagsTruthful
PROPERTIES Terminates ImplementsCall
CHECK_DEADLOCK FALSE
