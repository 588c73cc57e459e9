--------------------------------- MODULE MCBank ---------------------------------
(* Small instances of BankConnection and of BankFeed: a behaviour belongs to *)
(* one of the two parts, and the other part rests.                           *)
EXTENDS BankConnection, BankFeed, TLC

VARIABLE part

CallerSymmetry == Permutations(Callers)

OnFeed == [s1 |-> "main", s2 |-> "joint"]
Charges == {[pending |-> FALSE, amount |-> 5, day |-> 1], [pending |-> FALSE, amount |-> 5, day |-> 9],
            [pending |-> TRUE, amount |-> 5, day |-> 1]}
Chosen == {[feed |-> "main", account |-> "chequing", included |-> TRUE, role |-> "primary"],
           [feed |-> "main", account |-> "chequing", included |-> FALSE, role |-> "primary"],
           [feed |-> "joint", account |-> "chequing", included |-> TRUE, role |-> "secondary"],
           [feed |-> "joint", account |-> "chequing", included |-> TRUE, role |-> "primary"]}
Slip == [r1 |-> [amount |-> 5, day |-> 2]]
Lines == {[line |-> "l1", account |-> "chequing", amount |-> 5, day |-> 8]}
Edited == {<<6, 1>>}
Calendar == [d \in 1..10 |-> IF d <= 5 THEN "june" ELSE "july"]

\* Of the feed, a behaviour has one provider account with receipts and statement
\* lines, one with edits and closed months, or two of one ledger account.
One == current'["s2"] = 0 /\ \A i \in DOMAIN bindings' : bindings'[i].feed = "main"
Plain == receipts' = receipts
Unedited == \A t \in DOMAIN ledger' : ~ledger'[t].edited
Papers == One /\ Unedited /\ closed' = {}
Revised == One /\ Plain /\ Len(bindings') <= 2
Shared == Plain /\ Unedited /\ \A t \in DOMAIN ledger' : ledger'[t].source = "bank_feed"

\* Of the connections, a behaviour has a lapse or a crash, and a second window
\* unless it has two sessions and one of these.
Faults == used'.lapses + used'.crashes
Brief == /\ Faults <= 1
         /\ Len(sessions') + Faults > 2 => \A c \in DOMAIN windows' : Len(windows'[c]) <= 1

MCInit == Init /\ FeedInit /\ part \in {"connection", "papers", "revised", "shared"}
MCNext == /\ UNCHANGED part
          /\ \/ part = "connection" /\ Next /\ Brief /\ UNCHANGED feedVars
             \/ part = "papers" /\ FeedNext /\ Papers /\ UNCHANGED vars
             \/ part = "revised" /\ FeedNext /\ Revised /\ UNCHANGED vars
             \/ part = "shared" /\ FeedNext /\ Shared /\ UNCHANGED vars
MCSpec == MCInit /\ [][MCNext]_<<vars, feedVars, part>>
=============================================================================
