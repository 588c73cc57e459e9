------------------------------ MODULE MCChannels ------------------------------
(* Small instances of Channels, one channel at a time, and of HermesChat, the  *)
(* chat page of the same service.  Update 3 carries the bytes of update 1 once *)
(* more; update 2 has none.                                                    *)
EXTENDS Channels, HermesChat, TLC

CONSTANTS f1, f2, a, b, p, w1, w2,
          page, app     \* a page, and another client of its conversation

VARIABLE scope          \* the channels, or what happens in the conversation

OneChannel == {{"inbox"}, {"telegram"}}

AllOccurrences == ({"inbox"} \X {f1, f2} \X BOOLEAN) \cup ({"telegram"} \X (1..3))

AllContents ==
    [o \in AllOccurrences |->
        CASE o[1] = "inbox" -> IF ~o[3] THEN p ELSE IF o[2] = f1 THEN a ELSE b
          [] o[1] = "telegram" -> IF o[2] = 2 THEN b ELSE a]

TwoNames == f1 :> "scan-1.pdf" @@ f2 :> "scan-2.pdf"

-----------------------------------------------------------------------------
Alone == ~pages[app].socket /\ ~pages[app].in_use
NoQuestions == gateway.asked = {}
NobodyStops == \A t \in Tabs : ~pages[t].stopping
Uses(n) == UsedIds \subseteq {None} \cup 1 .. n

\* Two messages of one page; one message with a question; one message and a
\* second client; three messages, which is more than the receipts hold.
ChatScopes == {"turns", "questions", "clients", "full"}

InScope ==
    CASE scope = "turns"     -> Alone /\ NoQuestions /\ Uses(2)
      [] scope = "questions" -> Alone /\ Uses(1)
      [] scope = "clients"   -> NoQuestions /\ NobodyStops /\ Uses(1)
      [] scope = "full"      -> Alone /\ NoQuestions /\ losses = 0

\* Identifiers are interchangeable: the next one is the next number.
InOrder == \A i \in UsedIds \ {None} : i = 1 \/ i - 1 \in UsedIds

\* Of crashes, deletions, failed captures and decisions about consent, the
\* channels have three in all.
Incidents == restarts + removals + errors + Len(decisions)

MCInit ==
    /\ scope \in {"channels"} \cup ChatScopes
    /\ Init /\ (scope # "channels" => configured = {"inbox"})
    /\ ChatInit

MCNext ==
    /\ scope' = scope
    /\ \/ scope = "channels" /\ Next /\ Incidents' <= 3 /\ UNCHANGED chatVars
       \/ /\ scope \in ChatScopes /\ ChatNext /\ UNCHANGED vars
          /\ Unhurried /\ InOrder' /\ InScope'

MCSpec ==
    /\ MCInit /\ [][MCNext]_<<scope, vars, chatVars>>
    /\ WF_vars(Start) /\ WF_vars(PollerWorks)
==============================================================================
