---------------------------- MODULE LinkService -----------------------------
(***************************************************************************)
(* What the MAC promises to the layer above: it transmits one packet at a    *)
(* time, gives every packet it is given back once, with one report, delivers *)
(* every frame it accepts once, with one report, and never lets go of the    *)
(* packet it is transmitting for any other reason.                           *)
(***************************************************************************)
EXTENDS Naturals

CONSTANT Packet

VARIABLES
    given,           \* the packets given to the MAC, that wait for a slot
    sending,         \* the packet of the current slot, if any
    returned,        \* the packets given back and not fetched yet
    received,        \* the frames delivered and not fetched yet
    sendReports,     \* reports of a transmission, not looked at yet
    receiveReports   \* reports of a reception, not looked at yet

linkVars == <<given, sending, returned, received, sendReports, receiveReports>>

InUse == given \cup sending \cup returned \cup received

LinkInit ==
    /\ given = {} /\ sending = {} /\ returned = {} /\ received = {}
    /\ sendReports = 0 /\ receiveReports = 0

Give(p) ==
    /\ p \notin InUse
    /\ given' = given \cup {p}
    /\ UNCHANGED <<sending, returned, received, sendReports, receiveReports>>

Attempt(p) ==
    /\ sending = {} /\ p \in given
    /\ sending' = {p}
    /\ given' = given \ {p}
    /\ UNCHANGED <<returned, received, sendReports, receiveReports>>

Retry ==
    /\ sending # {}
    /\ given' = given \cup sending
    /\ sending' = {}
    /\ UNCHANGED <<returned, received, sendReports, receiveReports>>

Return ==
    /\ sending # {}
    /\ returned' = returned \cup sending
    /\ sending' = {}
    /\ sendReports' = sendReports + 1
    /\ UNCHANGED <<given, received, receiveReports>>

Deliver(p) ==
    /\ p \notin InUse
    /\ received' = received \cup {p}
    /\ receiveReports' = receiveReports + 1
    /\ UNCHANGED <<given, sending, returned, sendReports>>

\* A report may be looked at after its packet was withdrawn.
FetchSent ==
    /\ sendReports > 0
    /\ sendReports' = sendReports - 1
    /\ \/ \E p \in returned : returned' = returned \ {p}
       \/ returned = {} /\ UNCHANGED returned
    /\ UNCHANGED <<given, sending, received, receiveReports>>

FetchReceived ==
    /\ receiveReports > 0
    /\ receiveReports' = receiveReports - 1
    /\ \E p \in received : received' = received \ {p}
    /\ UNCHANGED <<given, sending, returned, sendReports>>

\* The upper layer changes its mind, but not about the packet of this slot.
Withdraw ==
    /\ given' \subseteq given /\ returned' \subseteq returned
    /\ UNCHANGED <<sending, received, sendReports, receiveReports>>

LinkReset ==
    /\ given' = {} /\ sending' = {} /\ returned' = {} /\ received' = {}
    /\ sendReports' = 0 /\ receiveReports' = 0

LinkNext ==
    \/ \E p \in Packet : Give(p) \/ Attempt(p) \/ Deliver(p)
    \/ Retry \/ Return \/ FetchSent \/ FetchReceived \/ Withdraw
    \/ LinkReset

LinkSpec == LinkInit /\ [][LinkNext]_linkVars
=============================================================================
