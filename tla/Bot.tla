-------------------------------- MODULE Bot ---------------------------------
(***************************************************************************)
(* The quick actions of the bot (bot/index.ts): buttons under a             *)
(* notification that run the same domain calls as the Mini App, and the    *)
(* text that takes their place.  The tap is an update of Telegram's, which *)
(* is delivered again when it is not answered well or in time, also while  *)
(* it is still being handled; two handlers then edit one card, and each of *)
(* an admin's or producer's cards is a message of its own.  No subject is  *)
(* ever deleted, so the NOT_FOUND of the calls themselves does not occur.  *)
(***************************************************************************)
EXTENDS Nudge

CONSTANTS
    Applicants,  \* subjects of N1, one card for each of two admins
    Rsvs,        \* subjects of N6 and N7, two cards of one producer
    Handlers     \* bound: updates handled

ASSUME BotAssumption ==
    /\ None \notin Applicants \cup Rsvs \cup Offers
    /\ Applicants \cap Rsvs = {} /\ (Applicants \cup Rsvs) \cap Offers = {}

VARIABLES
    kind,     \* bound: what moves in this run: members, reservations or offers
    status,   \* of applicants and reservations
    says,     \* what has taken the place of a card's buttons
    handlers, \* updates, from the tap to the answer
    since     \* history: the statuses its subject has had since a handler began

botVars == <<kind, status, says, handlers>>
vars == <<now, due, offers, snapshot, asked, acts, kind, status, says, handlers, since>>

\* What members and their deadlines may do to a subject, through the same services.
Moves == [applicant   |-> {<<"pending", "approved">>, <<"pending", "rejected">>,
                           <<"rejected", "approved">>, <<"approved", "suspended">>,
                           <<"suspended", "approved">>},
          reservation |-> {<<"pending", "confirmed">>, <<"pending", "rejected">>,
                           <<"pending", "cancelled">>, <<"pending", "expired">>,
                           <<"confirmed", "delivered">>, <<"confirmed", "cancelled">>}]

KindOf(e) == CASE e \in Applicants -> "applicant"
               [] e \in Rsvs -> "reservation"
               [] OTHER -> "offer"

\* Every card: an N10 for each question asked.
Cards == ((Applicants \cup Rsvs) \X {1, 2}) \cup asked
StatusOf(e) == IF e \in Offers THEN offers[e].status ELSE status[e]

\* QUICK_ACTIONS, and the moves and outcomes they stand for.
ActionsOf == [applicant   |-> {"approve", "reject"},
              reservation |-> {"confirm", "refuse"},
              offer       |-> {"still", "withdraw"}]
Becomes == [approve |-> "approved", reject |-> "rejected",
            confirm |-> "confirmed", refuse |-> "rejected",
            still |-> "active", withdraw |-> "withdrawn"]

\* An update and the text it leads to: what the tap did, or what there is.
Nobody == [stage |-> "none", card |-> None, action |-> None, found |-> None, text |-> None]
NotFound == "not found"
Running == {"acting", "looking", "saying"}

Init ==
    /\ NudgeInit
    /\ kind \in {"applicant", "reservation", "offer"}
    /\ status = [e \in Applicants \cup Rsvs |-> "pending"]
    /\ says = {}
    /\ handlers = [h \in Handlers |-> Nobody]
    /\ since = [h \in Handlers |-> {}]

\* Every step ends with what its handlers' subjects now are.
Watch ==
    since' = [h \in Handlers |->
        IF handlers'[h].stage \notin Running THEN {}
        ELSE (IF handlers[h].stage \in Running THEN since[h] ELSE {})
                \cup {StatusOf(handlers[h].card[1])'}]

Says(c) == \E s \in says : s[1] = c
Untouched == UNCHANGED nudgeVars

\* A handler begins.  Of an applicant it reads the row first.
Begins(h, c, a) ==
    /\ handlers[h].stage = "none"
    /\ handlers' = [handlers EXCEPT ![h] =
           [stage |-> "acting", card |-> c, action |-> a,
            found |-> IF c[1] \in Applicants THEN status[c[1]] ELSE None, text |-> None]]
    /\ UNCHANGED <<now, due, offers, snapshot, asked, kind, status, says>>
    /\ Watch

\* A button is there until the card says something.
Tap(h, c, a) ==
    /\ KindOf(c[1]) = kind /\ a \in ActionsOf[kind] /\ ~Says(c)
    /\ Acts /\ Begins(h, c, a)

\* The update comes again, within the hour.
Redeliver(h, g) ==
    /\ handlers[g].card # None
    /\ Begins(h, handlers[g].card, handlers[g].action)
    /\ UNCHANGED acts

Goes(h, stage, text) ==
    handlers' = [handlers EXCEPT ![h].stage = stage, ![h].text = text]

\* members.act(), reservations.act(): the transaction of the domain.
Act(h) ==
    LET e == handlers[h].card[1]
        to == Becomes[handlers[h].action]
    IN /\ handlers[h].stage = "acting" /\ e \notin Offers
       /\ IF <<status[e], to>> \in Moves[kind]
                 /\ (handlers[h].action = "approve" => status[e] \in {"pending", "rejected"})
            THEN /\ status' = [status EXCEPT ![e] = to]
                 /\ Goes(h, "saying", [did |-> TRUE, is |-> to])
            ELSE /\ IF e \in Applicants
                      THEN Goes(h, "saying", [did |-> FALSE, is |-> handlers[h].found])
                      ELSE Goes(h, "looking", None)
                 /\ UNCHANGED status
       /\ UNCHANGED <<kind, says>> /\ Untouched /\ Watch

\* offers.stillAvailable(), offers.withdraw().
ActOnOffer(h) ==
    LET o == handlers[h].card[1]
        to == Becomes[handlers[h].action]
        may == IF to = "active" THEN offers[o].status = "active"
               ELSE offers[o].status # "withdrawn"
    IN /\ handlers[h].stage = "acting" /\ o \in Offers
       /\ IF may
            THEN /\ IF to = "active" THEN StillAvailable(o) ELSE Withdraw(o)
                 /\ Goes(h, "saying", [did |-> TRUE, is |-> to])
                 /\ UNCHANGED acts
            ELSE Goes(h, "looking", None) /\ Untouched
       /\ UNCHANGED <<kind, status, says>> /\ Watch

Explains(h, is) ==
    /\ handlers[h].stage = "looking"
    /\ Goes(h, "saying", [did |-> FALSE, is |-> is])
    /\ UNCHANGED <<kind, status, says>> /\ Untouched /\ Watch

\* Fault: it is explained by what the button would have done.
LookAtButton(h) == Explains(h, Becomes[handlers[h].action])

\* The refusal of a stale button is explained by what is there now.
Look(h) == Explains(h, StatusOf(handlers[h].card[1]))

\* get().catch(() => null): the database fails, or the member was suspended meanwhile.
LookFails(h) == Explains(h, NotFound)

\* answerCallbackQuery and appendOutcome: the text replaces whatever was there.
Say(h) ==
    /\ handlers[h].stage = "saying"
    /\ LET c == handlers[h].card IN
         says' = {s \in says : s[1] # c} \cup {<<c, handlers[h].text>>}
    /\ Goes(h, "done", None)
    /\ UNCHANGED <<kind, status>> /\ Untouched /\ Watch

\* The query is too old to answer, the message to edit; the actor may no longer
\* act; the call itself fails: the card stays, and what was done stays done.
GiveUp(h) ==
    /\ handlers[h].stage \in Running
    /\ Goes(h, "done", None)
    /\ UNCHANGED <<kind, status, says>> /\ Untouched /\ Watch

\* Somebody else, another device, a deadline.
OthersAct(e) ==
    /\ KindOf(e) = kind /\ Acts
    /\ \E to \in {m[2] : m \in Moves[kind]} :
         /\ <<status[e], to>> \in Moves[kind]
         /\ status' = [status EXCEPT ![e] = to]
    /\ UNCHANGED <<now, due, offers, snapshot, asked, kind, says, handlers>>
    /\ Watch

\* Offers: their jobs and the Mini App.  An hour is longer than any update.
OffersMove ==
    /\ kind = "offer" /\ NudgeNext
    /\ IF now' = now THEN UNCHANGED handlers
       ELSE /\ \A h \in Handlers : handlers[h].stage \notin Running
            /\ handlers' = [h \in Handlers |-> [Nobody EXCEPT !.stage = handlers[h].stage]]
    /\ UNCHANGED <<kind, status, says>>
    /\ Watch

Next ==
    \/ OffersMove
    \/ \E e \in Applicants \cup Rsvs : OthersAct(e)
    \/ \E h \in Handlers :
         \/ \E c \in Cards : \E a \in ActionsOf[kind] : Tap(h, c, a)
         \/ \E g \in Handlers : Redeliver(h, g)
         \/ Act(h) \/ ActOnOffer(h) \/ Look(h) \/ LookFails(h) \/ Say(h) \/ GiveUp(h)

Spec == Init /\ [][Next]_vars

-----------------------------------------------------------------------------
\* From one status to another, in any number of moves.
Leads(k, from, to) ==
    LET step(S) == S \cup {m[2] : m \in {n \in Moves[k] : n[1] \in S}}
    IN to \in step(step(step({from})))

\* The moves of an applicant or a reservation lead from what is said to what is.
Truthful(e, is) ==
    (e \notin Offers /\ is # NotFound) =>
        Leads(kind, is, status[e]) /\ (e \in Rsvs => is # "pending")

\* What takes the place of a button is true (bot/index.ts 203-354, ARCH 8 step 4).
\* Whatever a handler is about to say of an applicant, a reservation or an offer,
\* it has been so since that handler began, with any other in between.  On the
\* card it stays true: what a tap says it did was done and the subject went on from
\* there, whichever of two handlers wrote last; and a stale button of a reservation
\* is explained by what came after "pending".  Two exceptions: an applicant's stale
\* button is explained by the status read before the call, so the card may say that
\* "pending" is what was decided; and a second read that fails says "not found".
CardTellsTruth ==
    /\ \A h \in Handlers : handlers[h].stage = "saying" =>
         handlers[h].text.is \in since[h] \cup {NotFound}
    /\ \A s \in says : Truthful(s[1][1], s[2].is)

\* Inductive: what a handler has read, or is to say, is as true as a card.
Stages == {"none", "acting", "looking", "saying", "done"}
Subjects == Applicants \cup Rsvs

BotTypeOK ==
    /\ asked \subseteq Offers \X Int
    /\ kind \in {"applicant", "reservation", "offer"}
    /\ status = [e \in Subjects |-> status[e]]
    /\ handlers = [h \in Handlers |-> handlers[h]]
    /\ \A h \in Handlers :
         LET t == handlers[h] IN
         t = [stage |-> t.stage, card |-> t.card, action |-> t.action,
              found |-> t.found, text |-> t.text]

Knows(t) ==
    LET e == t.card[1] IN
    /\ t.stage \in Stages
    /\ t.stage \in Running \/ t.card # None =>
         /\ e \in Subjects \cup Offers /\ KindOf(e) = kind
         /\ t.action \in ActionsOf[kind]
    /\ t.stage = "acting" /\ e \in Applicants => Leads(kind, t.found, status[e])
    /\ t.stage = "looking" => e \notin Applicants /\ (e \in Rsvs => status[e] # "pending")
    /\ t.stage = "saying" => Truthful(e, t.text.is)

\* A handler has seen what its subject is, what it has read and what it says.
HasSeen(h) ==
    LET t == handlers[h] IN
    t.stage \in Running =>
        /\ StatusOf(t.card[1]) \in since[h]
        /\ t.stage = "acting" /\ t.card[1] \in Applicants => t.found \in since[h]
        /\ t.stage = "saying" => t.text.is \in since[h] \cup {NotFound}

CardInv ==
    /\ BotTypeOK
    /\ \A h \in Handlers : Knows(handlers[h])
    /\ \A s \in says :
         /\ s[1][1] \in Subjects \cup Offers
         /\ Truthful(s[1][1], s[2].is)

SeenInv == \A h \in Handlers : HasSeen(h)
=============================================================================
