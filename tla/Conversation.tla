----------------------------- MODULE Conversation -----------------------------
(***************************************************************************)
(* How a pattern group becomes a draft: _process_groups asks the language  *)
(* model (llm/client.py: two hosts, two attempts each), validates what it  *)
(* answers (proposer/schema.py), and asks once more with the errors.       *)
(* When it runs, and when its drafts are stored, is in NightlyChain.       *)
(*                                                                         *)
(* An automation has a trigger (platform "time", "sun" or "state"), the    *)
(* entities its state conditions ask for, and service calls on targets;    *)
(* `junk` says that something else is in it: an unknown key or platform, a *)
(* second trigger, a time that is none.  Times are minutes.                *)
(***************************************************************************)
EXTENDS Integers, Sequences

CONSTANTS
    Groups,    \* the groups of every night, in the order of build_groups:
               \* [kind, members, trigger (a set: none or one), state, mean]
    Domain,    \* the registry: the domain of each entity in it
    Located,   \* are there coordinates
    SunAt,     \* minute of "sunrise" and "sunset"; of neither on a polar day
    DayLen,    \* minutes in a day
    Grace,     \* grace_minutes of validate_proposal
    Hosts,     \* the number of _targets
    Attempts,  \* ATTEMPTS_PER_HOST
    Answers    \* bound: what the model may answer: [propose, titled, automation]

\* A group holds patterns; one of pairs is of one trigger and its state.
IsGroup(g) ==
    /\ g.members # {}
    /\ \/ g.kind = "time_of_day" /\ g.trigger = {} /\ g.mean \in 0 .. DayLen - 1
       \/ g.kind = "event_pair" /\ \E e \in g.trigger : g.trigger = {e}

\* Times are of a day (_parse_hms), offsets shorter than one.
IsTrigger(t) ==
    \/ t.platform = "time" /\ t.at \in 0 .. DayLen - 1
    \/ /\ t.platform = "sun" /\ t.event \in {"sunrise", "sunset"}
       /\ t.offset \in 1 - DayLen .. DayLen - 1
    \/ t.platform = "state"

\* RESPONSE_SCHEMA asks for `propose` only.
IsAnswer(a) ==
    /\ {a.propose, a.titled, a.automation.junk} \subseteq BOOLEAN
    /\ a.automation.junk \/ IsTrigger(a.automation.trigger)

\* The sun rises and sets on a date, or does neither.
SunTimes ==
    /\ DOMAIN SunAt \in {{}, {"sunrise", "sunset"}}
    /\ \A e \in DOMAIN SunAt : SunAt[e] \in 0 .. DayLen - 1

ASSUME ConversationAssumption ==
    /\ {DayLen, Hosts, Attempts} \subseteq Nat \ {0} /\ Grace \in Nat
    /\ Located \in BOOLEAN /\ SunTimes
    /\ Groups \in Seq({Groups[n] : n \in DOMAIN Groups})
    /\ \A n \in DOMAIN Groups : IsGroup(Groups[n])
    /\ \A a \in Answers : IsAnswer(a)

VARIABLES
    stored,   \* the table of proposals: [group, automation]
    turn,     \* the group that is talked about
    chat,     \* "first", or "retry" with the errors
    host,     \* the host and
    attempt,  \* the attempt of the request
    drafts    \* `inserts`: the rows to insert at the end

talk == <<turn, chat, host, attempt, drafts>>

Rows == [group : DOMAIN Groups, automation : {a.automation : a \in Answers}]

TalkTypeOK ==
    /\ stored \subseteq Rows /\ drafts \subseteq Rows
    /\ turn \in 1 .. Len(Groups) + 1 /\ chat \in {"first", "retry"}
    /\ host \in 1 .. Hosts /\ attempt \in 1 .. Attempts

------------------------------------------------------------------------------
\* validate_proposal.

ALLOWED_SERVICES ==
    LET Switching == {"turn_on", "turn_off"}
    IN  [light |-> Switching, switch |-> Switching, fan |-> Switching,
         media_player |-> Switching, lock |-> {"lock", "unlock"},
         cover |-> {"open_cover", "close_cover"}]

\* What the pydantic models accept, once scalars are made lists.
Shaped(auto) ==
    ~auto.junk /\ auto.calls # {} /\ \A c \in auto.calls : c.targets # {}

Referenced(auto) ==
    (IF auto.trigger.platform = "state" THEN {auto.trigger.entity} ELSE {})
      \cup auto.asks \cup UNION {c.targets : c \in auto.calls}

EntitiesKnown(g, auto) ==
    Referenced(auto) \subseteq (g.members \cup g.trigger) \cap DOMAIN Domain

ServicesMatch(auto) ==
    \A c \in auto.calls :
        /\ c.domain \in DOMAIN ALLOWED_SERVICES /\ c.name \in ALLOWED_SERVICES[c.domain]
        /\ \A e \in c.targets \cap DOMAIN Domain : Domain[e] = c.domain

Distance(a, b) ==
    LET d == (a - b) % DayLen IN IF 2 * d > DayLen THEN DayLen - d ELSE d

\* On a polar day a sun trigger has no time, and is not compared.
TriggerMatches(g, t) ==
    IF g.kind = "time_of_day"
    THEN \/ t.platform = "time" /\ Distance(t.at, g.mean) <= Grace
         \/ /\ t.platform = "sun" /\ Located
            /\ t.event \in DOMAIN SunAt => Distance(SunAt[t.event] + t.offset, g.mean) <= Grace
    ELSE t.platform = "state" /\ t.entity \in g.trigger /\ t.to = g.state

Valid(g, auto) ==
    /\ Shaped(auto)
    /\ EntitiesKnown(g, auto) /\ ServicesMatch(auto) /\ TriggerMatches(g, auto.trigger)

\* With _content_field_errors: a title and a rationale.
Acceptable(g, a) == Valid(g, a.automation) /\ a.titled

------------------------------------------------------------------------------
\* chat_json starts with the first host.
Ask(n, which) == turn' = n /\ chat' = which /\ host' = 1 /\ attempt' = 1

StartOfTalk == turn = 1 /\ chat = "first" /\ host = 1 /\ attempt = 1 /\ drafts = {}

EndOfTalk == Ask(1, "first") /\ drafts' = {}

Talking == turn \in DOMAIN Groups

NextGroup == Ask(turn + 1, "first")

Draft(a) == drafts' = drafts \cup {[group |-> turn, automation |-> a.automation]}

Existing_Never(n) == FALSE  \* Mutant: live proposals are not skipped.

\* `existing`: every stored proposal is live here; other states are in
\* ProposalLifecycle.  The table does not change during the talk.
Existing(n) == \E row \in stored : row.group = n

Skip ==
    /\ Talking /\ Existing(turn)
    /\ NextGroup
    /\ UNCHANGED drafts

\* `propose` is read in the first chat only.
Declines(a) == chat = "first" /\ ~a.propose

Answer_Unchecked(a) ==  \* Mutant: what comes after the retry is stored.
    /\ Talking /\ ~Existing(turn)
    /\ \/ Declines(a) /\ NextGroup /\ UNCHANGED drafts
       \/ ~Declines(a) /\ (chat = "retry" \/ Acceptable(Groups[turn], a))
            /\ Draft(a) /\ NextGroup
       \/ ~Declines(a) /\ chat = "first" /\ ~Acceptable(Groups[turn], a)
            /\ Ask(turn, "retry") /\ UNCHANGED drafts

\* A parsed answer; one with errors is sent back once.
Answer(a) ==
    /\ Talking /\ ~Existing(turn)
    /\ \/ Declines(a) /\ NextGroup /\ UNCHANGED drafts
       \/ ~Declines(a) /\ Acceptable(Groups[turn], a) /\ Draft(a) /\ NextGroup
       \/ /\ ~Declines(a) /\ ~Acceptable(Groups[turn], a)
          /\ IF chat = "first" THEN Ask(turn, "retry") ELSE NextGroup
          /\ UNCHANGED drafts

RequestFails_OneMore ==  \* Mutant: an attempt too many.
    /\ Talking /\ ~Existing(turn)
    /\ \/ attempt <= Attempts /\ attempt' = attempt + 1 /\ UNCHANGED <<turn, chat, host>>
       \/ attempt > Attempts /\ host < Hosts
            /\ host' = host + 1 /\ attempt' = 1 /\ UNCHANGED <<turn, chat>>
       \/ attempt > Attempts /\ host = Hosts /\ NextGroup
    /\ UNCHANGED drafts

\* A request fails, or what it brings is no JSON object: the next attempt, the
\* next host, or LLMError, which ends the group in either chat.
RequestFails ==
    /\ Talking /\ ~Existing(turn)
    /\ \/ attempt < Attempts /\ attempt' = attempt + 1 /\ UNCHANGED <<turn, chat, host>>
       \/ attempt = Attempts /\ host < Hosts
            /\ host' = host + 1 /\ attempt' = 1 /\ UNCHANGED <<turn, chat>>
       \/ attempt = Attempts /\ host = Hosts /\ NextGroup
    /\ UNCHANGED drafts
==============================================================================
