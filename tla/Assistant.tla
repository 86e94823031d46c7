---- MODULE Assistant ----
(***************************************************************************)
(* The assistant in private chats: the handler private_assistant on top of *)
(* the update pump, the membership check and the retrieval of              *)
(* AssistantService, the durable quota (DurableDailyQuota, Quota-          *)
(* LimitedProvider), the provider's retries and the conversations.         *)
(*                                                                         *)
(* Every update is a question.  Its text, what the archive has on it and   *)
(* the answer are left out; what an answer costs is not.  The unit of time *)
(* is a part of a day.                                                     *)
(***************************************************************************)
EXTENDS UpdatePump

CONSTANTS
  Askers,          \* who writes to the bot
  LastMoment,      \* bound of the clock
  MomentsPerDay,
  DaysPerMonth,
  RequestLimit, TokenLimit, UserLimit, MonthRequestLimit, MonthTokenLimit,
  TokensPerRequest,  \* the reservation
  Costs,           \* what the provider may charge for a request, also more than is reserved
  MaxRetries,      \* of the provider client; 0 is required outside local development
  Ttl, MaxPrevious \* of a conversation: moments it stays open, messages it gives

ASSUME QuotaAssumption ==
  /\ Askers # {}
  /\ {"reserved", "answered", "metered", "recorded", "refused"} \subseteq MidPhases
  /\ {RequestLimit, TokenLimit, UserLimit, MonthRequestLimit, MonthTokenLimit} \subseteq Nat \ {0}
  /\ TokensPerRequest \in Nat \ {0} /\ Costs \subseteq Nat
  /\ {MomentsPerDay, DaysPerMonth, Ttl, MaxPrevious} \subseteq Nat \ {0}
  /\ {LastMoment, MaxRetries} \subseteq Nat

VARIABLES
  moment,
  asker,     \* of every update that has been published
  usage,     \* system_settings ai_usage*, by key
  call,      \* the handler's locals while a request is under way: the day of its reservation,
             \* the retries so far, what was metered
  talks,     \* tables ai_conversations and ai_messages, by asker
  spent,     \* history: what the provider charged for the reservations of a period
  repeats,   \* history: what of it was for requests the client then repeated
  unmetered, \* history: what the others took above their reservation and no counter shows
  calls      \* history: requests to the provider for a party in a period, retries included

quotaVars == <<usage, call, spent, repeats, unmetered, calls>>
assistantVars == <<pumpVars, moment, asker, quotaVars, talks>>

DayOf(t) == t \div MomentsPerDay

MonthOf(day) == day \div DaysPerMonth

Days == 0..DayOf(LastMoment)

\* _key, _month_key, _user_key.
DayKey(day) == <<"day", day>>

MonthKey(day) == <<"month", MonthOf(day)>>

UserKey(day, user) == <<"user", day, user>>

UsageKeys == UNION {{DayKey(d), MonthKey(d)} \cup {UserKey(d, user) : user \in Askers} : d \in Days}

\* What the limits are about: each day and each month, for all together and for each asker.
Daily(day) == {day}

Monthly(day) == {d \in Days : MonthOf(d) = MonthOf(day)}

Periods == {Daily(d) : d \in Days} \cup {Monthly(d) : d \in Days}

Parties == {Askers} \cup {{user} : user \in Askers}

NoUsage == [requests |-> 0, tokens |-> 0]

NoCall == [day |-> 0, tries |-> 0, metered |-> -1]

NoTalk == [messages |-> 0, until |-> 0]

\* Whoever asks first: the names do not matter.
FirstAsker == CHOOSE user \in Askers : TRUE

AssistantInit ==
  /\ PumpInit
  /\ moment = 0
  /\ asker = [u \in Updates |-> FirstAsker]
  /\ usage = [k \in UsageKeys |-> NoUsage]
  /\ call = NoCall
  /\ talks = [user \in Askers |-> NoTalk]
  /\ spent = [p \in Periods |-> 0]
  /\ repeats = [p \in Periods |-> 0]
  /\ unmetered = [p \in Periods |-> 0]
  /\ calls = [who \in Parties |-> [p \in Periods |-> 0]]

Today == DayOf(moment)

User == asker[worker.at]

(***************************************************************************)
(* The world.                                                              *)
(***************************************************************************)
Pass ==
  /\ moment < LastMoment
  /\ moment' = moment + 1
  /\ UNCHANGED <<pumpVars, asker, quotaVars, talks>>

AskSomething(user) ==
  /\ Publish
  /\ published = 0 => user = FirstAsker
  /\ asker' = [asker EXCEPT ![published + 1] = user]
  /\ UNCHANGED <<moment, quotaVars, talks>>

(***************************************************************************)
(* AssistantService.answer up to the provider: the membership is asked for *)
(* at every handling, since who asks may have joined or left, and then the *)
(* quota.                                                                  *)
(***************************************************************************)
\* An answer that is not that of a current member, or none at all.
Deny ==
  /\ Handle("read", "refused")
  /\ UNCHANGED <<moment, asker, quotaVars, talks>>

\* Mutant of Fits: the request at hand is not counted in.
FitsSoFar(user, day) ==
  /\ usage[DayKey(day)].requests < RequestLimit
  /\ usage[DayKey(day)].tokens < TokenLimit
  /\ usage[MonthKey(day)].requests < MonthRequestLimit
  /\ usage[MonthKey(day)].tokens < MonthTokenLimit
  /\ usage[UserKey(day, user)].requests < UserLimit

\* The five limits of DurableDailyQuota.reserve.
Fits(user, day) ==
  /\ usage[DayKey(day)].requests < RequestLimit
  /\ usage[DayKey(day)].tokens + TokensPerRequest <= TokenLimit
  /\ usage[MonthKey(day)].requests < MonthRequestLimit
  /\ usage[MonthKey(day)].tokens + TokensPerRequest <= MonthTokenLimit
  /\ usage[UserKey(day, user)].requests < UserLimit

\* The three counters in one transaction, the asker's without tokens.
Reserved(user, day) ==
  [usage EXCEPT ![DayKey(day)] = [requests |-> @.requests + 1, tokens |-> @.tokens + TokensPerRequest],
                ![MonthKey(day)] = [requests |-> @.requests + 1, tokens |-> @.tokens + TokensPerRequest],
                ![UserKey(day, user)].requests = @ + 1]

Reserve ==
  /\ Handle("read", "reserved")
  /\ Fits(User, Today)
  /\ usage' = Reserved(User, Today)
  /\ call' = [NoCall EXCEPT !.day = Today]
  /\ UNCHANGED <<moment, asker, spent, repeats, unmetered, calls, talks>>

QuotaExceeded ==
  /\ Handle("read", "refused")
  /\ ~Fits(User, Today)
  /\ UNCHANGED <<moment, asker, quotaVars, talks>>

(***************************************************************************)
(* OpenAICompatibleProvider.chat.                                          *)
(***************************************************************************)
Charged(tally, cost) == [p \in Periods |-> IF call.day \in p THEN tally[p] + cost ELSE tally[p]]

\* A request reaches the provider.
Charge(cost) ==
  /\ spent' = Charged(spent, cost)
  /\ calls' = [who \in Parties |-> [p \in Periods |->
       IF User \in who /\ call.day \in p THEN calls[who][p] + 1 ELSE calls[who][p]]]

Larger(a, b) == IF a > b THEN a ELSE b

Above(cost) == Larger(0, cost - TokensPerRequest)

\* The answer arrives, with the usage or without it.
ProviderAnswers(cost, metered) ==
  /\ Handle("reserved", "answered")
  /\ Charge(cost)
  /\ unmetered' = Charged(unmetered, Above(cost))
  /\ call' = [call EXCEPT !.metered = IF metered THEN cost ELSE NoCall.metered]
  /\ UNCHANGED <<moment, asker, usage, repeats, talks>>

\* A timeout or a status that may be retried; the provider may have charged the request.
ProviderRepeats(cost) ==
  /\ Handle("reserved", "reserved")
  /\ call.tries < MaxRetries
  /\ Charge(cost)
  /\ repeats' = Charged(repeats, cost)
  /\ call' = [call EXCEPT !.tries = @ + 1]
  /\ UNCHANGED <<moment, asker, usage, unmetered, talks>>

\* AIError: after the last retry, or at once if the request was rejected or malformed.  The
\* reservation stays.
ProviderFails(cost) ==
  /\ Handle("reserved", "refused")
  /\ Charge(cost)
  /\ unmetered' = Charged(unmetered, Above(cost))
  /\ call' = NoCall
  /\ UNCHANGED <<moment, asker, usage, repeats, talks>>

(***************************************************************************)
(* The answer is accounted for, recorded, and sent.                        *)
(***************************************************************************)
\* The reservation of its own day and month gives way to what was metered.
Metered(tokens) ==
  [k \in UsageKeys |->
    IF k \in {DayKey(call.day), MonthKey(call.day)}
      THEN [usage[k] EXCEPT !.tokens = Larger(0, @ - TokensPerRequest + tokens)]
      ELSE usage[k]]

\* Mutant of Reconcile: a response without usage has cost nothing.
ReconcileMissingAsNothing ==
  /\ Handle("answered", "metered")
  /\ usage' = Metered(Larger(0, call.metered))
  /\ unmetered' = Charged(unmetered, -Above(call.metered))
  /\ call' = NoCall
  /\ UNCHANGED <<moment, asker, spent, repeats, calls, talks>>

\* What was metered is in the counters now, also what is above the reservation.
Reconcile ==
  /\ Handle("answered", "metered")
  /\ usage' = IF call.metered < 0 THEN usage ELSE Metered(call.metered)
  /\ unmetered' = Charged(unmetered, -Above(call.metered))
  /\ call' = NoCall
  /\ UNCHANGED <<moment, asker, spent, repeats, calls, talks>>

Least(a, b) == IF a < b THEN a ELSE b

\* record_exchange: into the conversation that is open, or a new one.  previous_turns gives no
\* more than the last messages of it, so no more are kept count of.
RecordExchange ==
  /\ Handle("metered", "recorded")
  /\ talks' = [talks EXCEPT ![User] =
       [messages |-> Least(MaxPrevious, 2 + IF @.until > moment THEN @.messages ELSE 0),
        until |-> moment + Ttl]]
  /\ UNCHANGED <<moment, asker, quotaVars>>

\* message.answer with the answer or the refusal.
ReplyToAsker ==
  /\ Handle("recorded", "handled") \/ Handle("refused", "handled")
  /\ UNCHANGED <<moment, asker, quotaVars, talks>>

\* A transaction or message.answer fails: the update is put back and handled from the start.
AssistantRaises ==
  /\ worker.phase # "handled"
  /\ RecordFailure
  /\ Suffer
  /\ call' = NoCall
  /\ UNCHANGED <<moment, asker, usage, spent, repeats, unmetered, calls, talks>>

AssistantDies ==
  /\ Restart
  /\ worker # Resting \/ poller.batch # {}
  /\ call' = NoCall
  /\ UNCHANGED <<moment, asker, usage, spent, repeats, unmetered, calls, talks>>

Stays == UNCHANGED <<moment, asker, quotaVars, talks>>

PollerStep == (Fetch \/ Admit) /\ Stays

WorkerStep ==
  \/ (Begin \/ RecordProcessed) /\ Stays
  \/ Deny \/ Reserve \/ QuotaExceeded
  \/ \E cost \in Costs : ProviderFails(cost) \/ \E metered \in BOOLEAN : ProviderAnswers(cost, metered)
  \/ Reconcile \/ RecordExchange \/ ReplyToAsker

Backoff(u) == WaitOver(u) /\ Stays

AssistantNext ==
  \/ Pass
  \/ \E user \in Askers : AskSomething(user)
  \/ PollerStep \/ WorkerStep
  \/ \E u \in Updates : Backoff(u)
  \/ \E cost \in Costs : ProviderRepeats(cost)
  \/ AssistantRaises \/ AssistantDies

AssistantSpec == AssistantInit /\ [][AssistantNext]_assistantVars

(***************************************************************************)
(* Properties; and EveryUpdateEnds of the pump.                            *)
(***************************************************************************)
\* "crashes therefore overcount, never undercount" (quota.py:32) holds of what the reservation
\* covers: whatever fails and whenever the process dies, the counters of a day and of a month
\* lack no more of what the provider has charged than repeated requests, which nobody counts,
\* and what a request took above its reservation and was not metered for: it failed, came
\* without usage, or the process died before reconcile (DurableDailyQuota,
\* QuotaLimitedProvider).
SpendIsAccounted ==
  \A d \in Days :
    /\ spent[Daily(d)] <= usage[DayKey(d)].tokens + repeats[Daily(d)] + unmetered[Daily(d)]
    /\ spent[Monthly(d)] <= usage[MonthKey(d)].tokens + repeats[Monthly(d)] + unmetered[Monthly(d)]

\* What a period may spend under a limit: a metered request that took more than its reservation
\* is seen by the next one, so that only the last may pass the limit.
WithinLimit(p, limit) ==
  \E last \in Costs \cup {TokensPerRequest} :
    spent[p] <= limit - TokensPerRequest + last + repeats[p] + unmetered[p]

\* The requests that as many reservations may come to, with the retries of the client.
RequestsFor(reservations) == reservations * (MaxRetries + 1)

\* The limits of a day, of a month and of an asker hold, also when updates are handled again and
\* again: the tokens but for the excess of one request and for what cannot be counted, the
\* requests with as many retries as the client may make (ai/quota.py, config.py:98,107).
BudgetHolds ==
  \A d \in Days :
    /\ WithinLimit(Daily(d), TokenLimit)
    /\ WithinLimit(Monthly(d), MonthTokenLimit)
    /\ calls[Askers][Daily(d)] <= RequestsFor(RequestLimit)
    /\ calls[Askers][Monthly(d)] <= RequestsFor(MonthRequestLimit)
    /\ \A user \in Askers : calls[{user}][Daily(d)] <= RequestsFor(UserLimit)

====
