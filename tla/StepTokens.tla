----------------------------- MODULE StepTokens -----------------------------
(***************************************************************************)
(* Step tokens: issueStepToken on one opening of a data directory and      *)
(* decodeStepToken on the same or a later one, which may have been given   *)
(* other options, while the clock goes on.                                 *)
(*                                                                         *)
(* A token is the text it is made of with the key it is signed with, if    *)
(* any; base64 and HMAC-SHA256 are what they promise to be. Text is the    *)
(* sequence of the fields between its colons, since colons are all that    *)
(* the decoders look for: a text without one is one field, and to put two  *)
(* texts together with a colon between them is to concatenate them.        *)
(***************************************************************************)
EXTENDS Integers, Sequences, FiniteSets

CONSTANTS Field,     \* text without a colon
          Empty,     \* the field without a character
          Decimal,   \* what strconv.FormatInt makes of an expiry
          PathIDs,   \* task and run IDs: what validatePathID lets pass
          StepIDs,   \* step IDs: any text, but not the empty one
          Keys,      \* keys given by WithStepTokenKey
          TTLs,      \* options of WithDefaultStepTokenTTL and WithStepTokenTTL
          DefaultTTL,
          Default,   \* an option that is not given
          MaxOpens,  \* bound: times an engine is opened
          MaxTokens, \* bound: tokens issued
          MaxTime    \* bound of the clock, in milliseconds

\* What a token may have for its expiry.
Expiries == {0} \cup {n \in {time + life : time \in 1..MaxTime, life \in TTLs \cup {DefaultTTL}} : n > 0}

ASSUME PathIDsHaveNoColon == PathIDs \subseteq Field \ {Empty}
ASSUME StepIDsAreText == StepIDs \subseteq Seq(Field) \ {<<>>, <<Empty>>}
ASSUME KeysAreNotEmpty == "" \notin Keys
ASSUME TokenBounds == /\ MaxOpens \in Nat \ {0} /\ MaxTokens \in Nat /\ MaxTime \in Nat \ {0}
                      /\ TTLs \subseteq Int /\ DefaultTTL \in Nat \ {0}
ASSUME DecimalsDiffer == /\ \A m \in Expiries : Decimal[m] \in Field \ {Empty}
                         /\ \A m, n \in Expiries : Decimal[m] = Decimal[n] => m = n

VARIABLES
  secret,  \* cfg.tokenSecret: a given key, the number of the opening that made
           \* one up, or none
  ttl,     \* cfg.tokenTTL
  opens,   \* times the engine was opened
  now,     \* the clock
  issued   \* history: tokens, with the step they are for and how they were issued

vars == <<secret, ttl, opens, now, issued>>

Unsigned == [key |-> "", opening |-> 0]
Given(key) == [key |-> key, opening |-> 0]
MadeUp(n) == [key |-> "", opening |-> n]

-----------------------------------------------------------------------------
\* Issuing and decoding

\* effectiveTokenTTL: the step's option, the engine's, or 24 hours.
EffectiveTTL(option) ==
  IF secret = Unsigned THEN 0
  ELSE IF option # Default THEN option
  ELSE IF ttl # Default THEN ttl ELSE DefaultTTL

\* taskID:runID:stepID
Names(task, run, step) == <<task, run>> \o step

\* issueStepToken and encodeStepToken
Token(task, run, step, option) ==
  LET lives == EffectiveTTL(option)
      exp   == IF lives > 0 THEN now + lives ELSE 0
      names == Names(task, run, step)
  IN  [secret |-> secret,
       text |-> IF secret = Unsigned THEN names ELSE Append(names, Decimal[exp])]

\* strconv.ParseInt
IsNumber(field) == \E n \in Expiries : Decimal[n] = field
Number(field) == CHOOSE n \in Expiries : Decimal[n] = field

Invalid == [error |-> "invalid", task |-> Empty, run |-> Empty, step |-> <<Empty>>]
Expired == [Invalid EXCEPT !.error = "expired"]

\* What both decoders end with: no field may be empty.
Fields(task, run, step) ==
  IF task = Empty \/ run = Empty \/ step = <<Empty>> THEN Invalid
  ELSE [error |-> "none", task |-> task, run |-> run, step |-> step]

\* As it would be with parts[2] for the step ID.
ThirdField(parts) == <<parts[3]>>

\* parseHMACTokenPayload: between the run ID and the last field, colons and all.
StepField(parts) == SubSeq(parts, 3, Len(parts) - 1)

\* As it would be if a token were good for less than its TTL by a millisecond, or if
\* the last field were not looked at.
ExpiresEarly(exp) == exp > 0 /\ now >= exp
NeverExpires(exp) == FALSE

IsPast(exp) == exp > 0 /\ now > exp

\* decodeHMACStepToken
DecodeSigned(token) ==
  LET parts == token.text
      last  == parts[Len(parts)]
  IN  IF token.secret # secret \/ Len(parts) < 4 \/ ~IsNumber(last) THEN Invalid
      ELSE LET fields == Fields(parts[1], parts[2], StepField(parts)) IN
           IF fields.error = "none" /\ IsPast(Number(last)) THEN Expired ELSE fields

\* strings.SplitN(_, ":", 3): what follows the second colon, in one.
Remainder(parts) == SubSeq(parts, 3, Len(parts))

\* decodeStepToken, for unsigned tokens.
DecodeUnsigned(token) ==
  LET parts == token.text IN
  IF Len(parts) < 3 THEN Invalid
  ELSE Fields(parts[1], parts[2], Remainder(parts))

\* An engine with a secret takes signed tokens only, one without takes unsigned only.
Decode(token) ==
  IF (token.secret = Unsigned) # (secret = Unsigned) THEN Invalid
  ELSE IF secret = Unsigned THEN DecodeUnsigned(token) ELSE DecodeSigned(token)

-----------------------------------------------------------------------------
\* Engines

\* resolveStepTokenKey: a given key comes first, then WithUnsignedStepTokens; without
\* either the engine makes up a key.
Configure(n) == {Unsigned, MadeUp(n)} \cup {Given(key) : key \in Keys}

Init ==
  /\ opens = 1 /\ now = 1 /\ issued = {}
  /\ secret \in Configure(1)
  /\ ttl \in TTLs \cup {Default}

\* StepToken, in a step function.
StepToken(task, run, step, option) ==
  /\ Cardinality(issued) < MaxTokens
  /\ issued' = issued \cup {[token |-> Token(task, run, step, option), task |-> task, run |-> run,
                             step |-> step, at |-> now, option |-> option, default |-> ttl]}
  /\ UNCHANGED <<secret, ttl, opens, now>>

Reopen ==
  /\ opens < MaxOpens
  /\ opens' = opens + 1
  /\ secret' \in Configure(opens')
  /\ ttl' \in TTLs \cup {Default}
  /\ UNCHANGED <<now, issued>>

Tick ==
  /\ now < MaxTime
  /\ now' = now + 1
  /\ UNCHANGED <<secret, ttl, opens, issued>>

Next ==
  \/ \E task, run \in PathIDs, step \in StepIDs, option \in TTLs \cup {Default} :
       StepToken(task, run, step, option)
  \/ Reopen \/ Tick

Spec == Init /\ [][Next]_vars

-----------------------------------------------------------------------------
\* Properties

\* step.go:160-162, token.go:195-196: whatever colons a step ID has, on whatever
\* engine, a token that is accepted names the task, run and step it was issued for:
\* its payload goes to no other step.
NamesItsStep ==
  \A t \in issued :
    LET d == Decode(t.token) IN
    d.error = "none" => d.task = t.task /\ d.run = t.run /\ d.step = t.step

\* What was asked for a token when it was issued.
Lives(t) == IF t.token.secret = Unsigned THEN 0
            ELSE IF t.option # Default THEN t.option
            ELSE IF t.default # Default THEN t.default ELSE DefaultTTL
InTime(t) == Lives(t) <= 0 \/ now - t.at <= Lives(t)

\* token.go:22-26, 75-78: a token works on every engine with the key it was issued
\* with, restarts or not, up to the end of its TTL.
AcceptedInTime ==
  \A t \in issued : t.token.secret = secret /\ InTime(t) => Decode(t.token).error = "none"

\* And not after that, though the engine of now may have another default, nor with
\* another key or none (README.md:278).
RefusedOtherwise ==
  \A t \in issued : ~(t.token.secret = secret /\ InTime(t)) => Decode(t.token).error # "none"
=============================================================================
