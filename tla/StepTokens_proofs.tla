-------------------------- MODULE StepTokens_proofs --------------------------
(***************************************************************************)
(* What a step token is good for, for any IDs, keys, TTLs and numbers of   *)
(* engines and tokens, and any text between its colons:                    *)
(*                                                                         *)
(*   NamesItsStep      an accepted token names the step it was issued for  *)
(*   AcceptedInTime    it is accepted under its key while its TTL lasts    *)
(*   RefusedOtherwise  and neither later nor under another key             *)
(*                                                                         *)
(* The invariant, TokenInv, says what a token holds (IssuedAs) and that it *)
(* was issued in the past. The rest is what the decoders make of such a    *)
(* text, on an engine with any secret (DecodesWhatWasIssued).              *)
(***************************************************************************)
EXTENDS StepTokens, TLAPS

Expiry(t) == IF Lives(t) > 0 THEN t.at + Lives(t) ELSE 0

Signed(task, run, step, last) == Append(Names(task, run, step), last)

IssuedAs(t) ==
  /\ t.task \in PathIDs /\ t.run \in PathIDs /\ t.step \in StepIDs
  /\ t.at \in 1..now
  /\ Lives(t) \in TTLs \cup {DefaultTTL, 0}
  /\ t.token.text = IF t.token.secret = Unsigned THEN Names(t.task, t.run, t.step)
                    ELSE Signed(t.task, t.run, t.step, Decimal[Expiry(t)])

TokenInv == /\ now \in 1..MaxTime
            /\ ttl \in TTLs \cup {Default}
            /\ \A t \in issued : IssuedAs(t)

-----------------------------------------------------------------------------
\* Text

\* The fields of a token: the two IDs, those of the step ID, and what is behind them.
LEMMA FieldsOfNames ==
  ASSUME NEW task \in Field, NEW run \in Field, NEW step \in Seq(Field),
         NEW names, names = Names(task, run, step)
  PROVE  /\ Len(names) = Len(step) + 2 /\ Len(step) \in Nat
         /\ names[1] = task /\ names[2] = run
         /\ Remainder(names) = step
<1>1. /\ names \in Seq(Field) /\ Len(names) = Len(step) + 2 /\ Len(step) \in Nat
      /\ names[1] = task /\ names[2] = run
      /\ \A i \in 1..Len(step) : names[i + 2] = step[i]
  BY DEF Names
<1> DEFINE rest == SubSeq(names, 3, Len(names))
<1>2. rest \in Seq(Field) /\ Len(rest) = Len(step) /\ \A i \in 1..Len(step) : rest[i] = names[i + 2]
  BY <1>1
<1> HIDE DEF rest
<1>3. rest = step
  BY <1>1, <1>2
<1> QED
  BY <1>1, <1>3 DEF rest, Remainder

LEMMA FieldsOfSigned ==
  ASSUME NEW task \in Field, NEW run \in Field, NEW step \in Seq(Field), NEW last \in Field,
         NEW parts, parts = Signed(task, run, step, last)
  PROVE  /\ Len(parts) = Len(step) + 3 /\ Len(step) \in Nat
         /\ parts[1] = task /\ parts[2] = run /\ parts[Len(parts)] = last
         /\ StepField(parts) = step
<1> DEFINE names == Names(task, run, step)
<1>0. parts = Append(names, last)
  BY DEF Signed
<1>1. /\ names \in Seq(Field) /\ Len(names) = Len(step) + 2 /\ Len(step) \in Nat
      /\ names[1] = task /\ names[2] = run /\ Remainder(names) = step
  <2>1. names \in Seq(Field)
    BY DEF Names
  <2> QED
    BY <2>1, FieldsOfNames
<1> HIDE DEF names
<1>2. /\ parts \in Seq(Field) /\ Len(parts) = Len(step) + 3
      /\ parts[1] = task /\ parts[2] = run /\ parts[Len(parts)] = last
      /\ \A i \in 1..Len(names) : parts[i] = names[i]
  BY <1>0, <1>1
<1> DEFINE field == StepField(parts)
           rest  == SubSeq(names, 3, Len(names))
<1>3. field = rest
  <2>1. /\ field \in Seq(Field) /\ Len(field) = Len(step)
        /\ \A i \in 1..Len(step) : field[i] = parts[i + 2]
    BY <1>1, <1>2 DEF StepField
  <2>2. /\ rest \in Seq(Field) /\ Len(rest) = Len(step)
        /\ \A i \in 1..Len(step) : rest[i] = names[i + 2]
    BY <1>1
  <2>3. \A i \in 1..Len(step) : parts[i + 2] = names[i + 2]
    BY <1>1, <1>2
  <2> HIDE DEF field, rest
  <2>4. /\ field = [i \in 1..Len(step) |-> field[i]]
        /\ rest = [i \in 1..Len(step) |-> rest[i]]
    BY <2>1, <2>2
  <2>5. \A i \in 1..Len(step) : field[i] = rest[i]
    BY <2>1, <2>2, <2>3
  <2> QED
    BY <2>4, <2>5
<1> QED
  BY <1>1, <1>2, <1>3 DEF Remainder

LEMMA ExpiryIsRead ==
  ASSUME NEW t, IssuedAs(t), now \in 1..MaxTime
  PROVE  /\ Expiry(t) \in Expiries /\ Decimal[Expiry(t)] \in Field
         /\ IsNumber(Decimal[Expiry(t)]) /\ Number(Decimal[Expiry(t)]) = Expiry(t)
<1>1. Expiry(t) \in Expiries
  <2>1. CASE Lives(t) > 0
    <3> DEFINE lives == Lives(t)
    <3>1. t.at \in 1..now /\ lives \in TTLs \cup {DefaultTTL, 0} /\ lives > 0
      BY <2>1 DEF IssuedAs
    <3> HIDE DEF lives
    <3>2. t.at \in 1..MaxTime
      BY <3>1, TokenBounds
    <3>3. lives \in TTLs \cup {DefaultTTL} /\ lives \in Int
      BY <3>1, TokenBounds
    <3>4. t.at + lives > 0
      BY <3>1, <3>2, <3>3, TokenBounds
    <3> QED
      BY <2>1, <3>2, <3>3, <3>4 DEF Expiry, Expiries, lives
  <2>2. CASE ~(Lives(t) > 0)
    BY <2>2 DEF Expiry, Expiries
  <2> QED
    BY <2>1, <2>2
<1> QED
  BY <1>1, DecimalsDiffer DEF IsNumber, Number

-----------------------------------------------------------------------------
\* Decoding

LEMMA DecodesWhatWasIssued ==
  ASSUME NEW t, IssuedAs(t), now \in 1..MaxTime
  PROVE  /\ t.token.secret # secret => Decode(t.token).error = "invalid"
         /\ t.token.secret = secret =>
              IF secret # Unsigned /\ IsPast(Expiry(t)) THEN Decode(t.token) = Expired
              ELSE Decode(t.token) = [error |-> "none", task |-> t.task, run |-> t.run, step |-> t.step]
<1> DEFINE accepted == [error |-> "none", task |-> t.task, run |-> t.run, step |-> t.step]
<1>1. /\ t.task \in Field /\ t.run \in Field /\ t.step \in Seq(Field)
      /\ Len(t.step) \in Nat /\ Len(t.step) >= 1
      /\ Fields(t.task, t.run, t.step) = accepted
  <2>1. /\ t.task \in Field \ {Empty} /\ t.run \in Field \ {Empty}
        /\ t.step \in Seq(Field) /\ t.step # <<>> /\ t.step # <<Empty>>
    BY PathIDsHaveNoColon, StepIDsAreText DEF IssuedAs
  <2> QED
    BY <2>1 DEF Fields
<1>2. CASE t.token.secret # secret
  BY <1>2 DEF Decode, DecodeSigned, Invalid
<1>3. CASE t.token.secret = secret /\ secret = Unsigned
  <2> DEFINE parts == t.token.text
  <2>1. parts = Names(t.task, t.run, t.step)
    BY <1>3 DEF IssuedAs
  <2>2. /\ ~(Len(parts) < 3) /\ parts[1] = t.task /\ parts[2] = t.run
        /\ Remainder(parts) = t.step
    <3> HIDE DEF parts
    <3>1. /\ Len(parts) = Len(t.step) + 2 /\ parts[1] = t.task /\ parts[2] = t.run
          /\ Remainder(parts) = t.step
      <4>1. t.task \in Field /\ t.run \in Field /\ t.step \in Seq(Field)
        BY <1>1
      <4> QED
        BY <2>1, <4>1, FieldsOfNames
    <3> QED
      BY <1>1, <3>1
  <2>3. DecodeUnsigned(t.token) = accepted
    <3> HIDE DEF accepted
    <3> QED
      BY <1>1, <2>2 DEF DecodeUnsigned
  <2> QED
    BY <1>3, <2>3 DEF Decode
<1>4. CASE t.token.secret = secret /\ secret # Unsigned
  <2> DEFINE parts == t.token.text
             last  == Decimal[Expiry(t)]
  <2>1. parts = Signed(t.task, t.run, t.step, last)
    BY <1>4 DEF IssuedAs
  <2>2. last \in Field /\ IsNumber(last) /\ Number(last) = Expiry(t)
    BY ExpiryIsRead
  <2>3. /\ ~(Len(parts) < 4) /\ parts[1] = t.task /\ parts[2] = t.run
        /\ parts[Len(parts)] = last /\ StepField(parts) = t.step
    <3> HIDE DEF parts, last
    <3>1. /\ Len(parts) = Len(t.step) + 3 /\ parts[1] = t.task /\ parts[2] = t.run
          /\ parts[Len(parts)] = last /\ StepField(parts) = t.step
      <4>1. t.task \in Field /\ t.run \in Field /\ t.step \in Seq(Field) /\ last \in Field
        BY <1>1, <2>2
      <4> QED
        BY <2>1, <4>1, FieldsOfSigned
    <3> QED
      BY <1>1, <3>1
  <2> HIDE DEF last
  <2>4. DecodeSigned(t.token) = IF IsPast(Expiry(t)) THEN Expired ELSE accepted
    <3>1. ~(t.token.secret # secret \/ Len(parts) < 4 \/ ~IsNumber(parts[Len(parts)]))
      BY <1>4, <2>2, <2>3
    <3>2. Fields(parts[1], parts[2], StepField(parts)) = accepted /\ accepted.error = "none"
      BY <1>1, <2>3
    <3>3. Number(parts[Len(parts)]) = Expiry(t)
      BY <2>2, <2>3
    <3> HIDE DEF accepted
    <3> QED
      BY <3>1, <3>2, <3>3 DEF DecodeSigned
  <2> QED
    BY <1>4, <2>4 DEF Decode
<1> QED
  BY <1>2, <1>3, <1>4

\* A token is past its expiry when its TTL is over.
LEMMA PastIsNotInTime ==
  ASSUME NEW t, IssuedAs(t), now \in 1..MaxTime
  PROVE  IsPast(Expiry(t)) <=> ~InTime(t)
<1>1. now \in Int /\ t.at \in Int /\ t.at >= 1 /\ Lives(t) \in Int
  <2>1. t.at \in 1..now /\ Lives(t) \in TTLs \cup {DefaultTTL, 0}
    BY DEF IssuedAs
  <2> DEFINE at == t.at
             lives == Lives(t)
  <2> HIDE DEF at, lives
  <2>2. at \in 1..now /\ lives \in TTLs \cup {DefaultTTL, 0}
    BY <2>1 DEF at, lives
  <2>3. now \in Int /\ at \in Int /\ at >= 1 /\ lives \in Int
    BY <2>2, TokenBounds
  <2> QED
    BY <2>3 DEF at, lives
<1> DEFINE lives == Lives(t)
           at == t.at
<1> HIDE DEF lives, at
<1>2. now \in Int /\ at \in Int /\ at >= 1 /\ lives \in Int
  BY <1>1 DEF lives, at
<1> SUFFICES IsPast(IF lives > 0 THEN at + lives ELSE 0) <=> ~(lives <= 0 \/ now - at <= lives)
  BY DEF Expiry, InTime, lives, at
<1> QED
  BY <1>2 DEF IsPast

-----------------------------------------------------------------------------
\* The invariant

LEMMA TokenInit == Init => TokenInv
BY TokenBounds DEF Init, TokenInv

LEMMA StepTokenKeeps ==
  ASSUME TokenInv, NEW task \in PathIDs, NEW run \in PathIDs, NEW step \in StepIDs,
         NEW option \in TTLs \cup {Default}, StepToken(task, run, step, option)
  PROVE  TokenInv'
<1> DEFINE new == [token |-> Token(task, run, step, option), task |-> task, run |-> run,
                   step |-> step, at |-> now, option |-> option, default |-> ttl]
<1>1. issued' = issued \cup {new} /\ UNCHANGED <<secret, ttl, opens, now>>
  BY DEF StepToken
<1>2. IssuedAs(new)
  <2>1. new.token.secret = secret /\ Lives(new) = EffectiveTTL(option)
    BY DEF Token, Lives, EffectiveTTL
  <2>2. EffectiveTTL(option) \in TTLs \cup {DefaultTTL, 0}
    BY DEF EffectiveTTL, TokenInv
  <2>3. new.token.text = IF secret = Unsigned THEN Names(task, run, step)
                         ELSE Signed(task, run, step, Decimal[Expiry(new)])
    BY <2>1 DEF Token, Expiry, Signed
  <2>4. new.at \in 1..now
    BY TokenBounds DEF TokenInv
  <2> QED
    BY <2>1, <2>2, <2>3, <2>4 DEF IssuedAs
<1> HIDE DEF new
<1>3. \A t \in issued' : IssuedAs(t)
  BY <1>1, <1>2 DEF TokenInv
<1>4. \A t : IssuedAs(t)' <=> IssuedAs(t)
  BY <1>1 DEF IssuedAs, Lives, Expiry
<1> QED
  BY <1>1, <1>3, <1>4 DEF TokenInv

LEMMA TokenStep == TokenInv /\ [Next]_vars => TokenInv'
<1> SUFFICES ASSUME TokenInv, [Next]_vars PROVE TokenInv'
  OBVIOUS
<1>1. ASSUME NEW task \in PathIDs, NEW run \in PathIDs, NEW step \in StepIDs,
             NEW option \in TTLs \cup {Default}, StepToken(task, run, step, option)
      PROVE  TokenInv'
  BY <1>1, StepTokenKeeps
<1>2. CASE Reopen
  <2>1. ttl' \in TTLs \cup {Default} /\ UNCHANGED <<now, issued>>
    BY <1>2 DEF Reopen
  <2> QED
    BY <2>1 DEF TokenInv, IssuedAs, Lives, Expiry
<1>3. CASE Tick
  <2>1. now' = now + 1 /\ now' \in 1..MaxTime /\ now \in Nat /\ UNCHANGED <<secret, ttl, opens, issued>>
    BY <1>3, TokenBounds DEF Tick, TokenInv
  <2>2. ASSUME NEW t, IssuedAs(t) PROVE IssuedAs(t)'
    <3>1. t.at \in 1..now'
      BY <2>1, <2>2 DEF IssuedAs
    <3> QED
      BY <2>2, <3>1 DEF IssuedAs, Lives, Expiry
  <2> QED
    BY <2>1, <2>2 DEF TokenInv
<1>4. CASE UNCHANGED vars
  BY <1>4 DEF vars, TokenInv, IssuedAs, Lives, Expiry
<1> QED
  BY <1>1, <1>2, <1>3, <1>4 DEF Next

LEMMA TokensAlways == Spec => []TokenInv
BY TokenInit, TokenStep, PTL DEF Spec

-----------------------------------------------------------------------------
\* Theorems

\* decodeStepToken: whatever colons a step ID has, and with whatever key and options
\* the engine was opened again, an accepted token leads to the task, run and step it
\* was issued for.
THEOREM TokensNameTheirStep == Spec => []NamesItsStep
<1>1. TokenInv => NamesItsStep
  <2> SUFFICES ASSUME TokenInv, NEW t \in issued, Decode(t.token).error = "none"
               PROVE  LET d == Decode(t.token) IN d.task = t.task /\ d.run = t.run /\ d.step = t.step
    BY DEF NamesItsStep
  <2>1. IssuedAs(t) /\ now \in 1..MaxTime
    BY DEF TokenInv
  <2>2. Expired.error = "expired"
    BY DEF Expired, Invalid
  <2> DEFINE d == Decode(t.token)
  <2>3. d.error # "invalid" /\ d # Expired
    BY <2>2
  <2>4. d = [error |-> "none", task |-> t.task, run |-> t.run, step |-> t.step]
    <3> HIDE DEF d
    <3>1. t.token.secret = secret
      BY <2>1, <2>3, DecodesWhatWasIssued DEF d
    <3> QED
      BY <2>1, <2>3, <3>1, DecodesWhatWasIssued DEF d
  <2> QED
    BY <2>4
<1> QED
  BY <1>1, TokensAlways, PTL

\* WithStepTokenKey: a token is accepted by every engine with the secret it was
\* issued under, restarts or not, to the last millisecond of its TTL.
THEOREM TokensAreAccepted == Spec => []AcceptedInTime
<1>1. TokenInv => AcceptedInTime
  <2> SUFFICES ASSUME TokenInv, NEW t \in issued, t.token.secret = secret, InTime(t)
               PROVE  Decode(t.token).error = "none"
    BY DEF AcceptedInTime
  <2>1. IssuedAs(t) /\ now \in 1..MaxTime
    BY DEF TokenInv
  <2>2. ~IsPast(Expiry(t))
    BY <2>1, PastIsNotInTime
  <2>3. Decode(t.token) = [error |-> "none", task |-> t.task, run |-> t.run, step |-> t.step]
    BY <2>1, <2>2, DecodesWhatWasIssued
  <2> QED
    BY <2>3
<1> QED
  BY <1>1, TokensAlways, PTL

\* And by none other, nor later, whatever TTL the engine of now would give.
THEOREM TokensAreRefused == Spec => []RefusedOtherwise
<1>1. TokenInv => RefusedOtherwise
  <2> SUFFICES ASSUME TokenInv, NEW t \in issued, ~(t.token.secret = secret /\ InTime(t))
               PROVE  Decode(t.token).error # "none"
    BY DEF RefusedOtherwise
  <2>1. IssuedAs(t) /\ now \in 1..MaxTime
    BY DEF TokenInv
  <2>2. CASE t.token.secret # secret
    BY <2>1, <2>2, DecodesWhatWasIssued
  <2>3. CASE t.token.secret = secret /\ ~InTime(t)
    <3>1. IsPast(Expiry(t)) /\ secret # Unsigned
      BY <2>1, <2>3, PastIsNotInTime DEF InTime, Lives
    <3> QED
      BY <2>1, <2>3, <3>1, DecodesWhatWasIssued DEF Expired, Invalid
  <2> QED
    BY <2>2, <2>3
<1> QED
  BY <1>1, TokensAlways, PTL
=============================================================================
