------------------------------- MODULE Tokens -------------------------------
(***************************************************************************)
(* The life of an access token (src/src/auth/jwt.rs): issued with the time *)
(* to live and the private key the process read from its environment       *)
(* (src/src/config.rs), presented to the same process or, after a restart, *)
(* to one with another configuration.  Auth says who gets a token and what *)
(* it is good for; here only whether decode_jwt accepts it.                *)
(*                                                                         *)
(* Tokens carry whole seconds of the system clock, which an adjustment may *)
(* move, forwards and backwards, off the true time.                        *)
(***************************************************************************)
EXTENDS Integers, FiniteSets

CONSTANTS
  Unit,     \* steps of the clock to a second
  Minute,   \* seconds to a minute
  Leeway,   \* seconds decode allows beyond exp (jsonwebtoken: 60)
  Settings, \* what JWT_ACCESS_EXPIRATION_MINUTES may be set to
  Unset,    \* ... not at all, or not to a number
  Default,  \* minutes without it (15)
  MaxMinutes, \* beyond it, either way, chrono has no such date and panics
  Word,     \* of usize (2^64)
  Pairs,    \* key pairs
  Skew,     \* bound: how far the clock may be off, in steps
  Horizon,  \* bound: the end of the model's time
  MaxTokens \* bound: tokens handed out

ASSUME TokensAssumption ==
  /\ {Unit, Minute} \subseteq Nat \ {0}
  /\ {Leeway, Skew, Horizon, MaxTokens, MaxMinutes, Word} \subseteq Nat
  /\ Settings \ {Unset} \subseteq Int /\ Default \in Nat /\ Unset \notin Int
  /\ 2 * Skew + Horizon + MaxMinutes * Minute * Unit < Word

VARIABLES
  time,    \* true time, in steps
  offset,  \* how far the clock is off
  config,  \* the process's minutes to live, and its two keys
  tokens   \* the tokens it, and processes before it, handed out

vars == <<time, offset, config, tokens>>

\* The system clock starts at Skew, so that it never gets below zero.
Clock == Skew + time + offset
Now == Clock \div Unit

\* Variant: a variable that cannot be read is taken as it is.
MinutesAsSet(setting) == setting

\* parse_opt
Minutes(setting) == IF setting = Unset THEN Default ELSE setting

\* Config::from_env; the keys are two variables, and need not be a pair.
Configs == [minutes : { Minutes(s) : s \in Settings }, private : Pairs, public : Pairs]

\* Claims, the key that signed them, and when and for how long they were issued
\* (history: the code keeps neither).
Claims(exp, key, minutes) ==
  [exp |-> exp, key |-> key, issued |-> time, minutes |-> minutes]

Init ==
  /\ time = 0 /\ offset \in -Skew..Skew
  /\ config \in Configs
  /\ tokens = {}

Tick ==
  /\ time < Horizon
  /\ time' = time + 1
  /\ UNCHANGED <<offset, config, tokens>>

\* The clock is set.
Adjust ==
  /\ offset' \in -Skew..Skew
  /\ UNCHANGED <<time, config, tokens>>

\* A restart with another environment.
Restart ==
  /\ config' \in Configs
  /\ UNCHANGED <<time, offset, tokens>>

\* `as usize': a time before 1970 wraps to one far ahead.
AsUsize(seconds) == IF seconds < 0 THEN seconds + Word ELSE seconds

\* encode_jwt, at the end of a sign-in.  Where chrono panics there is no token.
Encode ==
  /\ Cardinality(tokens) < MaxTokens
  /\ config.minutes \in -MaxMinutes..MaxMinutes
  /\ tokens' = tokens \cup
       { Claims(AsUsize((Clock + config.minutes * Minute * Unit) \div Unit),
                config.private, config.minutes) }
  /\ UNCHANGED <<time, offset, config>>

Next == Tick \/ Adjust \/ Restart \/ Encode

Spec == Init /\ [][Next]_vars

\* Variant: without the leeway.
DecodesStrictly(t) == t.key = config.public /\ t.exp >= Now

\* Variant: exp is not looked at.
DecodesForever(t) == t.key = config.public

\* decode_jwt: Validation::new(RS256) checks the signature and exp.
Decodes(t) == t.key = config.public /\ t.exp >= Now - Leeway

-----------------------------------------------------------------------------
(* Properties.                                                             *)

TypeOK ==
  /\ time \in 0..Horizon /\ offset \in -Skew..Skew
  /\ config \in [minutes : Int, private : Pairs, public : Pairs]
  /\ \A t \in tokens : /\ t.exp \in 0..(Word - 1) /\ t.minutes \in Int
                       /\ t.issued \in 0..time /\ t.key \in Pairs

Age(t) == time - t.issued
Lifetime(t) == t.minutes * Minute * Unit

\* No token is accepted for longer than its minutes, the leeway and the second
\* it was cut to; a clock that is set back adds what it was off.  Minutes may be
\* zero or negative, unless they take exp before 1970: such a token would never
\* expire, as exp is cast to usize.
NeverTooLong ==
  \A t \in tokens : t.issued + Lifetime(t) >= 0 /\ Decodes(t) =>
    Age(t) < Lifetime(t) + (Leeway + 1) * Unit + 2 * Skew

\* A token is accepted as long as it was issued for, by any process with the
\* key that belongs to it, though the clock is set meanwhile, by up to the
\* leeway.
NeverTooShort ==
  2 * Skew <= Leeway * Unit =>
    \A t \in tokens : t.key = config.public /\ Age(t) <= Lifetime(t) => Decodes(t)
=============================================================================
