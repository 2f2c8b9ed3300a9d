----------------------------- MODULE CommandProofs -----------------------------
(***************************************************************************)
(* What Resolve admits, for any arguments; and the limits, the truncation  *)
(* and the wholeness of a command's result, for any constants.             *)
(***************************************************************************)
EXTENDS Command, WellFoundedInduction, TLAPS

--------------------------------------------------------------------------------
(* Resolve *)

(* A set of positive numbers that is not empty has a least element. *)
LEMMA LeastLemma ==
    ASSUME NEW S, S \subseteq Nat, S # {}
    PROVE  \E i \in S : \A j \in S : i <= j
<1>1. IsWellFoundedOn(OpToRel(<, Nat), Nat)
  BY NatLessThanWellFounded
<1>2. PICK i \in S : \A j \in S : ~(<<j, i>> \in OpToRel(<, Nat))
  BY <1>1, WFMin
<1>3. ASSUME NEW j \in S  PROVE i <= j
  <2>1. ~(j < i)
    BY <1>2 DEF OpToRel
  <2> QED
    BY <2>1
<1> QED
  BY <1>3

(* No check denies exactly when the first denial is "none". *)
LEMMA FirstLemma ==
    ASSUME NEW s, Len(s) \in Nat
    PROVE  First(s) = "none" <=> \A i \in 1..Len(s) : s[i] = "none"
<1> DEFINE denials == {i \in 1..Len(s) : s[i] # "none"}
           least   == CHOOSE i \in denials : \A j \in denials : i <= j
<1>1. CASE denials = {}
  BY <1>1 DEF First
<1>2. CASE denials # {}
  <2>1. \E i \in denials : \A j \in denials : i <= j
    <3>1. denials \subseteq Nat
      OBVIOUS
    <3> HIDE DEF denials
    <3> QED
      BY <1>2, <3>1, LeastLemma
  <2>2. least \in denials
    BY <2>1
  <2>3. First(s) = s[least]
    BY <1>2 DEF First
  <2> QED
    BY <2>2, <2>3
<1> QED
  BY <1>1, <1>2

(* The check that denies after none that does decides. *)
LEMMA FirstDenial ==
    ASSUME NEW s, Len(s) \in Nat, NEW k \in 1..Len(s), s[k] # "none",
           \A i \in 1..(k - 1) : s[i] = "none"
    PROVE  First(s) = s[k]
<1> DEFINE denials == {i \in 1..Len(s) : s[i] # "none"}
           least   == CHOOSE i \in denials : \A j \in denials : i <= j
<1>1. k \in denials
  OBVIOUS
<1>2. \A j \in denials : k <= j
  OBVIOUS
<1>3. least \in denials /\ least <= k
  BY <1>1, <1>2
<1>4. least = k
  BY <1>2, <1>3
<1>5. First(s) = s[least]
  BY <1>1 DEF First
<1> QED
  BY <1>4, <1>5

(* A value passes validate exactly when it is acceptable for its kind. *)
LEMMA ReasonLemma ==
    ASSUME NEW kind \in {"int", "off", "path"}, NEW value
    PROVE  Reason(kind, value) = "none" <=> value \in Accepted[kind]
<1>1. CASE kind = "int"
  BY <1>1 DEF Reason, IntReason, Accepted
<1>2. CASE kind = "off"
  BY <1>2 DEF Reason, OffReason, Accepted
<1>3. CASE kind = "path"
  BY <1>3 DEF Reason, PathReason, Accepted
<1> QED
  BY <1>1, <1>2, <1>3

(* The schema of every verb is a sequence of arguments of these kinds. *)
LEMMA SchemaLemma ==
    ASSUME NEW v
    PROVE  /\ Len(Schema(v)) \in Nat
           /\ \A i \in 1..Len(Schema(v)) : Schema(v)[i].kind \in {"int", "off", "path"}
<1>1. CASE v = "teamcity.build.get"
  BY <1>1 DEF Schema, Arg
<1>2. CASE v = "p4.describe"
  BY <1>2 DEF Schema, Arg
<1>3. CASE v = "p4.changes"
  BY <1>3 DEF Schema, Arg
<1>4. CASE v \notin {"teamcity.build.get", "p4.describe", "p4.changes"}
  BY <1>4 DEF Schema
<1> QED
  BY <1>1, <1>2, <1>3, <1>4

(* validateArgs accepts the arguments that satisfy the schema, and no others. *)
LEMMA ArgsLemma ==
    ASSUME NEW v, NEW a
    PROVE  ArgsReason(v, a) = "none" <=> Satisfies(v, a)
<1> DEFINE reasons == [i \in 1..Len(Schema(v)) |-> ArgReason(Schema(v)[i], a)]
<1>1. Len(Schema(v)) \in Nat
  BY SchemaLemma
<1>2. Len(reasons) = Len(Schema(v))
  BY <1>1
<1>3. First(reasons) = "none" <=> \A i \in 1..Len(Schema(v)) : reasons[i] = "none"
  <2> HIDE DEF reasons
  <2> QED
    BY <1>1, <1>2, FirstLemma
<1>4. ASSUME NEW i \in 1..Len(Schema(v))
      PROVE  reasons[i] = "none" <=> LET arg == Schema(v)[i]
                                     IN  IF arg.name \in DOMAIN a
                                         THEN a[arg.name] \in Accepted[arg.kind]
                                         ELSE ~arg.required
  <2> DEFINE arg == Schema(v)[i]
  <2>1. reasons[i] = ArgReason(arg, a)
    OBVIOUS
  <2>2. arg.kind \in {"int", "off", "path"}
    BY SchemaLemma
  <2>3. Reason(arg.kind, a[arg.name]) = "none" <=> a[arg.name] \in Accepted[arg.kind]
    BY <2>2, ReasonLemma
  <2> HIDE DEF arg
  <2>4. ArgReason(arg, a) = "none" <=> IF arg.name \in DOMAIN a
                                       THEN a[arg.name] \in Accepted[arg.kind]
                                       ELSE ~arg.required
    BY <2>3 DEF ArgReason
  <2> QED
    BY <2>1, <2>4 DEF arg
<1>5. (\A i \in 1..Len(Schema(v)) : reasons[i] = "none")
        <=> \A i \in 1..Len(Schema(v)) :
              LET arg == Schema(v)[i]
              IN  IF arg.name \in DOMAIN a
                  THEN a[arg.name] \in Accepted[arg.kind]
                  ELSE ~arg.required
  BY <1>4
<1> QED
  BY <1>3, <1>5 DEF ArgsReason, Satisfies

(* vocab.Resolve: a command is admitted exactly when it is valid, whatever the
   verb, the arguments and the configuration. *)
THEOREM ResolveCorrect ==
    ASSUME NEW v, NEW a, NEW t
    PROVE  Resolve(v, a, t) = "none" <=> /\ v \in Compiled \ Content
                                         /\ NeededTools(v) \subseteq t
                                         /\ Satisfies(v, a)
<1> DEFINE c1 == IF v \in Compiled \cup Reserved THEN "none" ELSE "unknown_verb"
           c2 == IF v \in Compiled THEN "none" ELSE "verb_not_compiled"
           c3 == IF v \in Content THEN "content_verb_disabled" ELSE "none"
           c4 == IF NeededTools(v) \subseteq t THEN "none" ELSE "tool_not_configured"
           c5 == ArgsReason(v, a)
           checks == <<c1, c2, c3, c4, c5>>
<1>1. Resolve(v, a, t) = First(checks)
  BY DEF Resolve
<1>2. /\ c1 = "none" <=> v \in Compiled \cup Reserved
      /\ c2 = "none" <=> v \in Compiled
      /\ c3 = "none" <=> v \notin Content
      /\ c4 = "none" <=> NeededTools(v) \subseteq t
      /\ c5 = "none" <=> Satisfies(v, a)
  BY ArgsLemma
<1> HIDE DEF c1, c2, c3, c4, c5
<1>3. Len(checks) = 5
  OBVIOUS
<1>4. (\A i \in 1..5 : checks[i] = "none")
        <=> c1 = "none" /\ c2 = "none" /\ c3 = "none" /\ c4 = "none" /\ c5 = "none"
  OBVIOUS
<1> HIDE DEF checks
<1>5. First(checks) = "none" <=> \A i \in 1..5 : checks[i] = "none"
  BY <1>3, FirstLemma
<1> QED
  BY <1>1, <1>2, <1>4, <1>5

(* The denial of a verb that is not compiled in is decided by its name. *)
LEMMA NotCompiledLemma ==
    ASSUME NEW v, v \notin Compiled, NEW a, NEW t
    PROVE  Resolve(v, a, t) = IF v \in Reserved THEN "verb_not_compiled" ELSE "unknown_verb"
<1> DEFINE checks == <<IF v \in Compiled \cup Reserved THEN "none" ELSE "unknown_verb",
                       IF v \in Compiled THEN "none" ELSE "verb_not_compiled",
                       IF v \in Content THEN "content_verb_disabled" ELSE "none",
                       IF NeededTools(v) \subseteq t THEN "none" ELSE "tool_not_configured",
                       ArgsReason(v, a)>>
<1>1. Len(checks) = 5 /\ Resolve(v, a, t) = First(checks)
  BY DEF Resolve
<1>2. CASE v \in Reserved
  <2>1. checks[1] = "none" /\ checks[2] = "verb_not_compiled"
    BY <1>2
  <2> HIDE DEF checks
  <2>2. First(checks) = checks[2]
    BY <1>1, <2>1, FirstDenial
  <2> QED
    BY <1>1, <1>2, <2>1, <2>2
<1>3. CASE v \notin Reserved
  <2>1. checks[1] = "unknown_verb"
    BY <1>3
  <2> HIDE DEF checks
  <2>2. First(checks) = checks[1]
    BY <1>1, <2>1, FirstDenial
  <2> QED
    BY <1>1, <1>3, <2>1, <2>2
<1> QED
  BY <1>2, <1>3

--------------------------------------------------------------------------------
(* The limits *)

(* A duration that is multiplied wraps around, but stays an integer. *)
LEMMA DeadlineLemma ==
    ASSUME NEW ms \in AskedDeadlines
    PROVE  /\ Deadline(ms) \in Int
           /\ 0 < Deadline(ms) /\ Deadline(ms) <= MaxDeadline
<1> DEFINE d == Wrap(ms * Millisecond)
<1>1. /\ ms \in Int /\ Millisecond \in Int /\ HalfRange \in Int
      /\ DefaultDeadline \in Nat \ {0} /\ MaxDeadline \in Nat
      /\ DefaultDeadline <= MaxDeadline
  BY CommandAssumption
<1>2. d \in Int
  <2> DEFINE x == ms * Millisecond
  <2>1. x \in Int
    BY <1>1
  <2> HIDE DEF x
  <2>2. (x + HalfRange) % (2 * HalfRange) \in Int
    BY <1>1, <2>1, CommandAssumption
  <2> QED
    BY <1>1, <2>2 DEF Wrap, x
<1>3. Deadline(ms) = IF d <= 0 THEN DefaultDeadline ELSE Lesser(d, MaxDeadline)
  BY DEF Deadline
<1> HIDE DEF d
<1> QED
  BY <1>1, <1>2, <1>3 DEF Lesser

(* max_bytes is positive and within the default of the verb. *)
LEMMA MaxBytesLemma ==
    ASSUME NEW v \in Compiled, NEW asked \in AskedBytes
    PROVE  /\ MaxBytes(v, asked) \in Nat
           /\ 0 < MaxBytes(v, asked) /\ MaxBytes(v, asked) <= DefaultMaxBytes[v]
<1>1. DefaultMaxBytes[v] \in Nat \ {0} /\ asked \in Int
  BY CommandAssumption
<1> QED
  BY <1>1 DEF MaxBytes, Lesser

(* An admitted verb is compiled in. *)
LEMMA AdmittedCompiled ==
    AdmitInv /\ Admitted => verb \in Compiled
BY ResolveCorrect DEF AdmitInv, Admitted

--------------------------------------------------------------------------------
(* Sums *)

(* A list has its partial sums, *)
LEMMA SumsExist ==
    ASSUME NEW s \in Seq(Nat), NEW n \in 0..Len(s)
    PROVE  \E f \in [0..n -> Nat] : f[0] = 0 /\ \A k \in 1..n : f[k] = f[k - 1] + s[k]
<1> DEFINE P(m) == \E f \in [0..m -> Nat] :
                     f[0] = 0 /\ \A k \in 1..m : f[k] = f[k - 1] + s[k]
           bad == {m \in 0..Len(s) : ~P(m)}
<1> SUFFICES ASSUME bad # {} PROVE FALSE
  OBVIOUS
<1>1. PICK m \in bad : \A j \in bad : m <= j
  <2>1. bad \subseteq Nat
    OBVIOUS
  <2> HIDE DEF bad
  <2> QED
    BY <2>1, LeastLemma
<1>2. CASE m = 0
  <2>1. \A k \in 1..0 : FALSE
    OBVIOUS
  <2>2. P(0)
    <3>1. [k \in 0..0 |-> 0] \in [0..0 -> Nat] /\ [k \in 0..0 |-> 0][0] = 0
      OBVIOUS
    <3> QED
      BY <2>1, <3>1
  <2> HIDE DEF P
  <2> QED
    BY <1>1, <1>2, <2>2
<1>3. CASE m # 0
  <2>1. m \in 1..Len(s) /\ m - 1 \in 0..Len(s) /\ ~P(m)
    <3> HIDE DEF P
    <3>1. m \in 0..Len(s) /\ ~P(m) /\ Len(s) \in Nat
      BY <1>1
    <3> QED
      BY <1>3, <3>1
  <2>2. P(m - 1)
    <3> HIDE DEF P
    <3> QED
      BY <1>1, <2>1
  <2>3. PICK f \in [0 .. m - 1 -> Nat] :
          f[0] = 0 /\ \A k \in 1 .. m - 1 : f[k] = f[k - 1] + s[k]
    BY <2>2
  <2> DEFINE g == [k \in 0..m |-> IF k = m THEN f[m - 1] + s[m] ELSE f[k]]
  <2>4. s[m] \in Nat /\ f[m - 1] \in Nat
    BY <2>1, <2>3
  <2>5. g \in [0..m -> Nat] /\ g[0] = 0
    BY <2>1, <2>3, <2>4
  <2>6. ASSUME NEW k \in 1..m PROVE g[k] = g[k - 1] + s[k]
    <3>1. k - 1 \in 0 .. m - 1 /\ g[k - 1] = f[k - 1]
      BY <2>1
    <3>2. CASE k = m
      BY <2>1, <3>1, <3>2
    <3>3. CASE k # m
      BY <2>1, <2>3, <3>1, <3>3
    <3> QED
      BY <3>2, <3>3
  <2> HIDE DEF g
  <2> QED
    BY <2>1, <2>5, <2>6
<1> QED
  BY <1>2, <1>3

(* and only these: two lists of partial sums go the same way. *)
LEMMA SameSums ==
    ASSUME NEW n \in Nat, NEW f, NEW g, f[0] = g[0],
           \A k \in 1..n : f[k - 1] = g[k - 1] => f[k] = g[k]
    PROVE  f[n] = g[n]
<1> DEFINE bad == {m \in 0..n : f[m] # g[m]}
<1> SUFFICES ASSUME bad # {} PROVE FALSE
  OBVIOUS
<1>1. PICK m \in bad : \A j \in bad : m <= j
  <2>1. bad \subseteq Nat
    OBVIOUS
  <2> HIDE DEF bad
  <2> QED
    BY <2>1, LeastLemma
<1>2. m \in 1..n /\ m - 1 \in 0..n /\ m - 1 \notin bad
  BY <1>1
<1>3. f[m - 1] = g[m - 1]
  BY <1>2
<1> QED
  BY <1>1, <1>2, <1>3

(* The sum of a list is the last of them. *)
LEMMA SumIsLast ==
    ASSUME NEW s \in Seq(Nat), NEW f \in [0..Len(s) -> Nat], f[0] = 0,
           \A k \in 1..Len(s) : f[k] = f[k - 1] + s[k]
    PROVE  SumOf(s) = f[Len(s)]
<1> DEFINE Step(h) == [k \in 0..Len(s) |-> IF k = 0 THEN 0 ELSE h[k - 1] + s[k]]
           sum == CHOOSE h : h = Step(h)
<1>1. SumOf(s) = sum[Len(s)]
  BY DEF SumOf
<1>2. f = Step(f)
  <2>1. \A k \in 0..Len(s) : f[k] = IF k = 0 THEN 0 ELSE f[k - 1] + s[k]
    OBVIOUS
  <2>2. f = [k \in 0..Len(s) |-> f[k]]
    OBVIOUS
  <2> QED
    BY <2>1, <2>2
<1>3. sum = Step(sum)
  <2> HIDE DEF Step
  <2> QED
    BY <1>2
<1> HIDE DEF sum
<1>4. sum[0] = 0 /\ \A k \in 1..Len(s) : sum[k] = sum[k - 1] + s[k]
  BY <1>3
<1> QED
  <2>1. Len(s) \in Nat /\ f[0] = sum[0]
        /\ \A k \in 1..Len(s) : f[k - 1] = sum[k - 1] => f[k] = sum[k]
    BY <1>4
  <2>2. f[Len(s)] = sum[Len(s)]
    BY <2>1, SameSums
  <2> QED
    BY <1>1, <2>2

(* The empty list costs nothing. *)
LEMMA SumEmpty == SumOf(<<>>) = 0
<1> DEFINE s == <<>>
<1>1. s \in Seq(Nat) /\ Len(s) = 0
  OBVIOUS
<1> HIDE DEF s
<1>2. PICK f \in [0..Len(s) -> Nat] : f[0] = 0 /\ \A k \in 1..Len(s) : f[k] = f[k - 1] + s[k]
  <2>1. Len(s) \in 0..Len(s)
    BY <1>1
  <2> QED
    BY <1>1, <2>1, SumsExist
<1>3. SumOf(s) = 0
  BY <1>1, <1>2, SumIsLast
<1> QED
  BY <1>3 DEF s

(* A file that is returned adds its cost. *)
LEMMA SumAppend ==
    ASSUME NEW s \in Seq(Nat), NEW x \in Nat
    PROVE  SumOf(s) \in Nat /\ SumOf(Append(s, x)) = SumOf(s) + x
<1> DEFINE n == Len(s)
           t == Append(s, x)
<1>1. /\ t \in Seq(Nat) /\ Len(t) = n + 1 /\ t[n + 1] = x /\ \A k \in 1..n : t[k] = s[k]
      /\ n \in Nat /\ n \in 0..n /\ n + 1 \in 0 .. n + 1
  OBVIOUS
<1> HIDE DEF t
<1>2. PICK f \in [0 .. n + 1 -> Nat] :
        f[0] = 0 /\ \A k \in 1 .. n + 1 : f[k] = f[k - 1] + t[k]
  <2> HIDE DEF n
  <2>1. n + 1 \in 0..Len(t)
    BY <1>1
  <2> QED
    BY <1>1, <2>1, SumsExist
<1>3. SumOf(t) = f[n + 1]
  BY <1>1, <1>2, SumIsLast
<1>4. PICK g \in [0..n -> Nat] : g[0] = 0 /\ \A k \in 1..n : g[k] = g[k - 1] + s[k]
  BY <1>1, SumsExist
<1>5. SumOf(s) = g[n] /\ g[n] \in Nat
  BY <1>1, <1>4, SumIsLast
<1> HIDE DEF n
<1>6. g[n] = f[n]
  <2>1. ASSUME NEW k \in 1..n, f[k - 1] = g[k - 1] PROVE f[k] = g[k]
    <3>1. k \in 1 .. n + 1
      BY <1>1
    <3> QED
      BY <1>1, <1>2, <1>4, <2>1, <3>1
  <2>2. n \in Nat /\ f[0] = g[0] /\ \A k \in 1..n : f[k - 1] = g[k - 1] => f[k] = g[k]
    BY <1>1, <1>2, <1>4, <2>1
  <2>3. f[n] = g[n]
    BY <2>2, SameSums
  <2> QED
    BY <2>3
<1>7. f[n + 1] = f[n] + x
  <2>1. n + 1 \in 1 .. n + 1 /\ (n + 1) - 1 = n
    BY <1>1
  <2> QED
    BY <1>1, <1>2, <2>1
<1> QED
  BY <1>3, <1>5, <1>6, <1>7 DEF t

--------------------------------------------------------------------------------
(* The inductive invariant *)

(* No file is returned yet. *)
LEMMA EmptyLemma == <<>> = [i \in 1..Len(<<>>) |-> i]
OBVIOUS

(* A command that has just been read is in the invariant. *)
LEMMA InitEstablishes == Init => CommandInv
<1> SUFFICES ASSUME Init PROVE CommandInv
  OBVIOUS
<1>1. TypeOK
  <2>1. MaxOutput \in Nat
    BY CommandAssumption
  <2>2. /\ stage \in Stages
        /\ deadline \in Int /\ maxBytes \in Nat
        /\ total \in 0..MaxOutput /\ written \in 0..total /\ held \in 0..total
        /\ decoded \in 0..total
    BY <2>1 DEF Init, Stages
  <2>3. /\ expired \in BOOLEAN /\ overflowed \in BOOLEAN
        /\ failed \in BOOLEAN /\ truncated \in BOOLEAN
    BY Zenon DEF Init
  <2>4. files \in Seq(Nat) /\ maxFiles \in Nat /\ next \in 1 .. Len(files) + 1
    BY DEF Init
  <2>5. /\ returned \in Seq(Nat) /\ budget \in 0..maxBytes
        /\ status \in {"none", "denied", "timeout", "error", "ok"}
    BY DEF Init
  <2> QED
    BY <2>2, <2>3, <2>4, <2>5 DEF TypeOK
<1>2. AdmitInv /\ BufferInv /\ ResultInv /\ LimitsKept
  BY CommandAssumption DEF Init, AdmitInv, BufferInv, ResultInv, LimitsKept, Admitted
<1>3. ShapeInv
  BY EmptyLemma DEF Init, ShapeInv
<1> QED
  BY <1>1, <1>2, <1>3 DEF CommandInv

(* A denial answers at once, and for the first reason. *)
LEMMA DenyPreserves == CommandInv /\ Deny => CommandInv'
BY CommandAssumption
   DEF CommandInv, TypeOK, AdmitInv, BufferInv, ShapeInv, ResultInv, LimitsKept, Admitted,
       Stages, cmdVars, outVars, shapeVars, resultVars, Perforce, TeamCity, Sys, Deny

(* An admitted command has limits within their caps. *)
LEMMA AdmitPreserves == CommandInv /\ Admit => CommandInv'
<1> SUFFICES ASSUME CommandInv, Admit PROVE CommandInv'
  OBVIOUS
<1>1. verb \in Compiled
  BY ResolveCorrect DEF Admit
<1>2. PICK ms \in AskedDeadlines : deadline' = Deadline(ms)
  BY DEF Admit
<1>3. PICK n \in AskedBytes : maxBytes' = MaxBytes(verb, n)
  BY DEF Admit
<1>4. deadline' \in Int /\ 0 < deadline' /\ deadline' <= MaxDeadline
  BY <1>2, DeadlineLemma
<1>5. maxBytes' \in Nat /\ 0 < maxBytes' /\ maxBytes' <= DefaultMaxBytes[verb]
  BY <1>1, <1>3, MaxBytesLemma
<1>6. TypeOK'
  BY <1>4, <1>5
  DEF Admit, CommandInv, TypeOK, ShapeInv, Stages, cmdVars, outVars, shapeVars, resultVars
<1>7. AdmitInv' /\ BufferInv' /\ ShapeInv' /\ ResultInv'
  BY DEF Admit, CommandInv, AdmitInv, BufferInv, ShapeInv, ResultInv, outVars, shapeVars, resultVars
<1>8. LimitsKept'
  BY <1>4, <1>5 DEF Admit, LimitsKept
<1> QED
  BY <1>6, <1>7, <1>8 DEF CommandInv

(* The connector's own verbs answer in full. *)
LEMMA AnswerPreserves == CommandInv /\ Answer => CommandInv'
BY CommandAssumption
   DEF CommandInv, TypeOK, AdmitInv, BufferInv, ShapeInv, ResultInv, LimitsKept, Admitted,
       Stages, cmdVars, outVars, shapeVars, resultVars, Perforce, TeamCity, Sys, Answer

(* A request to TeamCity that fails has no output. *)
LEMMA GetFailsPreserves == CommandInv /\ GetFails => CommandInv'
BY CommandAssumption
   DEF CommandInv, TypeOK, AdmitInv, BufferInv, ShapeInv, ResultInv, LimitsKept, Admitted,
       Stages, cmdVars, outVars, shapeVars, resultVars, Perforce, TeamCity, Sys, GetFails, Fail

(* A body is cut at max_bytes exactly when it is longer. *)
LEMMA GetReturnsPreserves == CommandInv /\ GetReturns => CommandInv'
<1> SUFFICES ASSUME CommandInv, GetReturns PROVE CommandInv'
  OBVIOUS
<1> USE DEF GetReturns, cmdVars, shapeVars, resultVars
<1>1. PICK n \in 0..MaxOutput : /\ total' = n /\ written' = n
                               /\ held' = Lesser(n, maxBytes)
                               /\ truncated' = (n > maxBytes)
  OBVIOUS
<1>2. n \in Nat /\ maxBytes \in Nat
  BY CommandAssumption DEF CommandInv, TypeOK
<1>3. held' \in 0..n /\ (truncated' <=> held' < n) /\ truncated' \in BOOLEAN
  <2>1. held' = Lesser(n, maxBytes) /\ truncated' = (n > maxBytes)
    BY <1>1
  <2>2. held' \in 0..n /\ (n > maxBytes <=> held' < n)
    BY <1>2, <2>1 DEF Lesser
  <2>3. truncated' \in BOOLEAN
    <3>1. (n > maxBytes) \in BOOLEAN
      BY <1>2
    <3> QED
      BY <2>1, <3>1, Zenon
  <2>4. truncated' <=> held' < n
    BY <2>1, <2>2, Zenon
  <2> QED
    BY <2>2, <2>3, <2>4
<1>4. /\ verb \in TeamCity /\ verb \notin Perforce
      /\ verb \notin Sys \cup {"p4.changes"}
  BY DEF TeamCity, Perforce, Sys
<1>5. TypeOK'
  <2>1. decoded' = 0
    BY CommandAssumption DEF CommandInv, BufferInv, TypeOK
  <2> QED
    BY <1>1, <1>2, <1>3, <2>1 DEF CommandInv, TypeOK, Stages
<1>6. AdmitInv' /\ BufferInv' /\ ResultInv' /\ LimitsKept'
  BY <1>4 DEF CommandInv, AdmitInv, BufferInv, ResultInv, LimitsKept, Admitted
<1>7. ShapeInv'
  BY <1>1, <1>2, <1>3, <1>4 DEF CommandInv, TypeOK, ShapeInv, ResultInv, Sys, TeamCity, Perforce
<1> QED
  BY <1>5, <1>6, <1>7 DEF CommandInv

(* A p4 child that is started has written nothing. *)
LEMMA StartP4Preserves == CommandInv /\ StartP4 => CommandInv'
BY CommandAssumption
   DEF CommandInv, TypeOK, AdmitInv, BufferInv, ShapeInv, ResultInv, LimitsKept, Admitted,
       Stages, cmdVars, outVars, shapeVars, resultVars, Perforce, TeamCity, Sys, StartP4

(* cappedBuffer.Write: the buffer has all of it, or is full. *)
LEMMA P4WritesPreserves == CommandInv /\ P4Writes => CommandInv'
<1> SUFFICES ASSUME CommandInv, P4Writes PROVE CommandInv'
  OBVIOUS
<1> USE DEF P4Writes, cmdVars, shapeVars, resultVars
<1>1. PICK n \in 1..(total - written) : written' = written + n /\ Buffer(n)
  OBVIOUS
<1>2. /\ verb \in Perforce /\ Ceiling \in Nat
      /\ total \in Nat /\ written \in 0..total /\ held \in 0..total /\ n \in Nat
      /\ overflowed \in BOOLEAN
      /\ held = IF overflowed THEN Ceiling ELSE written
  BY CommandAssumption DEF CommandInv, TypeOK, ShapeInv, BufferInv
<1>3. written' \in 0..total
  BY <1>1, <1>2
<1>4. /\ held' = IF overflowed' THEN Ceiling ELSE written'
      /\ held' <= Ceiling /\ held' \in 0..total /\ overflowed' \in BOOLEAN
  <2>1. /\ overflowed' = (overflowed \/ n > Ceiling - held)
        /\ held' = IF overflowed THEN held ELSE Lesser(held + n, Ceiling)
    BY <1>1 DEF Buffer
  <2>2. overflowed' \in BOOLEAN
    BY <2>1, Zenon
  <2>3. CASE overflowed
    <3>1. overflowed'
      BY <2>1, <2>3, Zenon
    <3> QED
      BY <1>2, <2>1, <2>2, <2>3, <3>1
  <2>4. CASE ~overflowed /\ n > Ceiling - held
    <3>1. overflowed'
      BY <2>1, <2>4, Zenon
    <3>2. held' = Ceiling /\ held' \in 0..total
      BY <1>2, <2>1, <2>4 DEF Lesser
    <3> QED
      BY <1>2, <2>2, <3>1, <3>2
  <2>5. CASE ~overflowed /\ ~(n > Ceiling - held)
    <3>1. ~overflowed'
      BY <2>1, <2>5, Zenon
    <3>2. held' = written' /\ held' <= Ceiling
      BY <1>1, <1>2, <2>1, <2>5 DEF Lesser
    <3> QED
      BY <1>3, <2>2, <3>1, <3>2
  <2> QED
    BY <2>3, <2>4, <2>5
<1>5. TypeOK'
  BY <1>3, <1>4 DEF CommandInv, TypeOK
<1>6. AdmitInv' /\ ResultInv' /\ LimitsKept'
  BY DEF CommandInv, AdmitInv, ResultInv, LimitsKept, Admitted
<1>7. BufferInv'
  BY <1>4 DEF BufferInv
<1>8. ShapeInv'
  BY DEF CommandInv, ShapeInv
<1> QED
  BY <1>5, <1>6, <1>7, <1>8 DEF CommandInv

(* A p4 child that fails leaves no result. *)
LEMMA P4FailsPreserves == CommandInv /\ P4Fails => CommandInv'
BY CommandAssumption
   DEF CommandInv, TypeOK, AdmitInv, BufferInv, ShapeInv, ResultInv, LimitsKept, Admitted,
       Stages, cmdVars, outVars, shapeVars, resultVars, Perforce, TeamCity, Sys, P4Fails, Fail

(* Neither does one whose output is too long or has no record. *)
LEMMA P4UselessPreserves == CommandInv /\ P4Useless => CommandInv'
BY CommandAssumption
   DEF CommandInv, TypeOK, AdmitInv, BufferInv, ShapeInv, ResultInv, LimitsKept, Admitted,
       Stages, cmdVars, outVars, shapeVars, resultVars, Perforce, TeamCity, Sys, P4Useless, Whole, Fail

(* The records of p4.changes are made from the whole output. *)
LEMMA ListChangesPreserves == CommandInv /\ ListChanges => CommandInv'
BY CommandAssumption
   DEF CommandInv, TypeOK, AdmitInv, BufferInv, ShapeInv, ResultInv, LimitsKept, Admitted,
       Stages, cmdVars, outVars, shapeVars, resultVars, Perforce, TeamCity, Sys, ListChanges, Decode, Whole

(* Shaping starts with the whole output and no file returned. *)
LEMMA StartShapePreserves == CommandInv /\ StartShape => CommandInv'
BY CommandAssumption, EmptyLemma
   DEF CommandInv, TypeOK, AdmitInv, BufferInv, ShapeInv, ResultInv, LimitsKept, Admitted,
       Stages, cmdVars, outVars, shapeVars, resultVars, Perforce, TeamCity, Sys, StartShape, Whole

(* A file is returned, or truncation is noted, and the file counted. *)
LEMMA ShapeFilePreserves == CommandInv /\ ShapeFile => CommandInv'
<1> SUFFICES ASSUME CommandInv, ShapeFile PROVE CommandInv'
  OBVIOUS
<1> USE DEF ShapeFile, cmdVars, outVars, resultVars
<1>1. /\ next \in 1..Len(files) /\ files \in Seq(Nat) /\ files[next] \in Nat
      /\ Len(files) \in Nat /\ next' = next + 1 /\ next' \in 1 .. Len(files) + 1
      /\ returned \in Seq(Nat) /\ Len(returned) \in Nat /\ maxFiles \in Nat
      /\ maxBytes \in Nat /\ budget \in 0..maxBytes /\ truncated \in BOOLEAN
      /\ verb = "p4.describe" /\ verb \in Perforce
  BY DEF CommandInv, TypeOK, ShapeInv, Perforce
<1>2. CASE Fits
  <2>1. /\ ~truncated /\ ~truncated' /\ Len(returned) = next - 1
        /\ Len(returned) < maxFiles /\ files[next] <= budget
        /\ returned' = Append(returned, next) /\ budget' = budget - files[next]
    BY <1>2 DEF Fits, CommandInv, ShapeInv
  <2>2. /\ returned' \in Seq(Nat) /\ Len(returned') = next
        /\ Len(returned') <= maxFiles
    BY <1>1, <2>1
  <2>3. returned' = [i \in 1..Len(returned') |-> i]
    <3>1. \A i \in 1..Len(returned) : returned[i] = i
      BY DEF CommandInv, ShapeInv
    <3>2. \A i \in 1..Len(returned') : returned'[i] = i
      BY <1>1, <2>1, <3>1
    <3>3. returned' = [i \in 1..Len(returned') |-> returned'[i]]
      BY <2>2
    <3> QED
      BY <3>2, <3>3
  <2>4. budget' \in 0..maxBytes
    BY <1>1, <2>1
  <2> QED
    BY <1>1, <2>1, <2>2, <2>3, <2>4
    DEF CommandInv, TypeOK, AdmitInv, BufferInv, ShapeInv, ResultInv, LimitsKept, Admitted, Sys,
        TeamCity
<1>3. CASE ~Fits
  <2>1. truncated' = TRUE /\ returned' = returned /\ budget' = budget
    BY <1>3
  <2>2. Len(returned') < next' - 1
    <3>1. truncated => Len(returned) < next - 1
      BY <1>1 DEF CommandInv, ShapeInv
    <3>2. ~truncated => Len(returned) = next - 1
      BY <1>1 DEF CommandInv, ShapeInv
    <3> QED
      BY <1>1, <2>1, <3>1, <3>2
  <2> QED
    BY <1>1, <2>1, <2>2
    DEF CommandInv, TypeOK, AdmitInv, BufferInv, ShapeInv, ResultInv, LimitsKept, Admitted, Sys,
        TeamCity
<1> QED
  BY <1>2, <1>3

(* All files have been counted when shaping ends. *)
LEMMA ShapedPreserves == CommandInv /\ Shaped => CommandInv'
<1> SUFFICES ASSUME CommandInv, Shaped PROVE CommandInv'
  OBVIOUS
<1> USE DEF CommandInv, cmdVars, outVars, shapeVars, resultVars, Shaped
<1>1. TypeOK'
  BY DEF TypeOK, Stages
<1>2. AdmitInv' /\ BufferInv' /\ ResultInv' /\ LimitsKept'
  BY DEF AdmitInv, BufferInv, ResultInv, LimitsKept, Admitted
<1>3. ShapeInv'
  BY DEF TypeOK, ShapeInv, Perforce, TeamCity, Sys
<1> QED
  BY <1>1, <1>2, <1>3

(* The status is chosen from what has happened. *)
LEMMA FinishPreserves == CommandInv /\ Finish => CommandInv'
BY CommandAssumption
   DEF CommandInv, TypeOK, AdmitInv, BufferInv, ShapeInv, ResultInv, LimitsKept, Admitted,
       Stages, cmdVars, outVars, shapeVars, resultVars, Perforce, TeamCity, Sys, Finish

(* The deadline may pass at any stage. *)
LEMMA ExpirePreserves == CommandInv /\ Expire => CommandInv'
BY CommandAssumption
   DEF CommandInv, TypeOK, AdmitInv, BufferInv, ShapeInv, ResultInv, LimitsKept, Admitted,
       Stages, cmdVars, outVars, shapeVars, resultVars, Perforce, TeamCity, Sys, Expire

(* A command that stands still. *)
LEMMA StutterPreserves == CommandInv /\ UNCHANGED vars => CommandInv'
BY DEF CommandInv, TypeOK, AdmitInv, BufferInv, ShapeInv, ResultInv, LimitsKept, Admitted,
       Stages, cmdVars, outVars, shapeVars, resultVars, Perforce, TeamCity, Sys, vars


(* describeFromRecord: what is charged for a file is taken from the budget. *)
LEMMA ShapeFileSpends ==
    ASSUME CommandInv, SpendInv, ShapeFile
    PROVE  SpendInv'
<1>1. /\ files \in Seq(Nat) /\ next \in 1..Len(files) /\ files[next] \in Nat
      /\ returned \in Seq(Nat) /\ Len(returned) \in Nat /\ budget \in Nat /\ maxBytes \in Nat
      /\ files' = files /\ maxBytes' = maxBytes
      /\ Len(returned) <= next - 1 /\ \A i \in 1..Len(returned) : returned[i] = i
  BY DEF CommandInv, TypeOK, ShapeInv, ShapeFile, cmdVars, Perforce
<1>2. Costs \in Seq(Nat) /\ Len(Costs) = Len(returned)
  <2>1. \A i \in 1..Len(returned) : files[returned[i]] \in Nat
    BY <1>1
  <2> QED
    BY <1>1, <2>1 DEF Costs
<1>3. CASE Fits
  <2>1. returned' = Append(returned, next) /\ budget' = budget - files[next]
    BY <1>3 DEF ShapeFile
  <2>2. Costs' = Append(Costs, files[next])
    <3>1. /\ Len(returned') = Len(returned) + 1 /\ returned'[Len(returned) + 1] = next
          /\ \A i \in 1..Len(returned) : returned'[i] = returned[i]
      BY <1>1, <2>1
    <3>2. Costs' = [i \in 1 .. Len(returned) + 1 |-> files[returned'[i]]]
      BY <1>1, <3>1 DEF Costs
    <3>3. Append(Costs, files[next]) =
            [i \in 1 .. Len(returned) + 1 |->
               IF i = Len(returned) + 1 THEN files[next] ELSE Costs[i]]
      BY <1>1, <1>2
    <3>4. \A i \in 1..Len(returned) : Costs[i] = files[returned[i]]
      BY DEF Costs
    <3> QED
      BY <1>1, <3>1, <3>2, <3>3, <3>4
  <2>3. SumOf(Costs) \in Nat /\ SumOf(Costs') = SumOf(Costs) + files[next]
    BY <1>1, <1>2, <2>2, SumAppend
  <2> QED
    BY <1>1, <2>1, <2>3 DEF SpendInv
<1>4. CASE ~Fits
  BY <1>1, <1>4 DEF ShapeFile, SpendInv, Costs
<1> QED
  BY <1>3, <1>4

(* Nothing has been spent before a file is returned. *)
LEMMA NothingSpent == returned = <<>> => SumOf(Costs) = 0
<1>1. returned = <<>> => Costs = <<>>
  BY DEF Costs
<1> QED
  BY <1>1, SumEmpty

(* At first nothing is spent and nothing is left. *)
LEMMA InitSpend == Init => SpendInv
  BY NothingSpent DEF Init, SpendInv

(* No step spends more than is left. *)
LEMMA SpendStep == CommandInv /\ SpendInv /\ [Next]_vars => SpendInv'
<1> SUFFICES ASSUME CommandInv, SpendInv, [Next]_vars PROVE SpendInv'
  OBVIOUS
<1>1. CASE Admit \/ StartShape
  <2>1. /\ stage \in {"resolve", "p4"} /\ returned \in Seq(Nat)
        /\ Len(returned) = 0 /\ budget = 0
    BY <1>1 DEF Admit, StartShape, CommandInv, TypeOK, ShapeInv
  <2>2. returned' = <<>>
    BY <1>1, <2>1 DEF Admit, StartShape, shapeVars
  <2>3. SumOf(Costs') = 0
    <3>1. Costs' = <<>>
      BY <2>2 DEF Costs
    <3> QED
      BY <3>1, SumEmpty
  <2>4. maxBytes' \in Nat /\ budget' \in 0..maxBytes'
    BY <1>1, AdmitPreserves, StartShapePreserves DEF CommandInv, TypeOK
  <2>5. 0 \in 0 .. maxBytes' - budget'
    <3>1. \A m \in Nat : \A b \in 0..m : 0 \in 0 .. m - b
      OBVIOUS
    <3> QED
      BY <2>4, <3>1
  <2> QED
    BY <2>3, <2>5 DEF SpendInv
<1>2. CASE ShapeFile
  BY <1>2, ShapeFileSpends
<1>3. CASE \/ Deny \/ Answer \/ GetFails \/ GetReturns \/ StartP4 \/ P4Writes \/ P4Fails
           \/ P4Useless \/ ListChanges \/ Shaped \/ Expire \/ Finish \/ UNCHANGED vars
  <2>1. UNCHANGED <<files, returned, budget, maxBytes>>
    BY <1>3 DEF Deny, Answer, GetFails, GetReturns, StartP4, P4Writes, P4Fails, P4Useless,
         ListChanges, Shaped, Expire, Finish, Fail, vars, shapeVars, cmdVars
  <2>2. Costs' = Costs
    BY <2>1 DEF Costs
  <2> QED
    BY <2>1, <2>2 DEF SpendInv
<1> QED
  BY <1>1, <1>2, <1>3 DEF Next, Execute, Answered

(* handle and the tools: the inductive invariant, with the limits among its
   parts, holds of every command. *)
THEOREM Inductive == Spec => []IInv
<1>1. Init => IInv
  BY InitEstablishes, InitSpend DEF IInv
<1>2. CommandInv /\ [Next]_vars => CommandInv'
  BY DenyPreserves, AdmitPreserves, AnswerPreserves, GetFailsPreserves,
     GetReturnsPreserves, StartP4Preserves, P4WritesPreserves, P4FailsPreserves,
     P4UselessPreserves, ListChangesPreserves, StartShapePreserves, ShapeFilePreserves,
     ShapedPreserves, ExpirePreserves, FinishPreserves, StutterPreserves
     DEF Next, Execute, Answered
<1>3. IInv /\ [Next]_vars => IInv'
  BY <1>2, SpendStep DEF IInv
<1> QED
  BY <1>1, <1>3, PTL DEF Spec

(* Resolve and handle: a command is denied unless it is valid, and admitted
   when it is, for any verb, arguments and configuration. *)
THEOREM AdmissionCorrect == Spec => []AdmittedIsValid
<1>1. IInv => AdmittedIsValid
  BY ResolveCorrect DEF IInv, CommandInv, AdmitInv, AdmittedIsValid, Permitted
<1> QED
  BY <1>1, Inductive, PTL

(* handle: no deadline_ms or max_bytes escapes the caps, whatever integer the
   frame carries. *)
THEOREM LimitsAlwaysKept == Spec => []LimitsKept
<1>1. IInv => LimitsKept
  BY DEF IInv, CommandInv
<1> QED
  BY <1>1, Inductive, PTL

(* describeFromRecord: the files returned are within both of their bounds, for
   any changelist, max_bytes and max_files. *)
THEOREM BudgetIsKept == Spec => []BudgetKept
<1>1. IInv => BudgetKept
  <2> SUFFICES ASSUME IInv PROVE BudgetKept
    OBVIOUS
  <2>1. maxBytes \in Nat /\ budget \in 0..maxBytes /\ Len(returned) <= maxFiles
    BY DEF IInv, CommandInv, TypeOK, ShapeInv
  <2>2. SumOf(Costs) <= maxBytes
    BY <2>1 DEF IInv, SpendInv
  <2> QED
    BY <2>1, <2>2 DEF BudgetKept
<1> QED
  BY <1>1, Inductive, PTL

(* run: an "ok" result was made from all of p4's output, at any ceiling. *)
THEOREM OutputIsWhole == Spec => []WholeOutputOnly
<1>1. IInv => WholeOutputOnly
  <2> SUFFICES ASSUME IInv, status = "ok", verb \in Perforce
               PROVE  held = total /\ total <= Ceiling
    BY DEF WholeOutputOnly
  <2>1. stage = "answered" /\ ~failed
    BY DEF IInv, CommandInv, ResultInv
  <2> QED
    BY <2>1 DEF IInv, CommandInv, BufferInv
<1> QED
  BY <1>1, Inductive, PTL

(* describeFromRecord, get: a result, but for that of p4.changes, is truncated
   exactly when it says so. *)
THEOREM TruncationIsReported == Spec => []TruncationReported
<1>1. IInv => TruncationReported
  <2> SUFFICES ASSUME IInv, status = "ok" PROVE TruncationReported
    BY DEF TruncationReported
  <2>1. stage = "answered" /\ ~failed /\ next = Len(files) + 1
    BY DEF IInv, CommandInv, ResultInv, ShapeInv
  <2>2. /\ Len(files) \in Nat /\ Len(returned) \in Nat
        /\ returned = [i \in 1..Len(returned) |-> i]
    BY DEF IInv, CommandInv, TypeOK, ShapeInv
  <2>3. verb \in Compiled
    BY <2>1, AdmittedCompiled DEF IInv, CommandInv, Admitted
  <2>4. CASE verb = "p4.describe"
    <3>1. truncated <=> Len(returned) < Len(files)
      BY <2>1, <2>2, <2>4 DEF IInv, CommandInv, ShapeInv, Perforce
    <3>2. verb \notin Silent /\ (Incomplete <=> Len(returned) < Len(files))
      BY <2>4 DEF Silent, Incomplete, TeamCity
    <3> QED
      BY <2>1, <2>2, <3>1, <3>2 DEF TruncationReported
  <2>5. CASE verb \in TeamCity
    <3>1. verb # "p4.describe" /\ (truncated <=> held < total)
      BY <2>1, <2>5 DEF IInv, CommandInv, ShapeInv, TeamCity
    <3>2. verb \notin Silent /\ (Incomplete <=> held < total)
      BY <2>5 DEF Silent, Incomplete, TeamCity
    <3> QED
      BY <2>1, <2>2, <3>1, <3>2 DEF TruncationReported
  <2>6. CASE verb \in Sys \cup {"p4.changes"}
    <3>1. verb # "p4.describe" /\ verb \notin TeamCity /\ ~truncated
      BY <2>6 DEF IInv, CommandInv, ShapeInv, TeamCity, Sys
    <3>2. ~(Incomplete /\ verb \notin Silent)
      BY <2>6, <3>1 DEF Incomplete, Silent, Sys
    <3> QED
      BY <2>1, <2>2, <3>1, <3>2 DEF TruncationReported
  <2> QED
    BY <2>3, <2>4, <2>5, <2>6 DEF Compiled, Perforce
<1> QED
  BY <1>1, Inductive, PTL

(* Resolve: the answer to a verb that is not compiled in depends neither on the
   configuration nor on the arguments. *)
THEOREM NothingRevealed == Spec => []UnknownRevealsNothing
<1>1. UnknownRevealsNothing
  <2> SUFFICES ASSUME verb \notin Compiled, NEW t \in SUBSET Tools
               PROVE  Resolve(verb, args, t) = Resolve(verb, NotAnObject, {})
    BY DEF UnknownRevealsNothing
  <2> QED
    BY NotCompiledLemma
<1> QED
  BY <1>1, PTL

--------------------------------------------------------------------------------
(* Refinement *)

(* handle is what Session takes it for: whatever its limits, output and tools,
   a command is refused or runs as it is permitted, and has one result. *)
THEOREM RefinesHandling == Spec => ImplementsHandling
<1>1. Init => H!Init
  <2> SUFFICES ASSUME Init PROVE H!Init
    OBVIOUS
  <2>1. Permitted \in BOOLEAN
    BY DEF Permitted
  <2>2. HandlingPhase = "waiting" /\ status = "none"
    BY DEF Init, HandlingPhase
  <2> QED
    BY <2>1, <2>2 DEF H!Init, It
<1>2. CommandInv /\ [Next]_vars => [H!Next]_(H!vars)
  <2> SUFFICES ASSUME CommandInv, [Next]_vars PROVE [H!Next]_(H!vars)
    OBVIOUS
  <2>1. UNCHANGED <<verb, args, tools>>
    BY DEF Next, Execute, Deny, Admit, Answer, GetFails, GetReturns, StartP4, P4Writes,
           P4Fails, P4Useless, ListChanges, StartShape, ShapeFile, Shaped, Finish,
           Expire, Answered, Fail, vars, cmdVars
  <2>2. It(Permitted)' = It(Permitted)
    BY <2>1 DEF Permitted, It
  <2>3. It("none")' = It("none")
    BY DEF It
  <2>4. ASSUME HandlingPhase' = HandlingPhase, status' = status
        PROVE  UNCHANGED H!vars
    BY <2>2, <2>3, <2>4 DEF H!vars, It
  <2>5. CASE Deny
    <3>1. HandlingPhase = "waiting" /\ HandlingPhase' = "settled" /\ status' = "denied"
      BY <2>5 DEF Deny, HandlingPhase
    <3>2. ~Permitted
      BY <2>5, ResolveCorrect DEF Deny, Permitted
    <3>3. H!Refuse("it")
      BY <2>2, <2>3, <3>1, <3>2 DEF H!Refuse, It
    <3> QED
      BY <3>3 DEF H!Next
  <2>6. CASE Admit
    <3>1. HandlingPhase = "waiting" /\ HandlingPhase' = "running" /\ status' = status
      BY <2>6 DEF Admit, HandlingPhase, resultVars
    <3>2. Permitted
      BY <2>6, ResolveCorrect DEF Admit, Permitted
    <3>3. H!Run("it")
      BY <2>2, <2>3, <3>1, <3>2 DEF H!Run, It
    <3> QED
      BY <3>3 DEF H!Next
  <2>7. CASE Execute \/ Expire
    <3>1. status' = status
      BY <2>7 DEF Execute, Answer, GetFails, GetReturns, StartP4, P4Writes, P4Fails,
                  P4Useless, ListChanges, StartShape, ShapeFile, Shaped, Expire, Fail,
                  resultVars
    <3>2. HandlingPhase = "running" /\ HandlingPhase' = "running"
      BY <2>7 DEF Execute, Answer, GetFails, GetReturns, StartP4, P4Writes, P4Fails,
                  P4Useless, ListChanges, StartShape, ShapeFile, Shaped, Expire, Fail,
                  HandlingPhase
    <3> QED
      BY <2>4, <3>1, <3>2
  <2>8. CASE Finish
    <3>1. HandlingPhase = "running" /\ HandlingPhase' = "settled"
      BY <2>8 DEF Finish, HandlingPhase
    <3>2. status' \in H!ToolResults
      BY <2>8 DEF Finish, H!ToolResults
    <3>3. H!Return("it")
      BY <2>2, <2>3, <3>1, <3>2 DEF H!Return, It
    <3> QED
      BY <3>3 DEF H!Next
  <2>9. CASE UNCHANGED vars
    BY <2>4, <2>9 DEF vars, resultVars, HandlingPhase
  <2> QED
    BY <2>5, <2>6, <2>7, <2>8, <2>9 DEF Next, Answered
<1> QED
  BY <1>1, <1>2, Inductive, PTL DEF Spec, ImplementsHandling, H!Spec, IInv
================================================================================
