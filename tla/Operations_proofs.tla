------------------------- MODULE Operations_proofs -------------------------
(***************************************************************************)
(* Theorems about the builders and the streams they work over, for any     *)
(* number of calls, signatures, keys and streams.  What the proofs say of  *)
(* a method is the shape of the steps it has still to make: for lookups    *)
(* (NamesInv), for the password (LockInv), for the run (ExecInv) and for   *)
(* the signatures (SigsInv).                                               *)
(***************************************************************************)
EXTENDS Operations, SequenceTheorems, FiniteSetTheorems, TLAPS

-----------------------------------------------------------------------------
(* The steps of a method, and what is left of them.                        *)

Told == {"", "option", "signature", "signature.hash", "signature.times", "recipient",
         "protection", "protection.cipher", "protection.hash", "password", "key",
         "report"}

StepType == [act: {"lookup", "native", "run"}, on: Told, name: Option \cup {"default"}]

\* Lookups only, no lookups, lookups first.
Asks(s)    == \A i \in 1..Len(s) : s[i].act = "lookup"
Tells(s)   == \A i \in 1..Len(s) : s[i].act # "lookup"
Ordered(s) == \A i, j \in 1..Len(s) :
                (i < j /\ s[i].act # "lookup") => s[j].act # "lookup"

\* Only SignOperation.hash() passes on a name as it came.
Canon(k, n, e) ==
  (e.act # "lookup" /\ e.name \notin {"", "canonical"}) => k = "sign" /\ n = "hash"

\* Neither work of rnp nor a password.
Plain(k, n, s) ==
  \A i \in 1..Len(s) :
    s[i].act # "run" /\ s[i].on # "password" /\ Canon(k, n, s[i])

\* What the steps s that method n of a builder of kind k has still to make
\* look like.
Shape(k, n, s) ==
  /\ \A i \in 1..Len(s) :
       /\ s[i].act = "run" => n = "execute"
       /\ s[i].on = "password" => n = "protection" /\ i = Len(s)
       /\ Canon(k, n, s[i])
  /\ (n = "protection" /\ s # <<>>) =>
       s[Len(s)].on = "password" /\ s[Len(s)].act = "native"
  /\ n # "protection" => Ordered(s)

LEMMA Rest ==
  ASSUME NEW k, NEW n, NEW s \in Seq(StepType), s # <<>>, Shape(k, n, s)
  PROVE  Tail(s) \in Seq(StepType) /\ Shape(k, n, Tail(s))
<1> DEFINE r == Tail(s)
<1>1. /\ r \in Seq(StepType) /\ Len(r) = Len(s) - 1 /\ Len(s) \in Nat \ {0}
      /\ \A i \in 1..Len(r) : r[i] = s[i + 1]
  OBVIOUS
<1> HIDE DEF r
<1>2. \A i \in 1..Len(r) : i + 1 \in 1..Len(s) /\ (i + 1 = Len(s) => i = Len(r))
  BY <1>1
<1>3. r # <<>> => Len(r) \in 1..Len(r) /\ r[Len(r)] = s[Len(s)]
  BY <1>1
<1>4. Ordered(s) => Ordered(r)
  <2>1. \A i, j \in 1..Len(r) : i < j => i + 1 < j + 1
    BY <1>1
  <2> QED BY <1>1, <1>2, <2>1 DEF Ordered
<1>5. \A i \in 1..Len(r) :
        /\ r[i].act = "run" => n = "execute"
        /\ r[i].on = "password" => n = "protection" /\ i = Len(r)
        /\ Canon(k, n, r[i])
  BY <1>1, <1>2 DEF Shape
<1>6. (n = "protection" /\ r # <<>>) =>
        r[Len(r)].on = "password" /\ r[Len(r)].act = "native"
  BY <1>3 DEF Shape
<1>7. Shape(k, n, r)
  BY <1>4, <1>5, <1>6 DEF Shape
<1> QED BY <1>1, <1>7 DEF r

LEMMA Joined ==
  ASSUME NEW s \in Seq(StepType), NEW t \in Seq(StepType)
  PROVE  /\ s \o t \in Seq(StepType) /\ Len(s \o t) = Len(s) + Len(t)
         /\ \A i \in 1..Len(s) : (s \o t)[i] = s[i]
         /\ \A i \in 1..Len(t) : (s \o t)[Len(s) + i] = t[i]
         /\ \A i \in 1..Len(s \o t) :
              \/ i \in 1..Len(s) /\ (s \o t)[i] = s[i]
              \/ i > Len(s) /\ i - Len(s) \in 1..Len(t) /\ (s \o t)[i] = t[i - Len(s)]
OBVIOUS

LEMMA JoinedPlain ==
  ASSUME NEW k, NEW n, NEW s \in Seq(StepType), NEW t \in Seq(StepType),
         Plain(k, n, s), Plain(k, n, t)
  PROVE  s \o t \in Seq(StepType) /\ Plain(k, n, s \o t)
BY Joined DEF Plain

\* Lookups may be put before, other steps behind.
LEMMA JoinedOrdered ==
  ASSUME NEW s \in Seq(StepType), NEW t \in Seq(StepType),
         \/ Asks(s) /\ Ordered(t)
         \/ Ordered(s) /\ Tells(t)
  PROVE  Ordered(s \o t)
<1> SUFFICES ASSUME NEW i \in 1..Len(s \o t), NEW j \in 1..Len(s \o t), i < j,
                    (s \o t)[i].act # "lookup"
             PROVE  (s \o t)[j].act # "lookup"
  BY DEF Ordered
<1>1. CASE j \in 1..Len(s)
  <2>1. i \in 1..Len(s) /\ (s \o t)[i] = s[i] /\ (s \o t)[j] = s[j]
    BY <1>1, Joined
  <2> QED BY <1>1, <2>1 DEF Asks, Ordered
<1>2. CASE j > Len(s)
  <2>1. j - Len(s) \in 1..Len(t) /\ (s \o t)[j] = t[j - Len(s)]
    BY <1>2, Joined
  <2>2. CASE i \in 1..Len(s)
    <3>1. (s \o t)[i] = s[i]
      BY <2>2, Joined
    <3> QED BY <2>1, <2>2, <3>1 DEF Asks, Tells
  <2>3. CASE i > Len(s)
    <3>1. /\ i - Len(s) \in 1..Len(t) /\ (s \o t)[i] = t[i - Len(s)]
          /\ i - Len(s) < j - Len(s)
      BY <2>3, Joined
    <3> QED BY <2>1, <3>1 DEF Tells, Ordered
  <2> QED BY <2>2, <2>3
<1> QED BY <1>1, <1>2, Joined

LEMMA JoinedTells ==
  ASSUME NEW s \in Seq(StepType), NEW t \in Seq(StepType), Tells(s), Tells(t)
  PROVE  Tells(s \o t)
BY Joined DEF Tells

LEMMA PlainShape ==
  ASSUME NEW k, NEW n, NEW s, Plain(k, n, s), Ordered(s), n # "protection"
  PROVE  Shape(k, n, s)
BY DEF Plain, Shape

\* The pieces of the methods.
LEMMA Piece ==
  ASSUME NEW k, NEW n, NEW e \in StepType, e.act # "run", e.on # "password",
         Canon(k, n, e)
  PROVE  /\ <<e>> \in Seq(StepType) /\ <<>> \in Seq(StepType)
         /\ Plain(k, n, <<e>>) /\ Plain(k, n, <<>>)
         /\ Ordered(<<e>>) /\ Ordered(<<>>)
         /\ e.act = "lookup" => Asks(<<e>>)
         /\ e.act # "lookup" => Tells(<<e>>)
         /\ Asks(<<>>) /\ Tells(<<>>)
BY DEF Plain, Ordered, Asks, Tells

LEMMA Two ==
  ASSUME NEW e \in StepType, NEW f \in StepType
  PROVE  /\ <<e, f>> \in Seq(StepType) /\ Len(<<e, f>>) = 2
         /\ <<e, f>>[1] = e /\ <<e, f>>[2] = f
OBVIOUS

LEMMA Pair ==
  ASSUME NEW k, NEW n, NEW e \in StepType, NEW f \in StepType,
         e.act = "lookup", e.on # "password", f.act = "native", f.on # "password",
         Canon(k, n, f)
  PROVE  /\ <<e, f>> \in Seq(StepType)
         /\ Plain(k, n, <<e, f>>) /\ Ordered(<<e, f>>)
<1>1. /\ <<e, f>> \in Seq(StepType) /\ Len(<<e, f>>) = 2
      /\ <<e, f>>[1] = e /\ <<e, f>>[2] = f
  OBVIOUS
<1>2. \A i \in 1..Len(<<e, f>>) : <<e, f>>[i] = e \/ (i = 2 /\ <<e, f>>[i] = f)
  OBVIOUS
<1>3. Canon(k, n, e)
  BY DEF Canon
<1> QED BY <1>1, <1>2, <1>3 DEF Plain, Ordered

LEMMA LookupPiece ==
  ASSUME NEW k, NEW n, NEW x \in Option
  PROVE  LET s == If(x, <<Lookup(x)>>) IN
         s \in Seq(StepType) /\ Plain(k, n, s) /\ Ordered(s) /\ Asks(s)
<1>1. /\ Lookup(x) \in StepType /\ Lookup(x).act = "lookup"
      /\ Lookup(x).on # "password" /\ Canon(k, n, Lookup(x))
  BY DEF Lookup, StepType, Told, Option, Spelling, Canon
<1> QED BY <1>1, Piece DEF If

LEMMA NativePiece ==
  ASSUME NEW k, NEW n, NEW f \in Told \ {"password"}, NEW x, NEW y \in {"", "canonical"}
  PROVE  LET e == [act |-> "native", on |-> f, name |-> y]
             s == If(x, <<e>>)
         IN /\ s \in Seq(StepType) /\ Plain(k, n, s) /\ Ordered(s) /\ Tells(s)
            /\ <<e>> \in Seq(StepType) /\ Plain(k, n, <<e>>)
            /\ Ordered(<<e>>) /\ Tells(<<e>>)
<1> DEFINE e == [act |-> "native", on |-> f, name |-> y]
<1>1. /\ e \in StepType /\ e.act = "native" /\ e.on # "password" /\ Canon(k, n, e)
  BY DEF StepType, Told, Option, Spelling, Canon
<1> HIDE DEF e
<1>2. LET s == If(x, <<e>>)
      IN /\ s \in Seq(StepType) /\ Plain(k, n, s) /\ Ordered(s) /\ Tells(s)
         /\ <<e>> \in Seq(StepType) /\ Plain(k, n, <<e>>)
         /\ Ordered(<<e>>) /\ Tells(<<e>>)
  BY <1>1, Piece DEF If
<1> QED BY <1>2 DEF e

LEMMA CanonicalPiece ==
  ASSUME NEW k, NEW n, NEW f \in Told \ {"password"}, NEW x \in Option
  PROVE  LET s == Canonical(f, x)
             i == If(x, Canonical(f, x))
         IN /\ s \in Seq(StepType) /\ Plain(k, n, s) /\ Ordered(s)
            /\ i \in Seq(StepType) /\ Plain(k, n, i)
<1>1. /\ Canonical(f, x) \in Seq(StepType)
      /\ Plain(k, n, Canonical(f, x)) /\ Ordered(Canonical(f, x))
  <2> DEFINE e == Lookup(x)
             g == Named(f, "canonical")
  <2>1. /\ e \in StepType /\ e.act = "lookup" /\ e.on # "password"
        /\ g \in StepType /\ g.act = "native" /\ g.on # "password" /\ Canon(k, n, g)
    BY DEF Lookup, Named, StepType, Told, Option, Spelling, Canon
  <2>2. Canonical(f, x) = <<e, g>>
    BY DEF Canonical
  <2> HIDE DEF e, g
  <2> QED BY <2>1, <2>2, Pair
<1>2. <<>> \in Seq(StepType) /\ Plain(k, n, <<>>)
  BY DEF Plain
<1> QED BY <1>1, <1>2 DEF If

LEMMA AddSignatureShape ==
  ASSUME NEW h \in Option, NEW t
  PROVE  LET m == AddSignature(h, t) IN
         /\ m = Method("addSignature", h, m.steps) /\ m.steps \in Seq(StepType)
         /\ Shape("sign", "addSignature", m.steps)
<1> DEFINE P(s) == s \in Seq(StepType) /\ Plain("sign", "addSignature", s) /\ Ordered(s)
           a == If(h, <<Lookup(h)>>)
           b == <<Native("signature")>>
           c == If(h, <<Named("signature.hash", "canonical")>>)
           d == If(t, <<Native("signature.times")>>)
<1>1. P(a) /\ Asks(a)
  BY LookupPiece
<1>2. P(b) /\ Tells(b) /\ P(c) /\ Tells(c) /\ P(d) /\ Tells(d)
  <2>1. {"signature", "signature.hash", "signature.times"} \subseteq Told \ {"password"}
    BY DEF Told
  <2> QED BY <2>1, NativePiece DEF Native, Named
<1>3. AddSignature(h, t) = Method("addSignature", h, ((a \o b) \o c) \o d)
  BY DEF AddSignature
<1> HIDE DEF a, b, c, d
<1>4. P(a \o b)
  BY <1>1, <1>2, JoinedPlain, JoinedOrdered
<1>5. P((a \o b) \o c)
  BY <1>2, <1>4, JoinedPlain, JoinedOrdered
<1>6. P(((a \o b) \o c) \o d)
  BY <1>2, <1>5, JoinedPlain, JoinedOrdered
<1>7. \A z : Method("addSignature", h, z).steps = z
  BY DEF Method
<1> HIDE DEF P
<1> QED BY <1>3, <1>6, <1>7, PlainShape DEF P

LEMMA AddPasswordShape ==
  ASSUME NEW c \in Option, NEW h \in Option
  PROVE  LET m == AddPassword(c, h) IN
         /\ m = Method("addPassword", "", m.steps) /\ m.steps \in Seq(StepType)
         /\ Shape("encrypt", "addPassword", m.steps)
<1> DEFINE P(s) == s \in Seq(StepType) /\ Plain("encrypt", "addPassword", s) /\ Ordered(s)
           a == If(c, <<Lookup(c)>>)
           b == If(h, <<Lookup(h)>>)
           d == <<Native("recipient")>>
<1>1. P(a) /\ Asks(a) /\ P(b)
  BY LookupPiece
<1>2. P(d) /\ Tells(d)
  <2>1. "recipient" \in Told \ {"password"}
    BY DEF Told
  <2> QED BY <2>1, NativePiece DEF Native
<1>3. AddPassword(c, h) = Method("addPassword", "", (a \o b) \o d)
  BY DEF AddPassword
<1> HIDE DEF a, b, d
<1>4. P(a \o b)
  BY <1>1, JoinedPlain, JoinedOrdered
<1>5. P((a \o b) \o d)
  BY <1>2, <1>4, JoinedPlain, JoinedOrdered
<1>6. \A z : Method("addPassword", "", z).steps = z
  BY DEF Method
<1> HIDE DEF P
<1> QED BY <1>3, <1>5, <1>6, PlainShape DEF P

\* The password comes last, behind steps that are plain.
LEMMA PasswordLast ==
  ASSUME NEW s \in Seq(StepType), Plain("generate", "protection", s),
         NEW d \in Seq(StepType), d # <<>>,
         \A i \in 1..Len(d) : /\ d[i].act # "run" /\ Canon("generate", "protection", d[i])
                              /\ d[i].on = "password" <=> i = Len(d),
         d[Len(d)].act = "native"
  PROVE  LET t == s \o d IN
         t \in Seq(StepType) /\ Shape("generate", "protection", t) /\ t # <<>>
<1> DEFINE t == s \o d
<1>1. /\ t \in Seq(StepType) /\ Len(t) = Len(s) + Len(d) /\ Len(s) \in Nat
      /\ Len(d) \in Nat \ {0}
      /\ \A i \in 1..Len(d) : t[Len(s) + i] = d[i]
      /\ \A i \in 1..Len(t) :
           \/ i \in 1..Len(s) /\ t[i] = s[i]
           \/ i - Len(s) \in 1..Len(d) /\ t[i] = d[i - Len(s)]
  <2>1. Len(d) \in Nat \ {0} /\ Len(s) \in Nat
    OBVIOUS
  <2>2. /\ t \in Seq(StepType) /\ Len(t) = Len(s) + Len(d)
        /\ \A i \in 1..Len(d) : t[Len(s) + i] = d[i]
    BY Joined
  <2>3. \A i \in 1..Len(t) :
          \/ i \in 1..Len(s) /\ t[i] = s[i]
          \/ i - Len(s) \in 1..Len(d) /\ t[i] = d[i - Len(s)]
    BY Joined
  <2> HIDE DEF t
  <2> QED BY <2>1, <2>2, <2>3
<1> HIDE DEF t
<1>2. \A i \in 1..Len(t) :
        \/ i \in 1..Len(s) /\ i # Len(t) /\ t[i] = s[i]
        \/ /\ t[i].act # "run" /\ Canon("generate", "protection", t[i])
           /\ t[i].on = "password" <=> i = Len(t)
  <2> SUFFICES ASSUME NEW i \in 1..Len(t)
               PROVE  \/ i \in 1..Len(s) /\ i # Len(t) /\ t[i] = s[i]
                      \/ /\ t[i].act # "run" /\ Canon("generate", "protection", t[i])
                         /\ t[i].on = "password" <=> i = Len(t)
    OBVIOUS
  <2>1. CASE i \in 1..Len(s) /\ t[i] = s[i]
    BY <1>1, <2>1
  <2>2. CASE i - Len(s) \in 1..Len(d) /\ t[i] = d[i - Len(s)]
    <3>1. i - Len(s) = Len(d) <=> i = Len(t)
      BY <1>1
    <3> QED BY <2>2, <3>1
  <2> QED BY <1>1, <2>1, <2>2
<1>3. /\ t # <<>> /\ Len(t) \in 1..Len(t)
      /\ t[Len(t)].on = "password" /\ t[Len(t)].act = "native"
  <2>1. t # <<>> /\ Len(t) \in 1..Len(t) /\ t[Len(t)].on = "password"
    BY <1>1, <1>2
  <2>2. Len(d) \in 1..Len(d) /\ t[Len(s) + Len(d)] = d[Len(d)]
    BY <1>1
  <2> QED BY <1>1, <2>1, <2>2
<1>4. \A i \in 1..Len(t) :
        /\ t[i].act # "run" /\ Canon("generate", "protection", t[i])
        /\ t[i].on = "password" => i = Len(t)
  BY <1>2 DEF Plain
<1>5. Shape("generate", "protection", t)
  BY <1>3, <1>4 DEF Shape
<1> QED BY <1>1, <1>3, <1>5 DEF t

\* The password is the last thing protection() tells rnp.
LEMMA ProtectionShape ==
  ASSUME NEW c \in Option, NEW h \in Option
  PROVE  LET m == Protection(c, h) IN
         /\ m = Method("protection", "", m.steps) /\ m.steps \in Seq(StepType)
         /\ Shape("generate", "protection", m.steps) /\ m.steps # <<>>
<1> DEFINE P(s) == s \in Seq(StepType) /\ Plain("generate", "protection", s)
           a == If(c, Canonical("protection.cipher", c))
           b == If(h, Canonical("protection.hash", h))
<1>1. P(a) /\ P(b)
  <2>1. {"protection.cipher", "protection.hash"} \subseteq Told \ {"password"}
    BY DEF Told
  <2> QED BY <2>1, CanonicalPiece
<1> DEFINE e == Native("protection")
           f == Native("password")
<1>2. /\ e \in StepType /\ e.act # "run" /\ e.on # "password"
      /\ Canon("generate", "protection", e)
      /\ f \in StepType /\ f.act = "native" /\ f.on = "password"
      /\ Canon("generate", "protection", f)
  BY DEF Native, StepType, Told, Option, Canon
<1>3. Protection(c, h) = Method("protection", "", (a \o b) \o <<e, f>>)
  BY DEF Protection
<1> HIDE DEF a, b, e, f
<1>4. P(a \o b)
  BY <1>1, JoinedPlain
<1> DEFINE d == <<e, f>>
<1>5. /\ d \in Seq(StepType) /\ d # <<>>
      /\ \A i \in 1..Len(d) : /\ d[i].act # "run" /\ Canon("generate", "protection", d[i])
                              /\ d[i].on = "password" <=> i = Len(d)
      /\ d[Len(d)].act = "native"
  BY <1>2, Two
<1> HIDE DEF d
<1>6. LET t == (a \o b) \o d IN
      t \in Seq(StepType) /\ Shape("generate", "protection", t) /\ t # <<>>
  BY <1>2, <1>4, <1>5, PasswordLast
<1>7. \A z : Method("protection", "", z).steps = z
  BY DEF Method
<1> QED BY <1>3, <1>6, <1>7 DEF d

LEMMA MethodShape ==
  ASSUME NEW k \in Kind, NEW m \in Methods[k] \cup {Execute(k)}
  PROVE  /\ m.steps \in Seq(StepType) /\ Shape(k, m.name, m.steps)
         /\ m.name # "none"
         /\ m.name = "execute" => m = Execute(k)
         /\ m.name = "protection" => m.steps # <<>>
<1>1. CASE m = Execute(k)
  <2> DEFINE r == Run
             e == Native("key")
  <2>1. /\ r \in StepType /\ r.act = "run" /\ r.on # "password" /\ Canon(k, "execute", r)
        /\ e \in StepType /\ e.act = "native" /\ e.on # "password" /\ Canon(k, "execute", e)
    BY DEF Run, Native, StepType, Told, Option, Canon
  <2>2. m.name = "execute" /\ m.steps \in {<<r>>, <<r, e>>}
    BY <1>1 DEF Execute, Method
  <2> HIDE DEF r, e
  <2>3. <<r>> \in Seq(StepType) /\ Shape(k, "execute", <<r>>)
    BY <2>1 DEF Shape, Ordered
  <2>4. \A i \in 1..Len(<<r, e>>) : <<r, e>>[i] = r \/ <<r, e>>[i] = e
    OBVIOUS
  <2>5. <<r, e>> \in Seq(StepType) /\ Shape(k, "execute", <<r, e>>)
    BY <2>1, <2>4, Two DEF Shape, Ordered
  <2> QED BY <1>1, <2>2, <2>3, <2>5
<1>2. ASSUME NEW n, NEW h, NEW s, m = Method(n, h, s), s \in Seq(StepType), Shape(k, n, s),
             n \notin {"none", "execute"}, n = "protection" => s # <<>>
      PROVE  /\ m.steps \in Seq(StepType) /\ Shape(k, m.name, m.steps)
             /\ m.name # "none" /\ m.name # "execute"
             /\ m.name = "protection" => m.steps # <<>>
  BY <1>2 DEF Method
<1>3. "option" \in Told \ {"password"} /\ "recipient" \in Told \ {"password"}
      /\ Spelling \subseteq Option
  BY DEF Told, Option
<1>4. CASE m = Setter
  <2> DEFINE s == <<Native("option")>>
  <2>1. m = Method("set", "", s)
    BY <1>4 DEF Setter
  <2>2. s \in Seq(StepType) /\ Shape(k, "set", s)
    BY <1>3, NativePiece, PlainShape DEF Native
  <2> HIDE DEF s
  <2> QED BY <1>2, <2>1, <2>2
<1>5. ASSUME k = "sign", NEW h \in Option, NEW t, m = AddSignature(h, t)
      PROVE  /\ m.steps \in Seq(StepType) /\ Shape(k, m.name, m.steps)
             /\ m.name # "none" /\ m.name # "execute" /\ m.name # "protection"
  BY <1>2, <1>5, AddSignatureShape DEF Method
<1>6. ASSUME k = "sign", NEW n \in Spelling, m = SignNamed(n)
      PROVE  /\ m.steps \in Seq(StepType) /\ Shape(k, m.name, m.steps)
             /\ m.name # "none" /\ m.name # "execute" /\ m.name # "protection"
  <2> DEFINE e == Lookup(n)
             g == Named("option", n)
  <2>1. /\ e \in StepType /\ e.act = "lookup" /\ e.on # "password"
        /\ g \in StepType /\ g.act = "native" /\ g.on # "password" /\ Canon(k, "hash", g)
    BY <1>6 DEF Lookup, Named, StepType, Told, Option, Spelling, Canon
  <2>2. m = Method("hash", "", <<e, g>>)
    BY <1>6 DEF SignNamed
  <2> HIDE DEF e, g
  <2>3. m.name = "hash" /\ m.steps = <<e, g>>
    BY <2>2 DEF Method
  <2> QED BY <2>1, <2>3, Pair, PlainShape
<1>7. CASE m = AddRecipient
  <2> DEFINE s == <<Native("recipient")>>
  <2>1. m = Method("addRecipient", "", s)
    BY <1>7 DEF AddRecipient
  <2>2. s \in Seq(StepType) /\ Shape(k, "addRecipient", s)
    BY <1>3, NativePiece, PlainShape DEF Native
  <2> HIDE DEF s
  <2> QED BY <1>2, <2>1, <2>2
<1>8. ASSUME k = "encrypt", NEW c \in Option, NEW h \in Option, m = AddPassword(c, h)
      PROVE  /\ m.steps \in Seq(StepType) /\ Shape(k, m.name, m.steps)
             /\ m.name # "none" /\ m.name # "execute" /\ m.name # "protection"
  <2>1. m = Method("addPassword", "", m.steps)
    BY <1>8, AddPasswordShape
  <2>2. \A z : Method("addPassword", "", z).name = "addPassword"
    BY DEF Method
  <2>3. m.name = "addPassword"
    BY <2>1, <2>2
  <2> QED BY <1>8, <2>3, AddPasswordShape
<1>9. ASSUME NEW n \in Spelling, m = EncryptNamed(n) \/ m = GenerateNamed(n)
      PROVE  /\ m.steps \in Seq(StepType) /\ Shape(k, m.name, m.steps)
             /\ m.name # "none" /\ m.name # "execute" /\ m.name # "protection"
  <2> DEFINE s == Canonical("option", n)
  <2>1. s \in Seq(StepType) /\ Shape(k, "hash", s)
    BY <1>3, CanonicalPiece, PlainShape
  <2>2. m = Method("hash", "", s)
    BY <1>9 DEF EncryptNamed, GenerateNamed
  <2> HIDE DEF s
  <2>3. m.name = "hash" /\ m.steps = s
    BY <2>2 DEF Method
  <2> QED BY <2>1, <2>3
<1>10. ASSUME k = "generate", NEW c \in Option, NEW h \in Option, m = Protection(c, h)
       PROVE  /\ m.steps \in Seq(StepType) /\ Shape(k, m.name, m.steps)
              /\ m.name # "none" /\ m.name # "execute"
              /\ m.name = "protection" => m.steps # <<>>
  <2>1. m = Method("protection", "", m.steps)
    BY <1>10, ProtectionShape
  <2>2. \A z : Method("protection", "", z).name = "protection"
    BY DEF Method
  <2>3. m.name = "protection"
    BY <2>1, <2>2
  <2> QED BY <1>10, <2>3, ProtectionShape
<1>11. /\ k \in {"sign", "encrypt", "verify", "generate"}
       /\ k = "sign" => Methods[k] = SignMethods
       /\ k = "encrypt" => Methods[k] = EncryptMethods
       /\ k = "verify" => Methods[k] = {}
       /\ k = "generate" => Methods[k] = GenerateMethods
  BY DEF Kind, Methods
<1>12. CASE k = "sign" /\ m \in SignMethods
  <2>1. \/ m = Setter
        \/ \E h \in Option, t \in Given : m = AddSignature(h, t)
        \/ \E n \in Spelling : m = SignNamed(n)
    BY <1>12 DEF SignMethods
  <2> QED BY <1>4, <1>5, <1>6, <1>12, <2>1
<1>13. CASE k = "encrypt" /\ m \in EncryptMethods
  <2>1. \/ m = Setter \/ m = AddRecipient
        \/ \E c \in Option, h \in Option : m = AddPassword(c, h)
        \/ \E n \in Spelling : m = EncryptNamed(n)
    BY <1>13 DEF EncryptMethods
  <2> QED BY <1>4, <1>7, <1>8, <1>9, <1>13, <2>1
<1>14. CASE k = "generate" /\ m \in GenerateMethods
  <2>1. \/ m = Setter
        \/ \E c \in Option, h \in Option : m = Protection(c, h)
        \/ \E n \in Spelling : m = GenerateNamed(n)
    BY <1>14 DEF GenerateMethods
  <2> QED BY <1>4, <1>9, <1>10, <1>14, <2>1
<1> QED BY <1>1, <1>11, <1>12, <1>13, <1>14

-----------------------------------------------------------------------------
(* Streams.                                                                *)

StreamsInv ==
  /\ StreamsTypeOK
  /\ \A s \in Side : stream[s] <= made
  /\ stream["in"] # 0 => stream["in"] # stream["out"]
  /\ ContextsExact

LEMMA NoStreamType == NoStream \in [Side -> 0..MaxStreams]
BY StreamsAssumption DEF NoStream

\* The conduct of the callbacks is one of three, and stays failed.
LEMMA Worsens ==
  ASSUME conduct \in Conduct, NEW a
  PROVE  /\ Worse(conduct, a) \in Conduct
         /\ Worse(conduct, a) = "failed" => conduct = "failed" \/ a \in Failing
BY DEF Worse, Conduct

LEMMA StreamsStart == Init => StreamsInv
<1>1. Init => StreamsInit
  BY DEF Init
<1>2. StreamsInit => StreamsInv
  <2> SUFFICES ASSUME StreamsInit
               PROVE  StreamsInv
    OBVIOUS
  <2>1. /\ \A s \in Side : stream[s] = 0
        /\ \A c \in 1..MaxStreams : heap[c] = 0
        /\ made = 0 /\ "in" \in Side
    BY DEF StreamsInit, NoStream, Side
  <2>2. ContextsExact
    BY <2>1, StreamsAssumption DEF ContextsExact
  <2>3. StreamsTypeOK
    <3>1. /\ stream \in [Side -> 0..MaxStreams] /\ made \in 0..MaxStreams
          /\ over \in [Side -> 0..MaxStreams]
      BY NoStreamType, StreamsAssumption DEF StreamsInit
    <3>2. heap \in [1..MaxStreams -> Int]
      BY DEF StreamsInit
    <3>3. flow \in [Side -> {"open", "end", "abort"}] /\ conduct \in Conduct
      BY DEF StreamsInit, Conduct
    <3> QED BY <3>1, <3>2, <3>3 DEF StreamsTypeOK
  <2> QED BY <2>1, <2>2, <2>3 DEF StreamsInv
<1> QED BY <1>1, <1>2

\* Only UseStreams touches contexts, and the three things it does.
LEMMA StreamsStep == StreamsInv /\ [Next]_vars => StreamsInv'
<1> SUFFICES ASSUME StreamsInv, [Next]_vars
             PROVE  StreamsInv'
  OBVIOUS
<1> USE StreamsAssumption
<1>1. CASE /\ UNCHANGED <<stream, heap, made>> /\ over' \in [Side -> 0..MaxStreams]
           /\ flow' \in [Side -> {"open", "end", "abort"}] /\ conduct' \in Conduct
  BY <1>1 DEF StreamsInv, StreamsTypeOK, ContextsExact
<1>2. ASSUME NEW s \in Side, CreateStream(s)
      PROVE  StreamsInv'
  <2>1. ContextsExact'
    BY <1>2 DEF StreamsInv, StreamsTypeOK, ContextsExact, CreateStream, Side
  <2>2. StreamsTypeOK'
    BY <1>2 DEF StreamsInv, StreamsTypeOK, CreateStream, Conduct
  <2> QED BY <1>2, <2>1, <2>2 DEF StreamsInv, StreamsTypeOK, CreateStream, Side
<1>3. ASSUME NEW s \in Side, CreateFails(s)
      PROVE  StreamsInv'
  BY <1>3 DEF StreamsInv, StreamsTypeOK, ContextsExact, CreateFails, Side
<1>4. ASSUME NEW s \in Side, DestroyStream(s)
      PROVE  StreamsInv'
  BY <1>4 DEF StreamsInv, StreamsTypeOK, ContextsExact, DestroyStream, Side
<1>5. CASE UseStreams
  BY <1>2, <1>3, <1>4, <1>5 DEF UseStreams
<1>6. \A o \in [Side -> 0..MaxStreams] : Attach(o) => StreamsInv'
  BY <1>1 DEF Attach, Conduct
<1>7. UNCHANGED svars => StreamsInv'
  BY <1>1 DEF svars, StreamsInv, StreamsTypeOK
<1>8. CASE Stream
  <2>1. \A a \in ReaderAnswer : Read(a) => StreamsInv'
    BY <1>1, Worsens DEF StreamsInv, StreamsTypeOK, Read, ReaderOutcome, Side
  <2>2. \A a \in WriterAnswer : Write(a) => StreamsInv'
    BY <1>1 DEF StreamsInv, StreamsTypeOK, Write, WriterOutcome, Side, Conduct
  <2> QED BY <1>8, <2>1, <2>2 DEF Stream
<1>9. ASSUME NEW m, Call(m)
      PROVE  StreamsInv'
  <2>1. Attach(over) \/ UNCHANGED svars
    BY <1>9 DEF Call, Restart
  <2> QED BY <1>6, <1>7, <2>1 DEF StreamsInv, StreamsTypeOK
<1>10. CASE Destroy \/ \E k \in Kind : Create(k)
  <2>1. Attach(NoStream) \/ Attach(stream)
    BY <1>10 DEF Destroy, Create
  <2> QED BY <1>6, <2>1, NoStreamType DEF StreamsInv, StreamsTypeOK
<1>11. CASE LookUp \/ TellRnp \/ GetKey \/ Report \/ Throw \/ Return
  BY <1>7, <1>11 DEF LookUp, TellRnp, GetKey, Report, Throw, Return
<1>12. CASE \E v \in Statuses : RunEnds(v)
  BY <1>7, <1>12 DEF RunEnds
<1>13. CASE UNCHANGED vars
  BY <1>7, <1>13 DEF vars
<1> QED BY <1>5, <1>8, <1>9, <1>10, <1>11, <1>12, <1>13 DEF Next

(***************************************************************************)
(* For any number of streams in a row: every callback context lives from   *)
(* create() to the close of its stream and is deleted once.                *)
(***************************************************************************)
THEOREM StreamContexts == Spec => []ContextsExact
<1>1. StreamsInv => ContextsExact
  BY DEF StreamsInv
<1> QED BY <1>1, StreamsStart, StreamsStep, PTL DEF Spec

-----------------------------------------------------------------------------
(* Methods.                                                                *)

FlowInv ==
  /\ kind \in Kind \cup {"none"}
  /\ todo \in Seq(StepType)
  /\ Shape(kind, call.name, todo)
  /\ call = NoCall => todo = <<>>
  /\ kind = "none" => call = NoCall

LEMMA Nothing ==
  /\ NoCall.name = "none"
  /\ <<>> \in Seq(StepType)
  /\ \A k, n : Shape(k, n, <<>>)
<1>1. NoCall.name = "none"
  BY DEF NoCall, Method
<1>2. \A k, n : Shape(k, n, <<>>)
  BY DEF Shape, Ordered
<1> QED BY <1>1, <1>2

LEMMA RunActs == Run.act = "run"
BY DEF Run

LEMMA NotNone == "none" \notin Kind
BY DEF Kind, Methods

\* Behind a step that is no lookup there are none, except in protection().
LEMMA NoLookups ==
  ASSUME NEW k, NEW n, NEW s \in Seq(StepType), s # <<>>, Shape(k, n, s),
         n # "protection", Head(s).act # "lookup"
  PROVE  Tells(Tail(s))
<1>1. /\ Head(s) = s[1] /\ 1 \in 1..Len(s)
      /\ \A i \in 1..Len(Tail(s)) : Tail(s)[i] = s[i + 1] /\ i + 1 \in 1..Len(s) /\ 1 < i + 1
  OBVIOUS
<1> QED BY <1>1 DEF Shape, Ordered, Tells

Reports(n) == [i \in 1..n |-> Native("report")]

LEMMA ReportsShape ==
  ASSUME NEW k, NEW n \in Nat, NEW m
  PROVE  /\ Reports(n) \in Seq(StepType) /\ Len(Reports(n)) = n
         /\ Plain(k, m, Reports(n)) /\ Ordered(Reports(n)) /\ Tells(Reports(n))
<1> DEFINE e == Native("report")
<1>1. e \in StepType /\ e.act = "native" /\ e.on # "password" /\ Canon(k, m, e)
  BY DEF Native, StepType, Told, Option, Canon
<1>2. Reports(n) = [i \in 1..n |-> e]
  BY DEF Reports
<1> HIDE DEF e
<1> QED BY <1>1, <1>2 DEF Plain, Ordered, Tells

\* What execute() has to do when rnp is done.
LEMMA RunShape ==
  ASSUME NEW k, NEW s \in Seq(StepType), s # <<>>, Shape(k, "execute", s),
         Head(s) = Run, NEW n \in Nat
  PROVE  LET t == Reports(n) \o Tail(s) IN
         t \in Seq(StepType) /\ Shape(k, "execute", t)
<1> DEFINE r == Tail(s)
           t == Reports(n) \o r
<1>1. r \in Seq(StepType) /\ Shape(k, "execute", r)
  BY Rest
<1>2. Tells(r)
  BY NoLookups, RunActs
<1>3. /\ Reports(n) \in Seq(StepType)
      /\ Plain(k, "execute", Reports(n)) /\ Ordered(Reports(n))
  BY ReportsShape
<1> HIDE DEF r
<1>4. /\ t \in Seq(StepType)
      /\ \A i \in 1..Len(t) :
           \/ i \in 1..Len(Reports(n)) /\ t[i] = Reports(n)[i]
           \/ i - Len(Reports(n)) \in 1..Len(r) /\ t[i] = r[i - Len(Reports(n))]
  BY <1>1, <1>3, Joined
<1>5. Ordered(t)
  BY <1>1, <1>2, <1>3, JoinedOrdered
<1> HIDE DEF t
<1>6. \A i \in 1..Len(t) : t[i].on # "password" /\ Canon(k, "execute", t[i])
  BY <1>1, <1>3, <1>4 DEF Plain, Shape
<1>7. Shape(k, "execute", t)
  BY <1>5, <1>6 DEF Shape
<1> QED BY <1>4, <1>7 DEF t, r

LEMMA FlowStart == Init => FlowInv
<1>1. Init => kind = "none" /\ call = NoCall /\ todo = <<>>
  BY DEF Init
<1> QED BY <1>1, Nothing DEF FlowInv

\* rnp works for execute() only.
LEMMA OnlyExecute ==
  ASSUME FlowInv, Running
  PROVE  call.name = "execute" /\ kind \in Kind
<1>1. /\ todo # <<>> /\ Head(todo) = todo[1] /\ 1 \in 1..Len(todo)
      /\ todo[1].act = "run"
  BY RunActs DEF Running, FlowInv
<1>2. call.name = "execute"
  BY <1>1 DEF FlowInv, Shape
<1> QED BY <1>1, <1>2 DEF FlowInv

LEMMA FlowStep == FlowInv /\ [Next]_vars => FlowInv'
<1> SUFFICES ASSUME FlowInv, [Next]_vars
             PROVE  FlowInv'
  OBVIOUS
<1>1. UNCHANGED <<kind, call, todo>> => FlowInv'
  BY DEF FlowInv
<1>2. CASE UseStreams \/ Stream \/ UNCHANGED vars
  BY <1>1, <1>2 DEF UseStreams, Stream, vars, ovars
<1>3. ASSUME call = NoCall, UNCHANGED <<call, todo>>, kind' \in Kind \cup {"none"}
      PROVE  FlowInv'
  BY <1>3, Nothing DEF FlowInv
<1>4. CASE Destroy \/ \E k \in Kind : Create(k)
  BY <1>3, <1>4 DEF Destroy, Create, Afresh, Idle, FlowInv
<1>5. ASSUME kind # "none", NEW m \in Methods[kind] \cup {Execute(kind)}, Call(m)
      PROVE  FlowInv'
  <2>1. kind \in Kind
    BY <1>5 DEF FlowInv
  <2>2. m.steps \in Seq(StepType) /\ Shape(kind, m.name, m.steps) /\ m.name # "none"
    BY <1>5, <2>1, MethodShape
  <2>3. call' = m /\ todo' = m.steps /\ kind' = kind
    BY <1>5 DEF Call
  <2> QED BY <1>5, <2>1, <2>2, <2>3, Nothing DEF FlowInv
<1>6. ASSUME todo # <<>>, todo' = Tail(todo), UNCHANGED <<kind, call>>
      PROVE  FlowInv'
  <2>1. Tail(todo) \in Seq(StepType) /\ Shape(kind, call.name, Tail(todo))
    BY <1>6, Rest DEF FlowInv
  <2> QED BY <1>6, <2>1 DEF FlowInv
<1>7. CASE LookUp \/ TellRnp \/ GetKey \/ Report
  BY <1>6, <1>7 DEF LookUp, TellRnp, GetKey, Report
<1>8. ASSUME call' = NoCall, todo' = <<>>, kind' = kind
      PROVE  FlowInv'
  BY <1>8, Nothing DEF FlowInv
<1>9. CASE Throw \/ Return
  BY <1>8, <1>9 DEF Throw, Return
<1>10. ASSUME NEW v \in Statuses, RunEnds(v)
       PROVE  FlowInv'
  <2>1. call.name = "execute" /\ todo # <<>> /\ Head(todo) = Run
    BY <1>10, OnlyExecute DEF RunEnds, Running
  <2>2. Len(v) \in Nat
    BY <1>10 DEF Statuses
  <2>3. todo' = Reports(Len(v)) \o Tail(todo) /\ UNCHANGED <<kind, call>>
    BY <1>10 DEF RunEnds, Reports
  <2>4. todo' \in Seq(StepType) /\ Shape(kind, "execute", todo')
    BY <2>1, <2>2, <2>3, RunShape DEF FlowInv
  <2>5. call # NoCall
    BY <2>1, Nothing
  <2> QED BY <2>1, <2>3, <2>4, <2>5 DEF FlowInv
<1> QED BY <1>2, <1>4, <1>5, <1>7, <1>9, <1>10 DEF Next

-----------------------------------------------------------------------------
(* Names.                                                                  *)

\* While a lookup is to come rnp was told nothing, and rnp refuses a name
\* only where it was passed on as it came.
NamesInv ==
  /\ todo # <<>> => failure = "no"
  /\ (call.name # "protection" /\ ~Tells(todo)) => native = before
  /\ (failure = "lookup" /\ failed # "protection") => native = before
  /\ failure = "name" => kind = "sign" /\ failed = "hash"

\* The first of the steps that are left.
LEMMA First ==
  ASSUME NEW k, NEW n, NEW s \in Seq(StepType), s # <<>>, Shape(k, n, s)
  PROVE  /\ Canon(k, n, Head(s)) /\ Head(s) \in StepType
         /\ Tells(s) => Tells(Tail(s))
         /\ (Tells(s) => Head(s).act # "lookup")
         /\ Head(s).act = "run" => n = "execute"
         /\ Head(s).on = "password" => n = "protection" /\ Tail(s) = <<>>
         /\ (n = "protection" /\ Tail(s) = <<>>) =>
              Head(s).on = "password" /\ Head(s).act = "native"
<1>1. /\ Head(s) = s[1] /\ 1 \in 1..Len(s) /\ s[1] \in StepType
      /\ \A i \in 1..Len(Tail(s)) : Tail(s)[i] = s[i + 1] /\ i + 1 \in 1..Len(s)
      /\ Tail(s) = <<>> <=> Len(s) = 1
  <2>1. /\ Head(s) = s[1] /\ Len(s) \in Nat \ {0} /\ 1 \in 1..Len(s) /\ s[1] \in StepType
    OBVIOUS
  <2>2. \A i \in 1..Len(Tail(s)) : Tail(s)[i] = s[i + 1] /\ i + 1 \in 1..Len(s)
    OBVIOUS
  <2>3. Tail(s) \in Seq(StepType) /\ Len(Tail(s)) = Len(s) - 1
    OBVIOUS
  <2>4. \A x \in Seq(StepType) : x = <<>> <=> Len(x) = 0
    OBVIOUS
  <2> DEFINE r == Tail(s)
  <2>5. r = <<>> <=> Len(s) = 1
    <3> HIDE DEF r
    <3>1. r \in Seq(StepType) /\ Len(r) = Len(s) - 1
      BY <2>3 DEF r
    <3> QED BY <2>1, <2>4, <3>1
  <2> HIDE DEF r
  <2> QED BY <2>1, <2>2, <2>5 DEF r
<1>2. Tells(s) => Tells(Tail(s)) /\ Head(s).act # "lookup"
  BY <1>1 DEF Tells
<1>3. Canon(k, n, Head(s)) /\ (Head(s).act = "run" => n = "execute")
  BY <1>1 DEF Shape
<1>4. /\ Head(s).on = "password" => n = "protection" /\ Tail(s) = <<>>
      /\ (n = "protection" /\ Tail(s) = <<>>) =>
              Head(s).on = "password" /\ Head(s).act = "native"
  BY <1>1 DEF Shape
<1> QED BY <1>1, <1>2, <1>3, <1>4

LEMMA NamesStart == Init => NamesInv
<1>1. Init => failure = "no" /\ native = before
  BY DEF Init
<1> QED BY <1>1 DEF NamesInv

LEMMA TellsNothing == Tells(<<>>)
BY DEF Tells

LEMMA NamesStep == FlowInv /\ NamesInv /\ [Next]_vars => NamesInv'
<1> SUFFICES ASSUME FlowInv, NamesInv, [Next]_vars
             PROVE  NamesInv'
  OBVIOUS
<1>1. UNCHANGED <<kind, call, todo, native, before, failure, failed>> => NamesInv'
  BY DEF NamesInv
<1>2. CASE UseStreams \/ Stream \/ UNCHANGED vars
  BY <1>1, <1>2 DEF UseStreams, Stream, vars, ovars
<1>3. ASSUME native' = before', failure' = "no"
      PROVE  NamesInv'
  BY <1>3 DEF NamesInv
<1>4. CASE Destroy \/ \E k \in Kind : Create(k)
  BY <1>3, <1>4 DEF Destroy, Create, Afresh
<1>5. ASSUME NEW m, Call(m)
      PROVE  NamesInv'
  BY <1>3, <1>5 DEF Call
<1>6. ASSUME todo # <<>>, todo' = Tail(todo),
             UNCHANGED <<kind, call, before, failure, failed>>,
             native' = native \/ Head(todo).act # "lookup"
      PROVE  NamesInv'
  <2>1. Tells(todo) => Tells(Tail(todo))
    BY <1>6, First DEF FlowInv
  <2>2. (call.name # "protection" /\ Head(todo).act # "lookup") => Tells(Tail(todo))
    BY <1>6, NoLookups DEF FlowInv
  <2> QED BY <1>6, <2>1, <2>2 DEF NamesInv
<1>7. CASE LookUp \/ GetKey \/ Report
  BY <1>6, <1>7 DEF LookUp, GetKey, Report
<1>8. CASE TellRnp
  <2>1. Head(todo).act # "lookup"
    BY <1>8 DEF TellRnp
  <2> QED BY <1>6, <1>8, <2>1 DEF TellRnp
<1>9. CASE Throw
  <2>1. /\ todo # <<>> /\ todo' = <<>> /\ call' = NoCall /\ failed' = call.name
        /\ UNCHANGED <<kind, native, before>>
        /\ failure' = IF Head(todo).act = "lookup" THEN "lookup"
                      ELSE IF Known(Head(todo)) THEN "native" ELSE "name"
    BY <1>9 DEF Throw
  <2>2. failure' = "lookup" => Head(todo).act = "lookup"
    BY <2>1
  <2>3. failure' = "name" => Head(todo).act # "lookup" /\ ~Known(Head(todo))
    BY <2>1
  <2>4. failure' = "name" => kind = "sign" /\ call.name = "hash"
    <3>1. Canon(kind, call.name, Head(todo))
      BY <2>1, First DEF FlowInv
    <3> HIDE DEF FlowInv, NamesInv
    <3> QED BY <2>3, <3>1 DEF Canon, Known
  <2>5. (failure' = "lookup" /\ call.name # "protection") => native = before
    BY <2>1, <2>2, First DEF FlowInv, NamesInv
  <2> QED BY <2>1, <2>4, <2>5, TellsNothing DEF NamesInv
<1>10. CASE Return
  BY <1>10, TellsNothing DEF Return, NamesInv
<1>11. ASSUME NEW v \in Statuses, RunEnds(v)
       PROVE  NamesInv'
  <2>1. call.name = "execute" /\ todo # <<>> /\ Head(todo) = Run
    BY <1>11, OnlyExecute DEF RunEnds, Running
  <2>2. Len(v) \in Nat
    BY <1>11 DEF Statuses
  <2>3. todo' = Reports(Len(v)) \o Tail(todo)
    BY <1>11 DEF RunEnds, Reports
  <2>4. Tail(todo) \in Seq(StepType) /\ Tells(Tail(todo))
    BY <2>1, NoLookups, Rest, RunActs DEF FlowInv
  <2>5. Tells(todo')
    BY <2>2, <2>3, <2>4, ReportsShape, JoinedTells
  <2>6. UNCHANGED <<kind, call, native, before, failure, failed>>
    BY <1>11 DEF RunEnds
  <2> QED BY <2>1, <2>5, <2>6 DEF NamesInv
<1> QED BY <1>2, <1>4, <1>5, <1>7, <1>8, <1>9, <1>10, <1>11 DEF Next

(***************************************************************************)
(* For any number of calls: an unknown name leaves rnp as it was, and rnp  *)
(* refuses a name the registry knows in hash() of a signature only.        *)
(***************************************************************************)
THEOREM NamesFailEarly == Spec => []NameFailures
<1>1. NamesInv => NameFailures
  BY DEF NamesInv, NameFailures
<1> QED BY <1>1, FlowStart, FlowStep, NamesStart, NamesStep, PTL DEF Spec

-----------------------------------------------------------------------------
(* Protection.                                                             *)

\* rnp has a password from the last step of a protection() on.
Locked == locked \/ (call.name = "protection" /\ todo = <<>>)

KeyType == [protected: BOOLEAN, asked: BOOLEAN, wrapped: BOOLEAN]

LockInv ==
  /\ native = [f \in {"sigs", "set", "password"} |-> native[f]]
  /\ native.password \in BOOLEAN /\ locked \in BOOLEAN
  /\ keyring \in Seq(KeyType)
  /\ native.password = Locked
  /\ \A i \in 1..Len(keyring) : keyring[i].protected = keyring[i].asked

LEMMA LockStart == Init => LockInv
<1>1. /\ NewNative = [f \in {"sigs", "set", "password"} |-> NewNative[f]]
      /\ NewNative.password = FALSE
  BY DEF NewNative
<1>2. Init => /\ native = NewNative /\ locked = FALSE /\ keyring = <<>>
              /\ call = NoCall
  BY DEF Init
<1>3. Init => Locked = FALSE
  BY <1>2, Nothing DEF Locked
<1> SUFFICES ASSUME Init
             PROVE  LockInv
  OBVIOUS
<1>4. keyring \in Seq(KeyType) /\ Len(keyring) = 0
  BY <1>2
<1>5. native = [f \in {"sigs", "set", "password"} |-> native[f]]
  BY <1>1, <1>2, Zenon
<1>6. native.password = FALSE /\ locked = FALSE /\ Locked = FALSE
  BY <1>1, <1>2, <1>3, Zenon
<1>7. native.password \in BOOLEAN /\ locked \in BOOLEAN /\ native.password = Locked
  BY <1>6
<1>8. \A i \in 1..Len(keyring) : keyring[i].protected = keyring[i].asked
  BY <1>4
<1> QED BY <1>4, <1>5, <1>7, <1>8 DEF LockInv

\* Only the step "password" gives rnp one.
LEMMA AppliedPassword ==
  ASSUME LockInv, NEW e
  PROVE  LET n == Applied(native, e) IN
         /\ n = [f \in {"sigs", "set", "password"} |-> n[f]]
         /\ n.password = IF e.on = "password" THEN TRUE ELSE native.password
BY DEF LockInv, Applied

LEMMA LockStep == FlowInv /\ LockInv /\ [Next]_vars => LockInv'
<1> SUFFICES ASSUME FlowInv, LockInv, [Next]_vars
             PROVE  LockInv'
  OBVIOUS
<1>1. ASSUME UNCHANGED <<native, locked, keyring>>, Locked' = Locked
      PROVE  LockInv'
  BY <1>1 DEF LockInv
<1>2. CASE UseStreams \/ Stream \/ UNCHANGED vars
  BY <1>1, <1>2 DEF UseStreams, Stream, vars, ovars, Locked
<1>3. CASE Destroy \/ \E k \in Kind : Create(k)
  <2>1. call = NoCall /\ call' = NoCall
    BY <1>3 DEF Destroy, Create, Afresh, Idle, FlowInv
  <2>2. native' = NewNative /\ locked' = FALSE /\ keyring' = keyring
    BY <1>3 DEF Destroy, Create, Afresh
  <2>3. /\ NewNative = [f \in {"sigs", "set", "password"} |-> NewNative[f]]
        /\ NewNative.password = FALSE
    BY DEF NewNative
  <2> QED BY <2>1, <2>2, <2>3, Nothing DEF LockInv, Locked
<1>4. ASSUME kind # "none", NEW m \in Methods[kind] \cup {Execute(kind)}, Call(m)
      PROVE  LockInv'
  <2>1. kind \in Kind /\ call = NoCall
    BY <1>4 DEF FlowInv, Call, Idle
  <2>2. m.name = "protection" => m.steps # <<>>
    BY <2>1, <1>4, MethodShape
  <2>3. call' = m /\ todo' = m.steps /\ UNCHANGED <<native, locked, keyring>>
    BY <1>4 DEF Call
  <2>4. Locked' = Locked
    BY <2>1, <2>2, <2>3, Nothing DEF Locked
  <2> QED BY <1>1, <2>3, <2>4
<1>5. ASSUME todo # <<>>, todo' = Tail(todo), UNCHANGED <<call, native, locked, keyring>>,
             ~(Head(todo).on = "password" /\ Head(todo).act = "native")
      PROVE  LockInv'
  <2>1. (call.name = "protection") => Tail(todo) # <<>>
    BY <1>5, First DEF FlowInv
  <2>2. Locked' = Locked
    BY <1>5, <2>1 DEF Locked
  <2> QED BY <1>1, <1>5, <2>2
<1>6. CASE LookUp
  <2>1. Head(todo).act = "lookup"
    BY <1>6 DEF LookUp
  <2> QED BY <1>5, <1>6, <2>1 DEF LookUp
<1>7. CASE Report
  <2>1. Head(todo).on = "report"
    BY <1>7 DEF Report
  <2> QED BY <1>5, <1>7, <2>1 DEF Report
<1>8. CASE GetKey
  <2>1. keyring # <<>> /\ keyring' = [keyring EXCEPT ![Len(keyring)].wrapped = TRUE]
    BY <1>8 DEF GetKey
  <2>2. /\ keyring' \in Seq(KeyType)
        /\ \A i \in 1..Len(keyring') : keyring'[i].protected = keyring'[i].asked
    <3>1. Len(keyring) \in 1..Len(keyring)
      BY <2>1 DEF LockInv
    <3>2. [keyring[Len(keyring)] EXCEPT !.wrapped = TRUE] \in KeyType
      <4>1. ASSUME NEW e \in KeyType
            PROVE  [e EXCEPT !.wrapped = TRUE] \in KeyType
        BY DEF KeyType
      <4>2. keyring[Len(keyring)] \in KeyType
        BY <3>1 DEF LockInv
      <4> QED BY <4>1, <4>2
    <3>3. keyring' \in Seq(KeyType) /\ Len(keyring') = Len(keyring)
      BY <2>1, <3>1, <3>2 DEF LockInv
    <3>4. \A i \in 1..Len(keyring) : /\ keyring'[i].protected = keyring[i].protected
                                     /\ keyring'[i].asked = keyring[i].asked
      BY <2>1, <3>1 DEF LockInv, KeyType
    <3> QED BY <3>3, <3>4 DEF LockInv
  <2>3. Head(todo).on = "key" /\ todo # <<>> /\ todo' = Tail(todo)
    BY <1>8 DEF GetKey
  <2>4. (call.name = "protection") => Tail(todo) # <<>>
    BY <2>3, First DEF FlowInv
  <2>5. UNCHANGED <<call, native, locked>>
    BY <1>8 DEF GetKey
  <2>6. Locked' = Locked
    BY <2>3, <2>4, <2>5 DEF Locked
  <2> QED BY <2>2, <2>5, <2>6 DEF LockInv
<1>9. CASE TellRnp
  <2> DEFINE e == Head(todo)
  <2>1. /\ todo # <<>> /\ e.act = "native" /\ todo' = Tail(todo)
        /\ native' = Applied(native, e) /\ UNCHANGED <<call, locked, keyring>>
    BY <1>9 DEF TellRnp
  <2>2. /\ e.on = "password" => call.name = "protection" /\ Tail(todo) = <<>>
        /\ (call.name = "protection" /\ Tail(todo) = <<>>) => e.on = "password"
    BY <2>1, First DEF FlowInv
  <2> HIDE DEF e
  <2>3. /\ native' = [f \in {"sigs", "set", "password"} |-> native'[f]]
        /\ native'.password = IF e.on = "password" THEN TRUE ELSE native.password
    BY <2>1, AppliedPassword
  <2>4. Locked' = IF e.on = "password" THEN TRUE ELSE Locked
    BY <2>1, <2>2 DEF Locked, LockInv
  <2> QED BY <2>1, <2>3, <2>4 DEF LockInv
<1>10. CASE Throw
  <2>1. todo # <<>> /\ call' = NoCall /\ UNCHANGED <<native, locked, keyring>>
    BY <1>10 DEF Throw
  <2>2. Locked' = Locked
    BY <2>1, Nothing DEF Locked
  <2> QED BY <1>1, <2>1, <2>2
<1>11. CASE Return
  <2>1. /\ todo = <<>> /\ call' = NoCall /\ UNCHANGED <<native, keyring>>
        /\ locked' = (locked \/ call.name = "protection")
    BY <1>11 DEF Return
  <2>2. Locked' = Locked /\ locked' \in BOOLEAN
    BY <2>1, Nothing DEF Locked
  <2> QED BY <2>1, <2>2 DEF LockInv
<1>12. ASSUME NEW v \in Statuses, RunEnds(v)
       PROVE  LockInv'
  <2>1. call.name = "execute"
    BY <1>12, OnlyExecute DEF RunEnds
  <2>2. UNCHANGED <<call, native, locked>>
    BY <1>12 DEF RunEnds
  <2>3. Locked' = Locked /\ native.password = locked
    BY <2>1, <2>2 DEF Locked, LockInv
  <2> DEFINE key == [protected |-> native.password, asked |-> locked, wrapped |-> FALSE]
  <2>4. keyring' = keyring \/ keyring' = Append(keyring, key)
    BY <1>12 DEF RunEnds
  <2>5. key \in KeyType /\ key.protected = key.asked
    BY <2>3 DEF LockInv, KeyType
  <2> HIDE DEF key
  <2>6. /\ keyring' \in Seq(KeyType)
        /\ \A i \in 1..Len(keyring') : keyring'[i].protected = keyring'[i].asked
    BY <2>4, <2>5 DEF LockInv
  <2> QED BY <2>2, <2>3, <2>6 DEF LockInv
<1> QED BY <1>2, <1>3, <1>4, <1>6, <1>7, <1>8, <1>9, <1>10, <1>11, <1>12 DEF Next

-----------------------------------------------------------------------------
(* Execution.                                                              *)

Judgement == {"ok", "invalid", "unknown"}

\* rnp is done: what is left of execute() and what it has collected.
Ended ==
  /\ conduct # "failed"
  /\ Len(result) <= Len(verdict)
  /\ \A i \in 1..Len(result) : result[i] = (verdict[i] = "ok")
  /\ kind = "verify" => todo = Reports(Len(verdict) - Len(result))
  /\ kind # "verify" => Len(verdict) = 0 /\ todo \in {<<>>, <<Native("key")>>}
  /\ kind = "generate" => keyring # <<>> /\ (todo = <<>> => keyring[Len(keyring)].wrapped)

\* rnp was told of a callback that failed.
Noticed == \/ over["in"] # 0 /\ flow["in"] = "abort"
           \/ flow["out"] = "abort"

ExecInv ==
  /\ verdict \in Seq(Judgement) /\ result \in Seq(BOOLEAN)
  /\ conduct = "failed" => Noticed
  /\ call.name = "execute" => \/ todo = Execute(kind).steps /\ result = <<>>
                              \/ Ended

\* What the steps of execute() are, and which of them rnp works in.
LEMMA ExecuteSteps ==
  ASSUME NEW k
  PROVE  /\ Execute(k).steps = IF k = "generate" THEN <<Run, Native("key")>> ELSE <<Run>>
         /\ Execute(k).steps # <<>> /\ Head(Execute(k).steps) = Run
         /\ Tail(Execute(k).steps) = IF k = "generate" THEN <<Native("key")>> ELSE <<>>
<1>1. Execute(k).steps = IF k = "generate" THEN <<Run, Native("key")>> ELSE <<Run>>
  BY DEF Execute, Method
<1>2. \A e, f : /\ Head(<<e>>) = e /\ Tail(<<e>>) = <<>> /\ <<e>> # <<>>
                /\ Head(<<e, f>>) = e /\ Tail(<<e, f>>) = <<f>> /\ <<e, f>> # <<>>
  OBVIOUS
<1> QED BY <1>1, <1>2

LEMMA ActsDiffer ==
  /\ Run.act = "run" /\ Run.on = ""
  /\ Native("report").act = "native" /\ Native("report").on = "report"
  /\ Native("key").act = "native" /\ Native("key").on = "key"
BY DEF Run, Native

LEMMA ReportsRest ==
  ASSUME NEW n \in Nat
  PROVE  /\ Reports(n) = <<>> <=> n = 0
         /\ n # 0 => Head(Reports(n)) = Native("report") /\ Tail(Reports(n)) = Reports(n - 1)
         /\ Reports(n) \o <<>> = Reports(n)
<1> DEFINE e == Native("report")
<1>1. \A m \in Nat : Reports(m) = [i \in 1..m |-> e]
  BY DEF Reports
<1> HIDE DEF e
<1>2. Reports(n) = <<>> <=> n = 0
  BY <1>1
<1>3. ASSUME n # 0
      PROVE  Head(Reports(n)) = e /\ Tail(Reports(n)) = Reports(n - 1)
  <2>1. n - 1 \in Nat
    BY <1>3
  <2>2. Reports(n - 1) = [i \in 1..(n - 1) |-> e]
    BY <1>1, <2>1
  <2>3. Reports(n) \in Seq({e}) /\ Len(Reports(n)) = n /\ Head(Reports(n)) = e
    BY <1>1, <1>3
  <2>4. Tail(Reports(n)) = [i \in 1..(n - 1) |-> e]
    <3> DEFINE r == Tail(Reports(n))
    <3>1. r \in Seq({e}) /\ Len(r) = n - 1
      BY <2>3, <1>3
    <3> HIDE DEF r
    <3>2. r = [i \in 1..Len(r) |-> r[i]] /\ \A i \in 1..Len(r) : r[i] = e
      BY <3>1
    <3>3. r = [i \in 1..(n - 1) |-> e]
      BY <3>1, <3>2
    <3> QED BY <3>3 DEF r
  <2> QED BY <2>2, <2>3, <2>4
<1>4. Reports(n) \o <<>> = Reports(n)
  <2>1. Reports(n) \in Seq({e})
    BY <1>1
  <2> QED BY <2>1
<1> QED BY <1>2, <1>3, <1>4 DEF e

\* What the first step left of an execution tells about it.
LEMMA Stage ==
  ASSUME FlowInv, ExecInv, call.name = "execute", todo # <<>>
  PROVE  /\ Head(todo).act # "lookup"
         /\ Head(todo).act = "native" => Ended /\ Head(todo).on \in {"key", "report"}
         /\ Head(todo).on = "report" => kind = "verify" /\ Ended
         /\ Head(todo).on = "key" => kind # "verify" /\ todo = <<Native("key")>> /\ Ended
         /\ Head(todo) = Run => todo = Execute(kind).steps /\ result = <<>>
<1>1. CASE todo = Execute(kind).steps /\ result = <<>>
  BY <1>1, ExecuteSteps, ActsDiffer
<1>2. CASE Ended /\ kind = "verify"
  <2>1. Len(verdict) - Len(result) \in Nat
    BY <1>2 DEF Ended, ExecInv
  <2>2. Head(todo) = Native("report")
    BY <1>2, <2>1, ReportsRest DEF Ended
  <2> QED BY <1>2, <2>2, ActsDiffer
<1>3. CASE Ended /\ kind # "verify"
  <2>1. todo = <<Native("key")>>
    BY <1>3 DEF Ended
  <2>2. \A e : Head(<<e>>) = e
    OBVIOUS
  <2>3. Head(todo) = Native("key")
    BY <2>1, <2>2
  <2> QED BY <1>3, <2>1, <2>3, ActsDiffer
<1> QED BY <1>1, <1>2, <1>3 DEF ExecInv

LEMMA ExecStart == Init => ExecInv
<1>1. Init => verdict = <<>> /\ result = <<>> /\ conduct = "kept" /\ call = NoCall
  BY DEF Init, StreamsInit
<1> QED BY <1>1, Nothing DEF ExecInv

LEMMA ExecStep == StreamsInv /\ FlowInv /\ LockInv /\ ExecInv /\ [Next]_vars => ExecInv'
<1> SUFFICES ASSUME StreamsInv, FlowInv, LockInv, ExecInv, [Next]_vars
             PROVE  ExecInv'
  OBVIOUS
<1>1. CASE UNCHANGED vars
  <2>1. UNCHANGED <<over, flow, conduct, kind, call, todo, verdict, result, keyring>>
    BY <1>1 DEF vars, svars, ovars
  <2> QED BY <2>1 DEF ExecInv, Ended, Noticed
<1>2. ASSUME call'.name # "execute", UNCHANGED <<over, flow, conduct, kind>>,
             verdict' \in Seq(Judgement), result' \in Seq(BOOLEAN)
      PROVE  ExecInv'
  BY <1>2 DEF ExecInv, Noticed
<1>3. CASE UseStreams
  <2>1. UNCHANGED <<over, flow, conduct, kind, call, todo, verdict, result, keyring>>
    BY <1>3 DEF UseStreams, ovars, CreateStream, CreateFails, DestroyStream
  <2> QED BY <2>1 DEF ExecInv, Ended, Noticed
<1>4. CASE Destroy \/ \E k \in Kind : Create(k)
  <2>1. call' = NoCall /\ conduct' = "kept" /\ verdict' = <<>> /\ result' = <<>>
    BY <1>4 DEF Destroy, Create, Afresh, Attach, Idle, FlowInv
  <2> QED BY <2>1, Nothing DEF ExecInv
<1>5. ASSUME kind # "none", NEW m \in Methods[kind] \cup {Execute(kind)}, Call(m)
      PROVE  ExecInv'
  <2>1. kind \in Kind
    BY <1>5 DEF FlowInv
  <2>2. m.name = "execute" => m = Execute(kind)
    BY <1>5, <2>1, MethodShape
  <2>3. /\ call' = m /\ todo' = m.steps /\ kind' = kind
        /\ verdict' = <<>> /\ result' = <<>>
        /\ Restart \/ UNCHANGED svars
    BY <1>5 DEF Call
  <2>4. \/ conduct' = "kept"
        \/ UNCHANGED <<over, flow, conduct>>
    BY <2>3 DEF Restart, Attach, svars
  <2> QED BY <1>5, <2>2, <2>3, <2>4 DEF ExecInv, Noticed
<1>6. CASE LookUp \/ TellRnp
  <2>1. /\ todo # <<>> /\ UNCHANGED <<svars, kind, call, verdict, result>>
        /\ \/ Head(todo).act = "lookup"
           \/ Head(todo).act = "native" /\ Head(todo).on \notin {"key", "report"}
    BY <1>6 DEF LookUp, TellRnp
  <2>2. call.name # "execute"
    BY <2>1, Stage
  <2> QED BY <1>2, <2>1, <2>2 DEF svars, ExecInv
<1>7. CASE GetKey
  <2>1. /\ todo # <<>> /\ Head(todo).on = "key" /\ todo' = Tail(todo) /\ keyring # <<>>
        /\ keyring' = [keyring EXCEPT ![Len(keyring)].wrapped = TRUE]
        /\ UNCHANGED <<over, flow, conduct, kind, call, verdict, result>>
    BY <1>7 DEF GetKey, svars
  <2>2. CASE call.name # "execute"
    BY <1>2, <2>1, <2>2 DEF ExecInv
  <2>3. CASE call.name = "execute"
    <3>1. kind # "verify" /\ todo = <<Native("key")>> /\ Ended
      BY <2>1, <2>3, Stage
    <3>2. todo' = <<>>
      <4>1. \A e : Tail(<<e>>) = <<>>
        OBVIOUS
      <4> QED BY <2>1, <3>1, <4>1
    <3>3. keyring' # <<>> /\ keyring'[Len(keyring')].wrapped
      <4>1. keyring \in Seq(KeyType) /\ Len(keyring) \in 1..Len(keyring)
        BY <2>1 DEF LockInv
      <4>2. DOMAIN keyring' = DOMAIN keyring /\ keyring'[Len(keyring)].wrapped = TRUE
        BY <2>1, <4>1 DEF KeyType
      <4>3. keyring' \in Seq(KeyType) /\ Len(keyring') = Len(keyring)
        <5>1. LockInv'
          BY LockStep
        <5> QED BY <4>1, <4>2, <5>1 DEF LockInv
      <4> QED BY <4>1, <4>2, <4>3
    <3>4. Ended'
      BY <2>1, <3>1, <3>2, <3>3 DEF Ended
    <3> QED BY <2>1, <3>4 DEF ExecInv, Noticed
  <2> QED BY <2>2, <2>3
<1>8. CASE Stream
  <2>1. Running /\ UNCHANGED ovars
    BY <1>8 DEF Stream
  <2>2. call.name = "execute" /\ kind \in Kind
    BY <2>1, OnlyExecute
  <2>3. todo = Execute(kind).steps /\ result = <<>>
    BY <2>1, <2>2, Stage DEF Running
  <2>4. UNCHANGED <<kind, call, todo, verdict, result>>
    BY <2>1 DEF ovars
  <2>5. ASSUME NEW a \in ReaderAnswer, Read(a)
        PROVE  (conduct = "failed" => Noticed)'
    <3>1. over["in"] # 0 /\ flow["in"] = "open" /\ over' = over
      BY <2>5 DEF Read
    <3>2. flow'["in"] = ReaderOutcome(a) /\ flow'["out"] = flow["out"]
      BY <2>5 DEF Read, StreamsInv, StreamsTypeOK, Side
    <3>3. a \in Failing => ReaderOutcome(a) = "abort"
      BY DEF ReaderOutcome, Failing
    <3>4. conduct' = "failed" => conduct = "failed" \/ a \in Failing
      BY <2>5, Worsens DEF Read, StreamsInv, StreamsTypeOK
    <3> QED BY <3>1, <3>2, <3>3, <3>4 DEF ExecInv, Noticed
  <2>6. ASSUME NEW a \in WriterAnswer, Write(a)
        PROVE  (conduct = "failed" => Noticed)'
    <3>1. flow["out"] = "open" /\ over' = over
      BY <2>6 DEF Write
    <3>2. flow'["out"] = WriterOutcome(a) /\ flow'["in"] = flow["in"]
      BY <2>6 DEF Write, StreamsInv, StreamsTypeOK, Side
    <3>3. a \in Failing => WriterOutcome(a) = "abort"
      BY DEF WriterOutcome, Failing
    <3>4. conduct' = "failed" => conduct = "failed" \/ a \in Failing
      BY <2>6 DEF Write
    <3> QED BY <3>1, <3>2, <3>3, <3>4 DEF ExecInv, Noticed
  <2>7. (conduct = "failed" => Noticed)'
    BY <1>8, <2>5, <2>6 DEF Stream
  <2> QED BY <2>2, <2>3, <2>4, <2>7 DEF ExecInv
<1>9. CASE Report
  <2>1. /\ todo # <<>> /\ Head(todo).on = "report" /\ todo' = Tail(todo)
        /\ result' = Append(result, MapSig(verdict[Len(result) + 1]))
        /\ UNCHANGED <<over, flow, conduct, kind, call, verdict, keyring>>
    BY <1>9 DEF Report, svars
  <2> DEFINE r == MapSig(verdict[Len(result) + 1])
  <2>2. r \in BOOLEAN /\ r = (verdict[Len(result) + 1] = "ok")
    BY DEF MapSig
  <2> HIDE DEF r
  <2>3. /\ result' \in Seq(BOOLEAN) /\ Len(result') = Len(result) + 1
        /\ \A i \in 1..Len(result) : result'[i] = result[i]
        /\ result'[Len(result) + 1] = r
        /\ Len(result) \in Nat /\ Len(verdict) \in Nat
    <3>1. result' = Append(result, r)
      BY <2>1 DEF r
    <3> QED BY <2>2, <3>1 DEF ExecInv
  <2>4. CASE call.name # "execute"
    BY <1>2, <2>1, <2>3, <2>4 DEF ExecInv
  <2>5. CASE call.name = "execute"
    <3>1. kind = "verify" /\ Ended
      BY <2>1, <2>5, Stage
    <3>2. Len(verdict) - Len(result) \in Nat /\ todo = Reports(Len(verdict) - Len(result))
      BY <2>3, <3>1 DEF Ended
    <3>3. /\ Len(verdict) - Len(result) # 0
          /\ todo' = Reports((Len(verdict) - Len(result)) - 1)
      BY <2>1, <3>2, ReportsRest
    <3>4. /\ Len(result') <= Len(verdict)
          /\ Len(verdict) - Len(result') = (Len(verdict) - Len(result)) - 1
      BY <2>3, <3>2, <3>3
    <3>5. \A i \in 1..Len(result') : result'[i] = (verdict[i] = "ok")
      BY <2>2, <2>3, <3>1 DEF Ended
    <3>6. conduct # "failed"
      BY <3>1 DEF Ended
    <3>7. Ended'
      BY <2>1, <3>1, <3>3, <3>4, <3>5, <3>6 DEF Ended
    <3> QED BY <2>1, <2>3, <3>7 DEF ExecInv, Noticed
  <2> QED BY <2>4, <2>5
<1>10. CASE Throw
  <2>1. /\ call' = NoCall /\ verdict' = <<>> /\ result' = <<>>
        /\ UNCHANGED <<over, flow, conduct, kind>>
    BY <1>10 DEF Throw, svars
  <2> QED BY <1>2, <2>1, Nothing
<1>11. CASE Return
  <2>1. /\ call' = NoCall /\ UNCHANGED <<over, flow, conduct, kind, verdict, result>>
    BY <1>11 DEF Return, svars
  <2> QED BY <1>2, <2>1, Nothing DEF ExecInv
<1>12. ASSUME NEW v \in Statuses, RunEnds(v)
       PROVE  ExecInv'
  <2>1. Running /\ Complete /\ (kind # "verify" => v = <<>>)
    BY <1>12 DEF RunEnds
  <2>2. call.name = "execute" /\ todo = Execute(kind).steps /\ result = <<>>
    BY <2>1, OnlyExecute, Stage DEF Running
  <2>3. /\ verdict' = v /\ result' = <<>> /\ kind' = kind /\ call' = call
        /\ UNCHANGED <<over, flow, conduct>>
        /\ todo' = Reports(Len(v)) \o Tail(todo)
    BY <1>12, <2>2 DEF RunEnds, svars, Reports
  <2>4. v \in Seq(Judgement) /\ Len(v) \in Nat
    BY <1>12 DEF Statuses, Judgement
  <2>5. conduct # "failed"
    BY <2>1 DEF Complete, ExecInv, Noticed
  <2>6. kind = "verify" => todo' = Reports(Len(v))
    BY <2>2, <2>3, <2>4, ExecuteSteps, ReportsRest
  <2>7. kind # "verify" => Len(v) = 0 /\ todo' = Tail(todo)
    <3>1. Reports(0) = <<>>
      BY ReportsRest
    <3>2. Tail(todo) \in Seq(StepType)
      BY <2>1, Rest DEF FlowInv, Running
    <3> QED BY <2>1, <2>3, <3>1, <3>2
  <2>8. kind # "verify" => todo' = IF kind = "generate" THEN <<Native("key")>> ELSE <<>>
    BY <2>2, <2>7, ExecuteSteps
  <2>9. kind = "generate" => keyring' # <<>> /\ todo' # <<>>
    <3>1. kind = "generate" => keyring' # <<>>
      BY <1>12 DEF RunEnds, LockInv
    <3>2. \A e : <<e>> # <<>>
      OBVIOUS
    <3> QED BY <2>8, <3>1, <3>2
  <2>10. Ended'
    BY <2>3, <2>4, <2>5, <2>6, <2>7, <2>8, <2>9 DEF Ended
  <2> QED BY <2>3, <2>4, <2>5, <2>10 DEF ExecInv
<1> QED BY <1>1, <1>3, <1>4, <1>5, <1>6, <1>7, <1>8, <1>9, <1>10, <1>11, <1>12 DEF Next

-----------------------------------------------------------------------------
IInv == StreamsInv /\ FlowInv /\ NamesInv /\ LockInv /\ ExecInv

LEMMA Inductive == Spec => []IInv
<1>1. Init => IInv
  BY StreamsStart, FlowStart, NamesStart, LockStart, ExecStart DEF IInv
<1>2. IInv /\ [Next]_vars => IInv'
  BY StreamsStep, FlowStep, NamesStep, LockStep, ExecStep DEF IInv
<1> QED BY <1>1, <1>2, PTL DEF Spec

(***************************************************************************)
(* For any number of keys and calls: a generated key is protected exactly  *)
(* when a protection() of its operation returned, and a generate() that    *)
(* returns has wrapped its key.                                            *)
(***************************************************************************)
THEOREM KeysProtected == Spec => []ProtectedAsAsked
<1>1. IInv => ProtectedAsAsked
  <2> SUFFICES ASSUME IInv
               PROVE  ProtectedAsAsked
    OBVIOUS
  <2>1. \A i \in DOMAIN keyring : keyring[i].protected = keyring[i].asked
    BY DEF IInv, LockInv
  <2>2. ASSUME kind = "generate", call.name = "execute", todo = <<>>
        PROVE  keyring # <<>> /\ keyring[Len(keyring)].wrapped
    BY <2>2, ExecuteSteps DEF IInv, ExecInv, Ended
  <2> QED BY <2>1, <2>2 DEF ProtectedAsAsked
<1> QED BY <1>1, Inductive, PTL

(***************************************************************************)
(* For any number of signatures and streams: an execute() that returns had *)
(* no reader that claimed more than it was offered or threw and no writer  *)
(* that declined or threw, and a verification reports every signature,     *)
(* `valid` exactly for those rnp verified.                                 *)
(***************************************************************************)
THEOREM ReturnsSound == Spec => []ReturnsAreSound
<1>1. IInv => ReturnsAreSound
  <2> SUFFICES ASSUME IInv, call.name = "execute", todo = <<>>
               PROVE  /\ conduct # "failed" /\ Len(result) = Len(verdict)
                      /\ \A i \in DOMAIN result : result[i] <=> verdict[i] = "ok"
    BY DEF ReturnsAreSound
  <2>1. Ended /\ verdict \in Seq(Judgement) /\ result \in Seq(BOOLEAN)
    BY ExecuteSteps DEF IInv, ExecInv
  <2>2. Len(result) = Len(verdict)
    <3>1. CASE kind = "verify"
      <4>1. Len(verdict) - Len(result) \in Nat
        BY <2>1 DEF Ended
      <4>2. Len(verdict) - Len(result) = 0
        BY <2>1, <3>1, <4>1, ReportsRest DEF Ended
      <4> QED BY <2>1, <4>2
    <3>2. CASE kind # "verify"
      BY <2>1, <3>2 DEF Ended
    <3> QED BY <3>1, <3>2
  <2>3. \A i \in DOMAIN result : result[i] <=> verdict[i] = "ok"
    <3>1. \A i \in 1..Len(result) : result[i] = (verdict[i] = "ok")
      BY <2>1 DEF Ended
    <3> QED BY <2>1, <3>1
  <2> QED BY <2>1, <2>2, <2>3 DEF Ended
<1> QED BY <1>1, Inductive, PTL

-----------------------------------------------------------------------------
(* Signatures.                                                             *)

Hash == {"default", "canonical"}

\* Some signatures of s, in their order, have the hashes of q.
Matched(s, q) ==
  \E K \in SUBSET (1..Len(s)) :
    /\ Cardinality(K) = Len(q)
    /\ \A i \in K : s[i] = q[Cardinality({j \in K : j <= i})]

LEMMA Numbered ==
  ASSUME NEW n \in Nat, NEW K \in SUBSET (1..n)
  PROVE  /\ IsFiniteSet(K) /\ Cardinality(K) \in Nat
         /\ \A i \in K : Cardinality({j \in K : j <= i}) \in 1..Cardinality(K)
<1>1. IsFiniteSet(1..n)
  BY FS_Interval
<1>2. IsFiniteSet(K)
  BY <1>1, FS_Subset
<1>3. Cardinality(K) \in Nat
  BY <1>2, FS_CardinalityType
<1>4. ASSUME NEW i \in K
      PROVE  Cardinality({j \in K : j <= i}) \in 1..Cardinality(K)
  <2> DEFINE L == {j \in K : j <= i}
  <2>1. L \in SUBSET K /\ i \in L
    OBVIOUS
  <2> HIDE DEF L
  <2>2. IsFiniteSet(L) /\ Cardinality(L) <= Cardinality(K)
    BY <1>2, <2>1, FS_Subset
  <2>3. Cardinality(L) \in Nat /\ Cardinality(L) # 0
    <3>1. Cardinality(L) \in Nat
      BY <2>2, FS_CardinalityType
    <3>2. Cardinality(L) # 0
      BY <2>1, <2>2, FS_EmptySet
    <3> QED BY <3>1, <3>2
  <2>4. Cardinality(L) \in 1..Cardinality(K)
    BY <1>3, <2>2, <2>3
  <2> QED BY <2>4 DEF L
<1> QED BY <1>2, <1>3, <1>4

\* One more signature matches one more hash, or is left out.
LEMMA MatchedMore ==
  ASSUME NEW s \in Seq(Hash), NEW q \in Seq(Hash), NEW x \in Hash, Matched(s, q)
  PROVE  Matched(Append(s, x), Append(q, x)) /\ Matched(Append(s, x), q)
<1> DEFINE n == Len(s)
           t == Append(s, x)
           r == Append(q, x)
<1>1. n \in Nat /\ Len(q) \in Nat
  OBVIOUS
<1>2. Len(t) = n + 1 /\ t[n + 1] = x /\ \A i \in 1..n : t[i] = s[i]
  OBVIOUS
<1>3. Len(r) = Len(q) + 1 /\ r[Len(q) + 1] = x /\ \A i \in 1..Len(q) : r[i] = q[i]
  OBVIOUS
<1>4. PICK K \in SUBSET (1..n) :
        /\ Cardinality(K) = Len(q)
        /\ \A i \in K : s[i] = q[Cardinality({j \in K : j <= i})]
  BY DEF Matched
<1>5. /\ IsFiniteSet(K) /\ Cardinality(K) \in Nat
      /\ \A i \in K : Cardinality({j \in K : j <= i}) \in 1..Len(q)
  BY <1>1, <1>4, Numbered
<1> DEFINE M == K \cup {n + 1}
<1> HIDE DEF n, t, r
<1>6. Matched(t, q)
  <2>1. K \in SUBSET (1..Len(t))
    BY <1>1, <1>2
  <2>2. \A i \in K : t[i] = q[Cardinality({j \in K : j <= i})]
    BY <1>2, <1>4
  <2> QED BY <1>4, <2>1, <2>2 DEF Matched
<1>7. Matched(t, r)
  <2>1. M \in SUBSET (1..Len(t)) /\ n + 1 \notin K
    BY <1>1, <1>2
  <2>2. Cardinality(M) = Len(r)
    BY <1>3, <1>4, <1>5, <2>1, FS_AddElement
  <2>3. ASSUME NEW i \in K
        PROVE  t[i] = r[Cardinality({j \in M : j <= i})]
    <3>1. {j \in M : j <= i} = {j \in K : j <= i}
      BY <1>1
    <3>2. Cardinality({j \in K : j <= i}) \in 1..Len(q)
      BY <1>5
    <3> QED BY <1>2, <1>3, <1>4, <3>1, <3>2
  <2>4. t[n + 1] = r[Cardinality({j \in M : j <= n + 1})]
    <3>1. \A j \in M : j <= n + 1
      BY <1>1
    <3> HIDE DEF M
    <3>2. {j \in M : j <= n + 1} = M
      BY <3>1
    <3> QED BY <1>2, <1>3, <2>2, <3>2
  <2>5. \A i \in M : t[i] = r[Cardinality({j \in M : j <= i})]
    BY <2>3, <2>4
  <2> HIDE DEF M
  <2> QED BY <2>1, <2>2, <2>5 DEF Matched
<1> QED BY <1>6, <1>7 DEF t, r

\* No signature step among the steps s.
Clean(s) == \A i \in 1..Len(s) : s[i].on \notin {"signature", "signature.hash"}

LEMMA CleanJoined ==
  ASSUME NEW s \in Seq(StepType), NEW t \in Seq(StepType), Clean(s), Clean(t)
  PROVE  s \o t \in Seq(StepType) /\ Clean(s \o t)
BY Joined DEF Clean

LEMMA CleanRest ==
  ASSUME NEW s \in Seq(StepType), s # <<>>, Clean(s)
  PROVE  Clean(Tail(s)) /\ Head(s).on \notin {"signature", "signature.hash"}
<1>1. /\ Head(s) = s[1] /\ 1 \in 1..Len(s)
      /\ \A i \in 1..Len(Tail(s)) : Tail(s)[i] = s[i + 1] /\ i + 1 \in 1..Len(s)
  OBVIOUS
<1> QED BY <1>1 DEF Clean

LEMMA CleanPiece ==
  ASSUME NEW e \in StepType, e.on \notin {"signature", "signature.hash"},
         NEW f \in StepType, f.on \notin {"signature", "signature.hash"}, NEW x
  PROVE  /\ <<>> \in Seq(StepType) /\ Clean(<<>>)
         /\ <<e>> \in Seq(StepType) /\ Clean(<<e>>)
         /\ <<e, f>> \in Seq(StepType) /\ Clean(<<e, f>>)
         /\ If(x, <<e>>) \in Seq(StepType) /\ Clean(If(x, <<e>>))
         /\ If(x, <<e, f>>) \in Seq(StepType) /\ Clean(If(x, <<e, f>>))
<1>1. <<>> \in Seq(StepType) /\ Clean(<<>>)
  BY DEF Clean
<1>2. <<e>> \in Seq(StepType) /\ Clean(<<e>>)
  BY DEF Clean
<1>3. <<e, f>> \in Seq(StepType) /\ Clean(<<e, f>>)
  <2>1. \A i \in 1..Len(<<e, f>>) : <<e, f>>[i] = e \/ <<e, f>>[i] = f
    OBVIOUS
  <2> QED BY <2>1, Two DEF Clean
<1> QED BY <1>1, <1>2, <1>3 DEF If

\* Only addSignature() tells rnp about signatures.
LEMMA MethodClean ==
  ASSUME NEW k \in Kind, NEW m \in Methods[k] \cup {Execute(k)}
  PROVE  \/ m.name # "addSignature" /\ Clean(m.steps)
         \/ \E h \in Option, t \in Given : m = AddSignature(h, t)
<1> DEFINE C(s) == s \in Seq(StepType) /\ Clean(s)
<1>1. ASSUME NEW n, NEW s, m = Method(n, "", s), n # "addSignature", C(s)
      PROVE  m.name # "addSignature" /\ Clean(m.steps)
  BY <1>1 DEF Method
<1>2. ASSUME NEW x \in Option, NEW g \in {"option", "recipient", "protection.cipher",
                                         "protection.hash", "protection", "password"},
             NEW y
      PROVE  /\ C(If(y, <<Lookup(x)>>)) /\ C(If(y, Canonical(g, x)))
             /\ C(Canonical(g, x)) /\ C(<<Lookup(x), Named(g, x)>>)
             /\ C(<<Native(g)>>) /\ C(<<Native("protection"), Native("password")>>)
  <2>1. /\ Lookup(x) \in StepType /\ Lookup(x).on = ""
        /\ \A z \in Option : Named(g, z) \in StepType /\ Named(g, z).on = g
        /\ Native(g) \in StepType /\ Native(g).on = g
    BY <1>2 DEF Lookup, Named, Native, StepType, Told, Option
  <2>2. /\ Native("protection") \in StepType /\ Native("protection").on = "protection"
        /\ Native("password") \in StepType /\ Native("password").on = "password"
    BY DEF Native, StepType, Told, Option
  <2>3. "canonical" \in Option
    BY DEF Option, Spelling
  <2>4. /\ "" \notin {"signature", "signature.hash"} /\ g \notin {"signature", "signature.hash"}
        /\ "protection" \notin {"signature", "signature.hash"}
        /\ "password" \notin {"signature", "signature.hash"}
    BY <1>2
  <2>5. C(If(y, <<Lookup(x)>>)) /\ C(If(y, Canonical(g, x))) /\ C(Canonical(g, x))
    BY <2>1, <2>3, <2>4, CleanPiece DEF Canonical
  <2>6. C(<<Lookup(x), Named(g, x)>>) /\ C(<<Native(g)>>)
    BY <2>1, <2>4, CleanPiece
  <2>7. C(<<Native("protection"), Native("password")>>)
    BY <2>2, <2>4, CleanPiece
  <2> QED BY <2>5, <2>6, <2>7
<1>3. CASE m = Execute(k)
  <2>1. /\ Run \in StepType /\ Run.on = "" /\ Native("key") \in StepType
        /\ Native("key").on = "key"
    BY DEF Run, Native, StepType, Told, Option
  <2>2. C(<<Run>>) /\ C(<<Run, Native("key")>>)
    BY <2>1, CleanPiece
  <2> DEFINE s == IF k = "generate" THEN <<Run, Native("key")>> ELSE <<Run>>
  <2>3. m = Method("execute", "", s) /\ C(s)
    BY <1>3, <2>2 DEF Execute
  <2> HIDE DEF s, C
  <2> QED BY <1>1, <2>3
<1> HIDE DEF C
<1>4. CASE m = Setter \/ m = AddRecipient
  <2>1. "" \in Option
    BY DEF Option
  <2>2. C(<<Native("option")>>) /\ C(<<Native("recipient")>>)
    BY <1>2, <2>1
  <2> DEFINE s == <<Native("option")>>
             t == <<Native("recipient")>>
  <2>3. m = Method("set", "", s) \/ m = Method("addRecipient", "", t)
    BY <1>4 DEF Setter, AddRecipient
  <2> HIDE DEF s, t
  <2>4. C(s) /\ C(t)
    BY <2>2 DEF s, t
  <2> QED BY <1>1, <2>3, <2>4
<1>5. ASSUME NEW n \in Spelling, m \in {SignNamed(n), EncryptNamed(n), GenerateNamed(n)}
      PROVE  m.name # "addSignature" /\ Clean(m.steps)
  <2> DEFINE s == <<Lookup(n), Named("option", n)>>
             t == Canonical("option", n)
  <2>1. n \in Option
    BY DEF Option
  <2>2. C(s) /\ C(t)
    BY <1>2, <2>1
  <2>3. m = Method("hash", "", s) \/ m = Method("hash", "", t)
    BY <1>5 DEF SignNamed, EncryptNamed, GenerateNamed
  <2> HIDE DEF s, t
  <2> QED BY <1>1, <2>2, <2>3
<1>6. ASSUME NEW c \in Option, NEW h \in Option, m = AddPassword(c, h)
      PROVE  m.name # "addSignature" /\ Clean(m.steps)
  <2> DEFINE a == If(c, <<Lookup(c)>>)
             b == If(h, <<Lookup(h)>>)
             d == <<Native("recipient")>>
  <2>1. C(a) /\ C(b) /\ C(d)
    BY <1>2
  <2>2. m = Method("addPassword", "", (a \o b) \o d)
    BY <1>6 DEF AddPassword
  <2> HIDE DEF a, b, d
  <2>3. C((a \o b) \o d)
    BY <2>1, CleanJoined DEF C
  <2> QED BY <1>1, <2>2, <2>3
<1>7. ASSUME NEW c \in Option, NEW h \in Option, m = Protection(c, h)
      PROVE  m.name # "addSignature" /\ Clean(m.steps)
  <2> DEFINE a == If(c, Canonical("protection.cipher", c))
             b == If(h, Canonical("protection.hash", h))
             d == <<Native("protection"), Native("password")>>
  <2>1. C(a) /\ C(b) /\ C(d)
    BY <1>2
  <2>2. m = Method("protection", "", (a \o b) \o d)
    BY <1>7 DEF Protection
  <2> HIDE DEF a, b, d
  <2>3. C((a \o b) \o d)
    BY <2>1, CleanJoined DEF C
  <2> QED BY <1>1, <2>2, <2>3
<1>8. /\ k \in {"sign", "encrypt", "verify", "generate"}
      /\ k = "sign" => Methods[k] = SignMethods
      /\ k = "encrypt" => Methods[k] = EncryptMethods
      /\ k = "verify" => Methods[k] = {}
      /\ k = "generate" => Methods[k] = GenerateMethods
  BY DEF Kind, Methods
<1>9. CASE m \in SignMethods
  BY <1>4, <1>5, <1>9 DEF SignMethods
<1>10. CASE m \in EncryptMethods
  BY <1>4, <1>5, <1>6, <1>10 DEF EncryptMethods
<1>11. CASE m \in GenerateMethods
  BY <1>4, <1>5, <1>7, <1>11 DEF GenerateMethods
<1> QED BY <1>3, <1>8, <1>9, <1>10, <1>11

Times(t)    == If(t, <<Native("signature.times")>>)
HashStep    == Named("signature.hash", "canonical")
Behind(h, t) == If(h, <<HashStep>>) \o Times(t)
Wanted(h)   == IF h = "" THEN "default" ELSE "canonical"

LEMMA Front ==
  ASSUME NEW e \in StepType, NEW s \in Seq(StepType)
  PROVE  /\ Head(<<e>> \o s) = e /\ Tail(<<e>> \o s) = s /\ <<e>> \o s # <<>>
         /\ <<e>> \o s \in Seq(StepType) /\ <<>> \o s = s
<1> DEFINE t == <<e>> \o s
<1>1. <<e>> \in Seq(StepType) /\ Len(<<e>>) = 1 /\ <<e>>[1] = e
  OBVIOUS
<1>2. /\ t \in Seq(StepType) /\ Len(t) = 1 + Len(s)
      /\ \A i \in 1..(1 + Len(s)) : t[i] = IF i <= 1 THEN <<e>>[i] ELSE s[i - 1]
  BY <1>1, ConcatProperties
<1> HIDE DEF t
<1>3. Len(s) \in Nat
  OBVIOUS
<1>4. t # <<>> /\ Head(t) = e
  BY <1>1, <1>2, <1>3
<1>5. /\ Tail(t) \in Seq(StepType) /\ Len(Tail(t)) = Len(s)
      /\ \A i \in 1..Len(s) : Tail(t)[i] = t[i + 1]
  BY <1>2, <1>3, <1>4
<1>6. \A i \in 1..Len(s) : t[i + 1] = s[i]
  BY <1>2, <1>3
<1>7. Tail(t) = s
  <2> DEFINE r == Tail(t)
  <2>1. r \in Seq(StepType) /\ Len(r) = Len(s) /\ \A i \in 1..Len(s) : r[i] = s[i]
    BY <1>5, <1>6
  <2> HIDE DEF r
  <2>2. r = s
    BY <2>1
  <2> QED BY <2>2 DEF r
<1>8. <<>> \o s = s
  BY ConcatEmptySeq
<1> QED BY <1>2, <1>4, <1>7, <1>8 DEF t

\* The steps of addSignature(): a lookup, the signature, its hash, its times.
LEMMA AddSteps ==
  ASSUME NEW h \in Option, NEW t
  PROVE  /\ AddSignature(h, t).name = "addSignature" /\ AddSignature(h, t).hash = h
         /\ AddSignature(h, t).steps =
              If(h, <<Lookup(h)>>) \o (<<Native("signature")>> \o Behind(h, t))
         /\ Lookup(h) \in StepType /\ Native("signature") \in StepType
         /\ HashStep \in StepType
         /\ Times(t) \in Seq(StepType) /\ Behind(h, t) \in Seq(StepType)
         /\ Times(t) # <<>> => Times(t) = <<Native("signature.times")>> \o <<>>
         /\ Native("signature.times") \in StepType
<1> DEFINE a == If(h, <<Lookup(h)>>)
           b == <<Native("signature")>>
           c == If(h, <<HashStep>>)
           d == Times(t)
<1>1. /\ Lookup(h) \in StepType /\ Native("signature") \in StepType
      /\ HashStep \in StepType /\ Native("signature.times") \in StepType
  BY DEF Lookup, Native, Named, HashStep, StepType, Told, Option, Spelling
<1>2. a \in Seq(StepType) /\ b \in Seq(StepType) /\ c \in Seq(StepType) /\ d \in Seq(StepType)
  <2>1. \A z : \A e \in StepType : If(z, <<e>>) \in Seq(StepType) /\ <<e>> \in Seq(StepType)
    <3>1. <<>> \in Seq(StepType) /\ \A e \in StepType : <<e>> \in Seq(StepType)
      OBVIOUS
    <3> QED BY <3>1 DEF If
  <2> QED BY <1>1, <2>1 DEF Times
<1>3. d # <<>> => d = <<Native("signature.times")>> \o <<>>
  <2>1. <<Native("signature.times")>> \o <<>> = <<Native("signature.times")>>
    BY <1>1
  <2> QED BY <2>1 DEF Times, If
<1>4. AddSignature(h, t) = Method("addSignature", h, ((a \o b) \o c) \o d)
  BY DEF AddSignature, Times, HashStep
<1>5. Behind(h, t) = c \o d
  BY DEF Behind
<1> HIDE DEF a, b, c, d
<1>6. /\ a \o b \in Seq(StepType) /\ b \o c \in Seq(StepType) /\ c \o d \in Seq(StepType)
  BY <1>2, ConcatProperties
<1>7. (a \o b) \o c = a \o (b \o c) /\ (b \o c) \o d = b \o (c \o d)
  <2>1. \A x, y, z \in Seq(StepType) : (x \o y) \o z = x \o (y \o z)
    BY ConcatAssociative
  <2> QED BY <1>2, <2>1
<1>8. (a \o (b \o c)) \o d = a \o ((b \o c) \o d)
  <2>1. \A x, y, z \in Seq(StepType) : (x \o y) \o z = x \o (y \o z)
    BY ConcatAssociative
  <2> DEFINE y == b \o c
  <2>2. y \in Seq(StepType)
    BY <1>6
  <2> HIDE DEF y
  <2>3. (a \o y) \o d = a \o (y \o d)
    BY <1>2, <2>1, <2>2
  <2> QED BY <2>3 DEF y
<1> DEFINE s == ((a \o b) \o c) \o d
<1>9. s = a \o (b \o (c \o d))
  BY <1>7, <1>8
<1> HIDE DEF s
<1>10. /\ AddSignature(h, t).name = "addSignature" /\ AddSignature(h, t).hash = h
       /\ AddSignature(h, t).steps = s
  BY <1>4 DEF Method, s
<1> QED BY <1>1, <1>2, <1>3, <1>5, <1>6, <1>9, <1>10 DEF a, b, d

\* What rnp holds while no addSignature() is half way.
Base(s) == s \in Seq(Hash) /\ Matched(s, asked) /\ Len(s) - Len(asked) <= torn

\* How far an addSignature() with hash h and times t has come.
Asking(h, t) ==
  /\ Base(native.sigs)
  /\ todo \in {AddSignature(h, t).steps, <<Native("signature")>> \o Behind(h, t)}

Hashing(h, t) ==
  /\ h # "" /\ todo = <<HashStep>> \o Times(t)
  /\ \E s : Base(s) /\ native.sigs = Append(s, "default")

Added(h, t) ==
  /\ todo \in {Times(t), <<>>}
  /\ \E s : Base(s) /\ native.sigs = Append(s, Wanted(h))

SigsInv ==
  /\ asked \in Seq(Hash) /\ torn \in Nat
  /\ call.name # "addSignature" => Clean(todo) /\ Base(native.sigs)
  /\ call.name = "addSignature" =>
       call.hash \in Option /\ \E t \in Given :
         Asking(call.hash, t) \/ Hashing(call.hash, t) \/ Added(call.hash, t)

\* Steps that are no signature steps leave the signatures alone.
LEMMA AppliedSigs ==
  ASSUME LockInv, NEW e
  PROVE  /\ e.on \notin {"signature", "signature.hash"} => Applied(native, e).sigs = native.sigs
         /\ e.on = "signature" => Applied(native, e).sigs = Append(native.sigs, "default")
         /\ e.on = "signature.hash" =>
              Applied(native, e).sigs = [native.sigs EXCEPT ![Len(native.sigs)] = e.name]
BY DEF LockInv, Applied

LEMMA Overwritten ==
  ASSUME NEW s \in Seq(Hash), NEW x \in Hash, NEW y \in Hash
  PROVE  LET t == Append(s, x) IN [t EXCEPT ![Len(t)] = y] = Append(s, y)
<1> DEFINE t == Append(s, x)
           u == [t EXCEPT ![Len(t)] = y]
           v == Append(s, y)
<1>1. /\ t \in Seq(Hash) /\ Len(t) = Len(s) + 1 /\ Len(s) \in Nat
      /\ \A i \in 1..Len(s) : t[i] = s[i]
  OBVIOUS
<1>2. /\ v \in Seq(Hash) /\ Len(v) = Len(s) + 1 /\ v[Len(s) + 1] = y
      /\ \A i \in 1..Len(s) : v[i] = s[i]
  OBVIOUS
<1> HIDE DEF t, v
<1>3. /\ u \in Seq(Hash) /\ Len(u) = Len(s) + 1 /\ u[Len(s) + 1] = y
      /\ \A i \in 1..Len(s) : u[i] = s[i]
  BY <1>1
<1> HIDE DEF u
<1>4. u = v
  BY <1>2, <1>3
<1> QED BY <1>4 DEF u, v, t

\* A lookup that fails tears nothing, a native step that fails behind the
\* signature leaves one signature more.
LEMMA Torn ==
  ASSUME FlowInv, SigsInv, todo # <<>>, torn' \in Nat, torn' >= torn,
         asked' = asked, native' = native,
         (call.name = "addSignature" /\ Head(todo).act # "lookup") => torn' = torn + 1
  PROVE  Base(native.sigs)'
<1>1. ASSUME Base(native.sigs)
      PROVE  Base(native.sigs)'
  <2>1. Len(native.sigs) \in Nat /\ Len(asked) \in Nat /\ torn \in Nat
    BY <1>1 DEF Base, SigsInv
  <2> QED BY <1>1, <2>1 DEF Base
<1>2. CASE call.name # "addSignature"
  BY <1>1, <1>2 DEF SigsInv
<1>3. CASE call.name = "addSignature"
  <2> DEFINE h == call.hash
  <2>1. h \in Option
    BY <1>3 DEF SigsInv
  <2>2. PICK t \in Given : Asking(h, t) \/ Hashing(h, t) \/ Added(h, t)
    BY <1>3 DEF SigsInv
  <2>3. ASSUME Head(todo).act # "lookup", NEW s, NEW x \in Hash,
               Base(s), native.sigs = Append(s, x)
        PROVE  Base(native.sigs)'
    <3>1. asked \in Seq(Hash) /\ s \in Seq(Hash) /\ Matched(s, asked)
      BY <2>3 DEF Base, SigsInv
    <3>2. Matched(Append(s, x), asked)
      BY <3>1, MatchedMore
    <3>3. /\ Append(s, x) \in Seq(Hash) /\ Len(Append(s, x)) = Len(s) + 1
          /\ Len(s) \in Nat /\ Len(asked) \in Nat /\ torn \in Nat
      BY <3>1 DEF SigsInv
    <3> QED BY <1>3, <2>3, <3>2, <3>3 DEF Base
  <2>4. "default" \in Hash /\ Wanted(h) \in Hash
    BY DEF Hash, Wanted
  <2>5. CASE Asking(h, t)
    BY <1>1, <2>5 DEF Asking
  <2>6. CASE Hashing(h, t)
    <3>1. Head(todo) = HashStep /\ HashStep.act = "native"
      <4>1. HashStep \in StepType /\ Times(t) \in Seq(StepType)
        BY <2>1, AddSteps
      <4>2. HashStep.act = "native"
        BY DEF HashStep, Named
      <4> QED BY <2>6, <4>1, <4>2, Front DEF Hashing
    <3> QED BY <2>3, <2>4, <2>6, <3>1 DEF Hashing
  <2>7. CASE Added(h, t)
    <3>1. Head(todo) = Native("signature.times")
      <4>1. /\ Times(t) = <<Native("signature.times")>> \o <<>> /\ todo = Times(t)
            /\ Native("signature.times") \in StepType /\ <<>> \in Seq(StepType)
        <5>1. todo = Times(t) /\ Times(t) # <<>>
          BY <2>7 DEF Added
        <5>2. <<>> \in Seq(StepType)
          OBVIOUS
        <5> QED BY <2>1, <5>1, <5>2, AddSteps
      <4> QED BY <4>1, Front
    <3>2. Head(todo).act = "native"
      <4>1. Native("signature.times").act = "native"
        BY DEF Native
      <4> QED BY <3>1, <4>1
    <3> QED BY <2>3, <2>4, <2>7, <3>2 DEF Added
  <2> QED BY <2>2, <2>5, <2>6, <2>7
<1> QED BY <1>2, <1>3

LEMMA NothingMatched ==
  <<>> \in Seq(Hash) /\ Len(<<>>) = 0 /\ Matched(<<>>, <<>>)
<1>1. <<>> \in Seq(Hash) /\ Len(<<>>) = 0
  OBVIOUS
<1>2. {} \in SUBSET (1..0) /\ Cardinality({}) = 0
  BY FS_EmptySet
<1> QED BY <1>1, <1>2 DEF Matched

LEMMA StillToDo ==
  ASSUME NEW h \in Option, NEW t
  PROVE  /\ AddSignature(h, t).steps # <<>>
         /\ <<Native("signature")>> \o Behind(h, t) # <<>>
         /\ <<HashStep>> \o Times(t) # <<>>
<1> DEFINE r == <<Native("signature")>> \o Behind(h, t)
<1>1. r \in Seq(StepType) /\ r # <<>> /\ <<HashStep>> \o Times(t) # <<>>
  BY AddSteps, Front
<1>2. AddSignature(h, t).steps = If(h, <<Lookup(h)>>) \o r
  BY AddSteps
<1> HIDE DEF r
<1>3. <<>> \o r = r /\ <<Lookup(h)>> \o r # <<>>
  BY <1>1, AddSteps, Front
<1>4. AddSignature(h, t).steps # <<>>
  BY <1>1, <1>2, <1>3 DEF If
<1> QED BY <1>1, <1>4 DEF r

LEMMA CleanNothing == Clean(<<>>)
BY DEF Clean

LEMMA SigsStart == Init => SigsInv
<1> SUFFICES ASSUME Init
             PROVE  SigsInv
  OBVIOUS
<1>1. asked = <<>> /\ torn = 0 /\ call = NoCall /\ todo = <<>> /\ native = NewNative
  BY DEF Init
<1>2. native.sigs = <<>>
  BY <1>1 DEF NewNative
<1>3. Base(native.sigs)
  BY <1>1, <1>2, NothingMatched DEF Base
<1> QED BY <1>1, <1>3, Nothing, CleanNothing DEF SigsInv

\* A step of a call that leaves asked and torn alone.
LEMMA SigsTold ==
  ASSUME FlowInv, LockInv, SigsInv, todo # <<>>, todo' = Tail(todo),
         UNCHANGED <<call, asked, torn>>, NEW e, e = Head(todo),
         \/ e.act = "native" /\ native' = Applied(native, e)
         \/ /\ native' = native
            /\ e.act = "lookup" \/ e.on \notin {"signature", "signature.hash"}
  PROVE  SigsInv'
<1>1. e.on \notin {"signature", "signature.hash"} => native'.sigs = native.sigs
  BY AppliedSigs
<1>2. \A s : Base(s)' = Base(s)
  BY DEF Base
<1>3. CASE call.name # "addSignature"
  <2>1. Clean(Tail(todo)) /\ e.on \notin {"signature", "signature.hash"}
    BY <1>3, CleanRest DEF FlowInv, SigsInv
  <2> QED BY <1>1, <1>3, <2>1 DEF SigsInv, Base
<1>4. CASE call.name = "addSignature"
  <2> DEFINE h == call.hash
  <2>1. h \in Option /\ h' = h /\ call'.name = "addSignature"
    BY <1>4 DEF SigsInv
  <2>2. PICK t \in Given : Asking(h, t) \/ Hashing(h, t) \/ Added(h, t)
    BY <1>4 DEF SigsInv
  <2>3. asked' \in Seq(Hash) /\ torn' \in Nat
    BY DEF SigsInv
  <2>4. SUFFICES Asking(h, t)' \/ Hashing(h, t)' \/ Added(h, t)'
    BY <2>1, <2>3 DEF SigsInv
  <2> DEFINE L == Lookup(h)
             S == Native("signature")
             B == Behind(h, t)
             T == Times(t)
  <2>5. /\ L \in StepType /\ S \in StepType /\ HashStep \in StepType
        /\ B \in Seq(StepType) /\ T \in Seq(StepType)
        /\ AddSignature(h, t).steps = If(h, <<L>>) \o (<<S>> \o B)
        /\ T # <<>> => T = <<Native("signature.times")>> \o <<>>
        /\ Native("signature.times") \in StepType
    BY <2>1, AddSteps
  <2>6. /\ L.on = "" /\ S.act = "native" /\ S.on = "signature"
        /\ HashStep.act = "native"
        /\ HashStep.on = "signature.hash" /\ HashStep.name = "canonical"
        /\ Native("signature.times").on = "signature.times"
    BY DEF Lookup, Native, HashStep, Named
  <2>7. h # "" => B = <<HashStep>> \o T
    BY DEF Behind, If
  <2>8. h = "" => B = T
    <3>1. <<>> \o T = T
      BY <2>5, Front
    <3> QED BY <3>1 DEF Behind, If
  <2> HIDE DEF L, S, B, T
  <2>9. CASE Asking(h, t) /\ todo = <<S>> \o B
    <3>1. e = S /\ todo' = B
      BY <2>5, <2>9, Front
    <3>2. native'.sigs = Append(native.sigs, "default")
      <4>1. native' = Applied(native, e) /\ e.on = "signature"
        BY <2>6, <3>1
      <4> QED BY <4>1, AppliedSigs
    <3>3. Base(native.sigs)
      BY <2>9 DEF Asking
    <3>4. CASE h # ""
      BY <2>7, <3>1, <3>2, <3>3, <3>4, <1>2 DEF Hashing, T
    <3>5. CASE h = ""
      BY <2>8, <3>1, <3>2, <3>3, <3>5, <1>2 DEF Added, T, Wanted
    <3> QED BY <3>4, <3>5
  <2>10. CASE Asking(h, t) /\ todo # <<S>> \o B
    <3>1. todo = If(h, <<L>>) \o (<<S>> \o B)
      BY <2>5, <2>10 DEF Asking, S, B
    <3>2. <<S>> \o B \in Seq(StepType)
      BY <2>5, Front
    <3>3. h # ""
      <4>1. <<>> \o (<<S>> \o B) = <<S>> \o B
        BY <3>2, <2>5, Front
      <4> QED BY <2>10, <3>1, <4>1 DEF If
    <3>4. todo = <<L>> \o (<<S>> \o B)
      BY <3>1, <3>3 DEF If
    <3>5. e = L /\ todo' = <<S>> \o B
      BY <2>5, <3>2, <3>4, Front
    <3>6. native'.sigs = native.sigs
      BY <1>1, <2>6, <3>5
    <3>7. Base(native.sigs)
      BY <2>10 DEF Asking
    <3> QED BY <1>2, <3>5, <3>6, <3>7 DEF Asking, S, B
  <2>11. CASE Hashing(h, t)
    <3>1. e = HashStep /\ todo' = T
      BY <2>5, <2>11, Front DEF Hashing, T
    <3>2. PICK s : Base(s) /\ native.sigs = Append(s, "default")
      BY <2>11 DEF Hashing
    <3>3. native'.sigs = [native.sigs EXCEPT ![Len(native.sigs)] = "canonical"]
      <4>1. native' = Applied(native, e) /\ e.on = "signature.hash" /\ e.name = "canonical"
        BY <2>6, <3>1
      <4> QED BY <4>1, AppliedSigs
    <3>4. native'.sigs = Append(s, "canonical")
      BY <3>2, <3>3, Overwritten DEF Base, Hash
    <3>5. h # ""
      BY <2>11 DEF Hashing
    <3> QED BY <1>2, <3>1, <3>2, <3>4, <3>5 DEF Added, T, Wanted
  <2>12. CASE Added(h, t)
    <3>1. todo = T /\ T # <<>>
      BY <2>12 DEF Added, T
    <3>2. e = Native("signature.times") /\ todo' = <<>>
      <4>1. <<>> \in Seq(StepType)
        OBVIOUS
      <4> QED BY <2>5, <3>1, <4>1, Front
    <3>3. native'.sigs = native.sigs
      BY <1>1, <2>6, <3>2
    <3> QED BY <1>2, <2>12, <3>2, <3>3 DEF Added
  <2> QED BY <2>2, <2>9, <2>10, <2>11, <2>12
<1> QED BY <1>3, <1>4

LEMMA SigsStep == FlowInv /\ LockInv /\ SigsInv /\ [Next]_vars => SigsInv'
<1> SUFFICES ASSUME FlowInv, LockInv, SigsInv, [Next]_vars
             PROVE  SigsInv'
  OBVIOUS
<1>1. UNCHANGED <<call, todo, native, asked, torn>> => SigsInv'
  BY DEF SigsInv, Base, Asking, Hashing, Added
<1>2. CASE UseStreams \/ Stream \/ UNCHANGED vars
  BY <1>1, <1>2 DEF UseStreams, Stream, vars, ovars
<1>3. CASE Destroy \/ \E k \in Kind : Create(k)
  <2>1. /\ asked' = <<>> /\ torn' = 0 /\ native' = NewNative
        /\ call' = call /\ todo' = todo /\ call = NoCall /\ todo = <<>>
    BY <1>3 DEF Destroy, Create, Afresh, Idle, FlowInv
  <2>2. native'.sigs = <<>>
    BY <2>1 DEF NewNative
  <2>3. Base(native.sigs)'
    BY <2>1, <2>2, NothingMatched DEF Base
  <2> QED BY <2>1, <2>3, Nothing, CleanNothing DEF SigsInv
<1>4. ASSUME kind # "none", NEW m \in Methods[kind] \cup {Execute(kind)}, Call(m)
      PROVE  SigsInv'
  <2>1. kind \in Kind /\ call = NoCall
    BY <1>4 DEF FlowInv, Call, Idle
  <2>2. call' = m /\ todo' = m.steps /\ UNCHANGED <<native, asked, torn>>
    BY <1>4 DEF Call
  <2>3. Base(native.sigs) /\ Base(native.sigs)' = Base(native.sigs)
    BY <2>1, <2>2, Nothing DEF SigsInv, Base
  <2>4. asked' \in Seq(Hash) /\ torn' \in Nat
    BY <2>2 DEF SigsInv
  <2>5. CASE m.name # "addSignature" /\ Clean(m.steps)
    BY <2>2, <2>3, <2>4, <2>5 DEF SigsInv
  <2>6. ASSUME NEW h \in Option, NEW t \in Given, m = AddSignature(h, t)
        PROVE  SigsInv'
    <3>1. call'.name = "addSignature" /\ call'.hash = h
      BY <2>2, <2>6, AddSteps
    <3>2. Asking(h, t)'
      BY <2>2, <2>3, <2>6 DEF Asking
    <3> QED BY <2>4, <3>1, <3>2 DEF SigsInv
  <2> QED BY <1>4, <2>1, <2>5, <2>6, MethodClean
<1>5. CASE TellRnp
  BY <1>5, SigsTold DEF TellRnp
<1>6. CASE LookUp \/ Report \/ GetKey
  <2>1. /\ todo # <<>> /\ todo' = Tail(todo) /\ UNCHANGED <<call, native, asked, torn>>
        /\ Head(todo).act = "lookup" \/ Head(todo).on \in {"report", "key"}
    BY <1>6 DEF LookUp, Report, GetKey
  <2> QED BY <2>1, SigsTold
<1>7. CASE Throw
  <2>1. /\ todo # <<>> /\ call' = NoCall /\ todo' = <<>>
        /\ UNCHANGED <<native, asked>> /\ failed' = call.name
        /\ Head(todo).act # "lookup" => failure' # "lookup"
        /\ torn' = torn + IF failed' = "addSignature" /\ failure' # "lookup" THEN 1 ELSE 0
    BY <1>7 DEF Throw
  <2>2. torn' \in Nat /\ torn' >= torn
    BY <2>1 DEF SigsInv
  <2>3. (call.name = "addSignature" /\ Head(todo).act # "lookup") => torn' = torn + 1
    BY <2>1
  <2>4. Base(native.sigs)'
    BY <2>1, <2>2, <2>3, Torn
  <2> QED BY <2>1, <2>2, <2>4, Nothing, CleanNothing DEF SigsInv
<1>8. CASE Return
  <2>1. /\ call # NoCall /\ todo = <<>> /\ call' = NoCall /\ UNCHANGED <<todo, native, torn>>
        /\ asked' = IF call.name = "addSignature"
                    THEN Append(asked, Wanted(call.hash)) ELSE asked
    BY <1>8 DEF Return, Wanted
  <2>2. CASE call.name # "addSignature"
    <3>1. Base(native.sigs)' = Base(native.sigs)
      BY <2>1, <2>2 DEF Base
    <3> QED BY <2>1, <2>2, <3>1, Nothing DEF SigsInv
  <2>3. CASE call.name = "addSignature"
    <3> DEFINE h == call.hash
    <3>1. h \in Option
      BY <2>3 DEF SigsInv
    <3>2. PICK t \in Given : Asking(h, t) \/ Hashing(h, t) \/ Added(h, t)
      BY <2>3 DEF SigsInv
    <3>3. ~Asking(h, t) /\ ~Hashing(h, t)
      BY <2>1, <3>1, StillToDo DEF Asking, Hashing
    <3>4. PICK s : Base(s) /\ native.sigs = Append(s, Wanted(h))
      BY <3>2, <3>3 DEF Added
    <3> DEFINE x == Wanted(h)
    <3>5. x \in Hash
      BY DEF Wanted, Hash
    <3>6. asked' = Append(asked, x) /\ native'.sigs = Append(s, x)
      BY <2>1, <2>3, <3>4
    <3> HIDE DEF x
    <3>7. s \in Seq(Hash) /\ asked \in Seq(Hash) /\ Matched(s, asked)
      BY <3>4 DEF Base, SigsInv
    <3>8. Matched(Append(s, x), Append(asked, x))
      BY <3>5, <3>7, MatchedMore
    <3>9. /\ Append(s, x) \in Seq(Hash) /\ Append(asked, x) \in Seq(Hash)
          /\ Len(Append(s, x)) - Len(Append(asked, x)) = Len(s) - Len(asked)
      BY <3>5, <3>7
    <3>10. Base(native.sigs)' /\ asked' \in Seq(Hash) /\ torn' \in Nat
      BY <2>1, <3>4, <3>6, <3>8, <3>9 DEF Base, SigsInv
    <3> QED BY <2>1, <3>10, Nothing, CleanNothing DEF SigsInv
  <2> QED BY <2>2, <2>3
<1>9. ASSUME NEW v \in Statuses, RunEnds(v)
      PROVE  SigsInv'
  <2>1. call.name = "execute" /\ todo # <<>>
    BY <1>9, OnlyExecute DEF RunEnds, Running
  <2>2. Len(v) \in Nat
    BY <1>9 DEF Statuses
  <2>3. todo' = Reports(Len(v)) \o Tail(todo) /\ UNCHANGED <<call, native, asked, torn>>
    BY <1>9 DEF RunEnds, Reports
  <2>4. Tail(todo) \in Seq(StepType) /\ Clean(Tail(todo))
    BY <2>1, CleanRest DEF FlowInv, SigsInv
  <2>5. Reports(Len(v)) \in Seq(StepType) /\ Clean(Reports(Len(v)))
    <3>1. Native("report").on = "report"
      BY DEF Native
    <3> QED BY <2>2, <3>1, ReportsShape DEF Reports, Clean
  <2>6. Clean(todo')
    BY <2>3, <2>4, <2>5, CleanJoined
  <2> QED BY <2>1, <2>3, <2>6 DEF SigsInv, Base
<1> QED BY <1>2, <1>3, <1>4, <1>5, <1>6, <1>7, <1>8, <1>9 DEF Next

(***************************************************************************)
(* For any number of calls: whatever failed on the way, the signatures an  *)
(* operation holds are those its addSignature() calls asked for, in their  *)
(* order, and at most one more for each such call that rnp refused.        *)
(***************************************************************************)
THEOREM AlwaysAsAsked == Spec => []SignaturesAsAsked
<1>1. SigsInv => SignaturesAsAsked
  <2> SUFFICES ASSUME SigsInv, call = NoCall
               PROVE  \E kept \in SUBSET DOMAIN native.sigs :
                        /\ Cardinality(kept) = Len(asked)
                        /\ \A i \in kept :
                             native.sigs[i] = asked[Cardinality({j \in kept : j <= i})]
                        /\ Len(native.sigs) - Len(asked) <= torn
    BY DEF SignaturesAsAsked, Idle
  <2>1. Base(native.sigs)
    BY Nothing DEF SigsInv
  <2>2. DOMAIN native.sigs = 1..Len(native.sigs)
    BY <2>1 DEF Base
  <2> QED BY <2>1, <2>2 DEF Base, Matched
<1>2. Init => FlowInv /\ LockInv /\ SigsInv
  BY FlowStart, LockStart, SigsStart
<1>3. FlowInv /\ LockInv /\ SigsInv /\ [Next]_vars => (FlowInv /\ LockInv /\ SigsInv)'
  BY FlowStep, LockStep, SigsStep
<1> QED BY <1>1, <1>2, <1>3, PTL DEF Spec
=============================================================================
