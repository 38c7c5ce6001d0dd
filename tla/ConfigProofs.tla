---------------------------- MODULE ConfigProofs ----------------------------
(***************************************************************************)
(* Main computes what Resolved says, for every set of settings.            *)
(***************************************************************************)
EXTENDS Config, TLAPS

\* Settings as a start is given them: no source says two things of one field.
Proper(given) ==
    \A e \in given :
        /\ e.source \in DOMAIN Fields
        /\ \A d \in given : d.source = e.source /\ d.field = e.field => d = e

Derived == {"socket", "rawSocket", "pid", "log", "auditDir"}

Tomls(given) == Heeded(given, "toml")
Envs(given) == Heeded(given, "env")
Flags(given) == {e \in given : e.source = "flag"}

\* There is nothing to choose in a set of one.
LEMMA ChooseOnly ==
    ASSUME NEW S, NEW e \in S, \A d \in S : d = e
    PROVE  (CHOOSE d \in S : TRUE) = e
  OBVIOUS

-----------------------------------------------------------------------------
(* What With and Derive do to a field                                      *)

\* With keeps the fields, and makes a socket explicit.
LEMMA WithFields ==
    ASSUME NEW c, NEW entries
    PROVE  /\ DOMAIN With(c, entries) = DOMAIN c
           /\ "explicit" \in DOMAIN c =>
                 With(c, entries)["explicit"] =
                     (c["explicit"] \/ \E e \in entries : e.field = "socket")
  BY DEF With

\* The only entry for a field is what the field becomes.
LEMMA WithEntry ==
    ASSUME NEW c, NEW entries, NEW f \in DOMAIN c, f # "explicit",
           NEW e \in entries, e.field = f, \A d \in entries : d.field = f => d = e
    PROVE  With(c, entries)[f] = e.value
<1> DEFINE for == {d \in entries : d.field = f}
<1>1. With(c, entries)[f] = IF for # {} THEN (CHOOSE d \in for : TRUE).value ELSE c[f]
    BY DEF With
<1>2. e \in for /\ \A d \in for : d = e
    OBVIOUS
<1>3. (CHOOSE d \in for : TRUE) = e
    BY <1>2, ChooseOnly
<1> QED
    BY <1>1, <1>2, <1>3

\* Without an entry a field stays.
LEMMA WithNothing ==
    ASSUME NEW c, NEW entries, NEW f \in DOMAIN c, f # "explicit",
           \A d \in entries : d.field # f
    PROVE  With(c, entries)[f] = c[f]
  BY DEF With

\* Derive recomputes the derived paths and nothing else.
LEMMA DeriveFields ==
    ASSUME NEW c, DOMAIN c = DOMAIN Default
    PROVE  /\ DOMAIN Derive(c) = DOMAIN Default
           /\ \A f \in DOMAIN Default \ Derived : Derive(c)[f] = c[f]
           /\ Derive(c)["socket"] = IF c["explicit"] THEN c["socket"]
                                    ELSE Append(c["run"], "daemon.sock")
           /\ Derive(c)["rawSocket"] = Append(c["run"], "raw.sock")
           /\ Derive(c)["pid"] = Append(c["run"], "cognitiveosd.pid")
           /\ Derive(c)["log"] = Append(c["logs"], "cognitiveosd.log")
           /\ Derive(c)["auditDir"] = Beside(c["run"], "audit")
  BY DEF Derive, Default, Derived

-----------------------------------------------------------------------------
(* What is said of a field                                                 *)

\* A flag has the last word.
LEMMA SaidByFlag ==
    ASSUME NEW given, Proper(given), NEW e \in Flags(given)
    PROVE  Said(given, e.field) = e.value
<1> DEFINE by == {d \in Counting(given, e.field) : d.source = "flag"}
<1>1. e \in by /\ \A d \in by : d = e
    BY DEF Counting, Proper, Flags
<1>2. (CHOOSE d \in by : TRUE) = e
    BY <1>1, ChooseOnly
<1> QED
    BY <1>1, <1>2 DEF Said

\* Then a variable.
LEMMA SaidByEnv ==
    ASSUME NEW given, Proper(given), NEW e \in Envs(given),
           \A d \in Flags(given) : d.field # e.field
    PROVE  Said(given, e.field) = e.value
<1> DEFINE by(s) == {d \in Counting(given, e.field) : d.source = s}
<1>1. by("flag") = {}
    BY DEF Counting, Flags
<1>2. e \in by("env") /\ \A d \in by("env") : d = e
    BY DEF Counting, Proper, Envs, Heeded
<1>3. (CHOOSE d \in by("env") : TRUE) = e
    BY <1>2, ChooseOnly
<1> QED
    BY <1>1, <1>2, <1>3 DEF Said

\* Then the TOML file.
LEMMA SaidByToml ==
    ASSUME NEW given, Proper(given), NEW e \in Tomls(given),
           \A d \in Flags(given) \cup Envs(given) : d.field # e.field
    PROVE  Said(given, e.field) = e.value
<1> DEFINE by(s) == {d \in Counting(given, e.field) : d.source = s}
<1>1. by("flag") = {} /\ by("env") = {}
    BY DEF Counting, Flags, Envs, Heeded
<1>2. e \in by("toml") /\ \A d \in by("toml") : d = e
    BY DEF Counting, Proper, Tomls, Heeded
<1>3. (CHOOSE d \in by("toml") : TRUE) = e
    BY <1>2, ChooseOnly
<1> QED
    BY <1>1, <1>2, <1>3 DEF Said

\* Otherwise it is the default.
LEMMA SaidByNobody ==
    ASSUME NEW given, NEW f,
           \A d \in Flags(given) \cup Envs(given) \cup Tomls(given) : d.field # f
    PROVE  Said(given, f) = Default[f]
<1> DEFINE by(s) == {d \in Counting(given, f) : d.source = s}
<1>1. by("flag") = {} /\ by("env") = {} /\ by("toml") = {}
    BY DEF Counting, Flags, Envs, Tomls, Heeded
<1> QED
    BY <1>1 DEF Said

-----------------------------------------------------------------------------
(* Main                                                                    *)

\* What main has after its flags, before it derives the paths for the second time.
Named(given) == With(FromEnv(given), Flags(given))

\* A setting counts as one of the TOML file, of the environment or of the flags.
LEMMA CountingSources ==
    ASSUME NEW given, Proper(given), NEW f
    PROVE  Counting(given, f) # {} <=>
               \E e \in Flags(given) \cup Envs(given) \cup Tomls(given) : e.field = f
<1>1. \A e \in given : e.source \in {"toml", "env", "flag"}
    BY DEF Proper, Fields
<1> QED
    BY <1>1 DEF Counting, Flags, Envs, Tomls, Heeded

\* The fields are always the same, and a socket that was named is explicit.
LEMMA NamedFields ==
    ASSUME NEW given
    PROVE  /\ DOMAIN FromTOML(given) = DOMAIN Default
           /\ DOMAIN With(FromTOML(given), Envs(given)) = DOMAIN Default
           /\ DOMAIN FromEnv(given) = DOMAIN Default
           /\ DOMAIN Named(given) = DOMAIN Default
           /\ FromTOML(given)["explicit"] = (\E e \in Tomls(given) : e.field = "socket")
           /\ With(FromTOML(given), Envs(given))["explicit"] =
                 (\E e \in Tomls(given) \cup Envs(given) : e.field = "socket")
           /\ Named(given)["explicit"] =
                 (\E e \in Flags(given) \cup Envs(given) \cup Tomls(given) : e.field = "socket")
<1> DEFINE a == FromTOML(given)
           b == With(a, Envs(given))
<1>0. "explicit" \in DOMAIN Default /\ Default["explicit"] = FALSE
      /\ "explicit" \notin Derived
    BY DEF Default, Derived
<1>1. a = With(Default, Tomls(given)) /\ FromEnv(given) = Derive(b)
    BY DEF FromTOML, FromEnv, Tomls, Envs
<1>2. /\ DOMAIN a = DOMAIN Default
      /\ a["explicit"] = (\E e \in Tomls(given) : e.field = "socket")
    BY <1>0, <1>1, WithFields
<1> HIDE DEF a
<1>3. /\ DOMAIN b = DOMAIN Default
      /\ b["explicit"] = (\E e \in Tomls(given) \cup Envs(given) : e.field = "socket")
    BY <1>0, <1>2, WithFields
<1> HIDE DEF b
<1>4. DOMAIN Derive(b) = DOMAIN Default /\ Derive(b)["explicit"] = b["explicit"]
    BY <1>0, <1>3, DeriveFields
<1>5. /\ DOMAIN Named(given) = DOMAIN Default
      /\ Named(given)["explicit"] =
             (Derive(b)["explicit"] \/ \E e \in Flags(given) : e.field = "socket")
    BY <1>0, <1>1, <1>4, WithFields DEF Named
<1> QED
    BY <1>1, <1>2, <1>3, <1>4, <1>5 DEF a, b

\* Before the paths are derived for the second time every other setting, and a socket
\* that was named, is what was said last.
LEMMA NamedIsSaid ==
    ASSUME NEW given, Proper(given), NEW f \in DOMAIN Default \ {"explicit"},
           f \notin Derived \/ (f = "socket" /\ Counting(given, "socket") # {})
    PROVE  Named(given)[f] = Said(given, f)
<1> DEFINE a == FromTOML(given)
           b == With(a, Envs(given))
           c == FromEnv(given)
<1>1. a = With(Default, Tomls(given)) /\ c = Derive(b)
    BY DEF FromTOML, FromEnv, Tomls, Envs
<1>2. DOMAIN a = DOMAIN Default /\ DOMAIN b = DOMAIN Default /\ DOMAIN c = DOMAIN Default
    BY NamedFields
<1>3. /\ f \notin Derived => c[f] = b[f]
      /\ b["explicit"] => c["socket"] = b["socket"]
    BY <1>1, <1>2, DeriveFields
<1>4. b["explicit"] = (\E e \in Tomls(given) \cup Envs(given) : e.field = "socket")
    BY NamedFields
<1> HIDE DEF a, b, c
<1>5. CASE \E e \in Flags(given) : e.field = f
  <2>1. PICK e \in Flags(given) : e.field = f
      BY <1>5
  <2>2. \A d \in Flags(given) : d.field = f => d = e
      BY <2>1 DEF Proper, Flags
  <2>3. With(c, Flags(given))[f] = e.value
      BY <1>2, <2>1, <2>2, WithEntry
  <2> QED
      BY <2>1, <2>3, SaidByFlag DEF Named, c
<1>6. CASE \A d \in Flags(given) : d.field # f
  <2>1. Named(given)[f] = c[f]
      BY <1>2, <1>6, WithNothing DEF Named, c
  <2>2. CASE \E e \in Envs(given) : e.field = f
    <3>1. PICK e \in Envs(given) : e.field = f
        BY <2>2
    <3>2. \A d \in Envs(given) : d.field = f => d = e
        BY <3>1 DEF Proper, Envs, Heeded
    <3>3. b[f] = e.value
        BY <1>2, <3>1, <3>2, WithEntry DEF b
    <3>4. c[f] = b[f]
        BY <1>3, <1>4, <3>1
    <3> QED
        BY <1>6, <2>1, <3>1, <3>3, <3>4, SaidByEnv
  <2>3. CASE \A d \in Envs(given) : d.field # f
    <3>1. b[f] = a[f]
        BY <1>2, <2>3, WithNothing DEF b
    <3>2. CASE \E e \in Tomls(given) : e.field = f
      <4>1. PICK e \in Tomls(given) : e.field = f
          BY <3>2
      <4>2. \A d \in Tomls(given) : d.field = f => d = e
          BY <4>1 DEF Proper, Tomls, Heeded
      <4>3. a[f] = e.value
          BY <1>1, <4>1, <4>2, WithEntry
      <4>4. c[f] = b[f]
          BY <1>3, <1>4, <4>1
      <4> QED
          BY <1>6, <2>1, <2>3, <3>1, <4>1, <4>3, <4>4, SaidByToml
    <3>3. CASE \A d \in Tomls(given) : d.field # f
      <4>1. a[f] = Default[f]
          BY <1>1, <3>3, WithNothing
      <4>2. \A d \in Flags(given) \cup Envs(given) \cup Tomls(given) : d.field # f
          BY <1>6, <2>3, <3>3
      <4>3. f \notin Derived
          BY <4>2, CountingSources
      <4>4. c[f] = b[f]
          BY <1>3, <4>3
      <4> QED
          BY <2>1, <3>1, <4>1, <4>2, <4>4, SaidByNobody
    <3> QED
        BY <3>2, <3>3
  <2> QED
      BY <2>2, <2>3
<1> QED
    BY <1>5, <1>6

\* main hands over what the precedence of flags, environment, TOML file and defaults
\* says, whatever it is given.
THEOREM MainResolves ==
    ASSUME NEW given, Proper(given)
    PROVE  Main(given) = Resolved(given)
<1> DEFINE m == Named(given)
<1>1. Main(given) = Derive(m)
    BY DEF Main, Named, Flags
<1>2. DOMAIN m = DOMAIN Default /\ m["explicit"] = (Counting(given, "socket") # {})
    BY NamedFields, CountingSources
<1>3. /\ \A f \in DOMAIN Default \ (Derived \cup {"explicit"}) : m[f] = Said(given, f)
      /\ Counting(given, "socket") # {} => m["socket"] = Said(given, "socket")
      /\ m["run"] = Said(given, "run") /\ m["logs"] = Said(given, "logs")
    BY NamedIsSaid DEF Default, Derived
<1> HIDE DEF m
<1>4. DOMAIN Derive(m) = DOMAIN Resolved(given)
    BY <1>2, DeriveFields DEF Resolved
<1>5. \A f \in DOMAIN Default : Derive(m)[f] = Resolved(given)[f]
  <2> TAKE f \in DOMAIN Default
  <2>1. CASE f \notin Derived \cup {"explicit"}
      BY <1>2, <1>3, <2>1, DeriveFields DEF Resolved, Derived
  <2>2. CASE f = "explicit"
      BY <1>2, <2>2, DeriveFields DEF Resolved, Derived
  <2>3. CASE f = "socket"
      BY <1>2, <1>3, <2>3, DeriveFields DEF Resolved
  <2>4. CASE f \in {"rawSocket", "pid", "log", "auditDir"}
      BY <1>2, <1>3, <2>4, DeriveFields DEF Resolved
  <2> QED
      BY <2>1, <2>2, <2>3, <2>4 DEF Derived
<1>6. Derive(m) = [f \in DOMAIN Default |-> Derive(m)[f]]
    BY <1>2, DeriveFields DEF Derive
<1>7. Resolved(given) = [f \in DOMAIN Default |-> Resolved(given)[f]]
    BY DEF Resolved
<1> QED
    BY <1>1, <1>5, <1>6, <1>7
=============================================================================
