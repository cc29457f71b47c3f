--------------------------- MODULE PipelineProofs ---------------------------
(***************************************************************************)
(* Theorems about Pipeline, for applications of any number of blocks, any  *)
(* routes and any wiring of the hosts: its state is well typed, the two    *)
(* readings of the routes agree, a host that acts on what it was told      *)
(* finds a live queue pair until the process is over (in main.cc's         *)
(* application for good), and a running pipeline is wired up.              *)
(***************************************************************************)
EXTENDS Pipeline, Arithmetic, SequenceTheorems

----------------------------------------------------------------------------
(* Facts about the setup and about loops.                                  *)

\* The parts of a setup, and its blocks by number.
LEMMA SetupFacts ==
  ASSUME setup \in Setups
  PROVE  /\ N \in Nat /\ Blocks = 1 .. N
         /\ setup.kind \in [Blocks -> Kinds]
         /\ setup.quota \in [Blocks -> Nat]
         /\ setup.handlers \in [Blocks -> {"none", "some", "all"}]
         /\ setup.name \in [Blocks -> STRING]
         /\ DOMAIN setup.total \subseteq Kinds /\ setup.total \in [DOMAIN setup.total -> Nat]
         /\ setup.graph \in Seq([component : STRING, entries : Seq(CtrlEntry)])
         /\ \A h \in Hosts : setup.wires[h] \subseteq Blocks
         /\ setup.throws \in BOOLEAN
<1>1. /\ setup.kind \in Seq(Kinds)
      /\ setup.quota \in Seq(Nat) /\ Len(setup.quota) = Len(setup.kind)
      /\ setup.handlers \in Seq({"none", "some", "all"})
      /\ Len(setup.handlers) = Len(setup.kind)
      /\ setup.name \in Seq(STRING) /\ Len(setup.name) = Len(setup.kind)
      /\ DOMAIN setup.total \subseteq Kinds /\ setup.total \in [DOMAIN setup.total -> Nat]
      /\ setup.graph \in Seq([component : STRING, entries : Seq(CtrlEntry)])
      /\ \A h \in Hosts : setup.wires[h] \subseteq DOMAIN setup.kind
      /\ setup.throws \in BOOLEAN
  BY SetupAssumption
<1>2. N \in Nat /\ Blocks = 1 .. N
  BY <1>1, LenProperties DEF N, Blocks
<1>3. /\ setup.kind \in [1 .. N -> Kinds]
      /\ setup.quota \in [1 .. N -> Nat]
      /\ setup.handlers \in [1 .. N -> {"none", "some", "all"}]
      /\ setup.name \in [1 .. N -> STRING]
  BY <1>1, LenProperties DEF N
<1> QED
  BY <1>1, <1>2, <1>3 DEF Blocks

\* A loop over a map goes on to a block in it, behind the ones it has seen.
LEMMA NextPosition ==
  ASSUME TypeOK, NEW S, S \subseteq Blocks, Rest(S) # {}
  PROVE  /\ Position(S) \in S /\ order[Position(S)] \in Blocks
         /\ Position(S) + 1 \in 1 .. N + 1
<1>1. N \in Nat /\ Blocks = 1 .. N /\ order \in [Blocks -> Blocks]
  BY SetupFacts DEF TypeOK
<1>2. Rest(S) \subseteq S
  BY DEF Rest
<1>3. Rest(S) \subseteq Nat
  <2>1. 1 .. N \subseteq Nat
    BY <1>1
  <2> QED
    BY <1>1, <1>2, <2>1, Zenon
<1>4. Position(S) \in S
  BY <1>2, <1>3, LeastMember DEF Position
<1>5. Position(S) \in Blocks
  BY <1>4
<1> HIDE DEF Position, Blocks, N
<1> QED
  BY <1>1, <1>4, <1>5

\* A set of positions that is not empty has a greatest member.
LEMMA GreatestMember ==
  ASSUME NEW n \in Nat, NEW S, S \subseteq 1 .. n, S # {}
  PROVE  Max(S) \in S
<1> DEFINE T == {n - x : x \in S}
<1>1. T \subseteq Nat /\ T # {}
  <2>1. \A x \in S : n - x \in Nat
    OBVIOUS
  <2>2. T # {}
    OBVIOUS
  <2> QED
    BY <2>1, <2>2
<1>2. Min(T) \in T /\ \A x \in T : Min(T) <= x
  BY <1>1, LeastMember
<1>3. PICK x \in S : Min(T) = n - x
  BY <1>2
<1>4. \A y \in S : n - x <= n - y
  BY <1>2, <1>3
<1>5. \A y \in S : x >= y
  BY <1>4
<1> QED
  BY <1>5 DEF Max

----------------------------------------------------------------------------
(* The routes of a description.                                            *)

Elems(s) == {s[i] : i \in DOMAIN s}

\* Two lists of rules in a row.
LEMMA ElemsJoin ==
  ASSUME NEW T, NEW a \in Seq(T), NEW b \in Seq(T)
  PROVE  a \o b \in Seq(T) /\ Elems(a \o b) = Elems(a) \cup Elems(b)
<1> DEFINE c == a \o b
           m == Len(a)
           n == Len(b)
<1>1. /\ c \in Seq(T) /\ m \in Nat /\ n \in Nat /\ Len(c) = m + n
      /\ DOMAIN a = 1 .. m /\ DOMAIN b = 1 .. n /\ DOMAIN c = 1 .. m + n
      /\ \A i \in 1 .. m + n : c[i] = IF i <= m THEN a[i] ELSE b[i - m]
  BY ConcatProperties, LenProperties
<1> HIDE DEF c, m, n
<1>2. ASSUME NEW i \in 1 .. m + n
      PROVE  c[i] \in Elems(a) \cup Elems(b)
  <2>1. CASE i <= m
    <3>1. i \in DOMAIN a /\ c[i] = a[i]
      BY <1>1, <2>1
    <3> QED
      BY <3>1 DEF Elems
  <2>2. CASE ~(i <= m)
    <3>1. i - m \in DOMAIN b /\ c[i] = b[i - m]
      BY <1>1, <2>2
    <3> QED
      BY <3>1 DEF Elems
  <2> QED
    BY <2>1, <2>2
<1>3. ASSUME NEW i \in 1 .. m
      PROVE  a[i] \in Elems(c)
  <2>1. i \in DOMAIN c /\ c[i] = a[i]
    BY <1>1
  <2> QED
    BY <2>1 DEF Elems
<1>4. ASSUME NEW i \in 1 .. n
      PROVE  b[i] \in Elems(c)
  <2>1. m + i \in 1 .. m + n /\ ~(m + i <= m) /\ (m + i) - m = i
    BY <1>1
  <2>2. m + i \in DOMAIN c /\ c[m + i] = b[i]
    BY <1>1, <2>1
  <2> QED
    BY <2>2 DEF Elems
<1> QED
  BY <1>1, <1>2, <1>3, <1>4 DEF Elems, c

Descriptions == Seq([component : STRING, entries : Seq(CtrlEntry)])

\* The entries of a component, of its last item if there are several.
LEMMA EntriesTyped ==
  ASSUME NEW graph \in Descriptions, NEW name
  PROVE  CtrlEntries(graph, name) \in Seq(CtrlEntry)
<1>1. CASE Items(graph, name) = {}
  BY <1>1 DEF CtrlEntries
<1>2. CASE Items(graph, name) # {}
  <2> DEFINE k == Max(Items(graph, name))
  <2>1. Len(graph) \in Nat /\ DOMAIN graph = 1 .. Len(graph)
        /\ \A i \in 1 .. Len(graph) : graph[i] \in [component : STRING, entries : Seq(CtrlEntry)]
    BY LenProperties DEF Descriptions
  <2>2. Items(graph, name) \subseteq 1 .. Len(graph)
    BY <2>1 DEF Items
  <2>3. k \in Items(graph, name)
    BY <1>2, <2>1, <2>2, GreatestMember
  <2>4. k \in 1 .. Len(graph)
    BY <2>2, <2>3
  <2> HIDE DEF k
  <2>5. graph[k].entries \in Seq(CtrlEntry)
    BY <2>1, <2>4
  <2>6. CtrlEntries(graph, name) = graph[k].entries
    BY <1>2 DEF CtrlEntries, k
  <2> QED
    BY <2>5, <2>6
<1> QED
  BY <1>1, <1>2

\* The entries from which __init_retval_mappings takes a return value.
Counted(entry) ==
  entry.match.field = "retval" /\ entry.match.op = "=" /\ IsInt(entry.match.value)

\* The conditions from which load_from_app_dag takes the same.
Taken(condition) == Numeric(condition) /\ IsInt(condition.value)

\* Both readers take the same return value from an entry whose number is an
\* int: what std::stoi can return, std::stoul can.
LEMMA ReadAlike ==
  ASSUME NEW entry \in CtrlEntry, NEW name
  PROVE  /\ DAGEdgeRule(name, entry).source = name
         /\ DAGEdgeRule(name, entry).kernel_retval \in Retvals
         /\ Taken(DAGEdgeRule(name, entry).condition) <=> Counted(entry)
         /\ Counted(entry) =>
              DAGEdgeRule(name, entry).kernel_retval = Narrow(entry.match.value.is)
         /\ Narrow(entry.match.value.is) \in Retvals
<1> DEFINE match == entry.match
           c == ParseMatchCondition(match)
<1>1. match.op \in Operators /\ match.value.is \in Int
  BY DEF CtrlEntry
<1>2. /\ DAGEdgeRule(name, entry).source = name
      /\ DAGEdgeRule(name, entry).condition = c
      /\ DAGEdgeRule(name, entry).kernel_retval = ExtractRetval(c)
  BY DEF DAGEdgeRule
<1>3. Narrow(match.value.is) \in Retvals
  BY <1>1 DEF Narrow, Retvals
<1>4. c.value = match.value
  BY DEF ParseMatchCondition
<1>5. c.field = "retval" /\ c.operator_type = "=" <=> match.field = "retval" /\ match.op = "="
  BY <1>1 DEF ParseMatchCondition, Operators
<1>6. Taken(c) <=> Counted(entry)
  <2>1. IsInt(match.value) => IsUlong(match.value)
    BY <1>1, WidthAssumption DEF IsInt, IsUlong
  <2> QED
    BY <1>4, <1>5, <2>1 DEF Numeric, Counted, Taken
<1>7. ExtractRetval(c) = IF Numeric(c) THEN Narrow(match.value.is) ELSE 0
  BY <1>4 DEF ExtractRetval
<1>8. 0 \in Retvals
  BY DEF Retvals
<1>9. Counted(entry) => Numeric(c)
  BY <1>6 DEF Taken
<1> QED
  BY <1>2, <1>3, <1>6, <1>7, <1>8, <1>9

\* What the two readings make of the entries of one component.
RetvalsOf(graph, name) ==
  {Narrow(e.match.value.is) : e \in {x \in Elems(CtrlEntries(graph, name)) : Counted(x)}}

\* The rules that a description can give.
Rules == {DAGEdgeRule(m, e) : m \in KnownNames, e \in CtrlEntry}

\* The rules of one component.
LEMMA RulesTyped ==
  ASSUME NEW graph \in Descriptions, NEW name
  PROVE  /\ name \in KnownNames => RulesOf(graph, name) \in Seq(Rules)
         /\ Elems(RulesOf(graph, name)) =
              {DAGEdgeRule(name, e) : e \in Elems(CtrlEntries(graph, name))}
<1> DEFINE s == CtrlEntries(graph, name)
           r == RulesOf(graph, name)
<1>1. s \in Seq(CtrlEntry)
  BY EntriesTyped
<1>2. r = [i \in DOMAIN s |-> DAGEdgeRule(name, s[i])]
  BY DEF RulesOf
<1> HIDE DEF s, r
<1>3. DOMAIN s = 1 .. Len(s) /\ Len(s) \in Nat /\ \A i \in DOMAIN s : s[i] \in CtrlEntry
  BY <1>1, LenProperties
<1>5. ASSUME name \in KnownNames
      PROVE  r \in Seq(Rules)
  <2>1. r \in [1 .. Len(s) -> Rules]
    BY <1>2, <1>3, <1>5 DEF Rules
  <2> QED
    BY <1>3, <2>1, SeqDef
<1>6. Elems(r) = {DAGEdgeRule(name, e) : e \in Elems(s)}
  BY <1>2, <1>3 DEF Elems
<1> QED
  BY <1>5, <1>6 DEF s, r

\* The rules of the whole graph are those of the known components.
LEMMA LoadedRules ==
  ASSUME NEW graph \in Descriptions
  PROVE  Elems(LoadFromAppDag(graph)) = UNION {Elems(RulesOf(graph, m)) : m \in KnownNames}
<1> DEFINE A == RulesOf(graph, "root")
           B == RulesOf(graph, "soc")
           C == RulesOf(graph, "dpa")
           D == RulesOf(graph, "flow_engine")
           E == RulesOf(graph, "decompress")
           F == RulesOf(graph, "sha")
           P2 == A \o B
           P3 == P2 \o C
           P4 == P3 \o D
           P5 == P4 \o E
           P6 == P5 \o F
<1>1. \A m \in KnownNames : RulesOf(graph, m) \in Seq(Rules)
  BY RulesTyped
<1>2. /\ A \in Seq(Rules) /\ B \in Seq(Rules) /\ C \in Seq(Rules)
      /\ D \in Seq(Rules) /\ E \in Seq(Rules) /\ F \in Seq(Rules)
  BY <1>1 DEF KnownNames
<1>3. LoadFromAppDag(graph) = P6
  BY DEF LoadFromAppDag
<1>4. {Elems(RulesOf(graph, m)) : m \in KnownNames} =
        {Elems(A), Elems(B), Elems(C), Elems(D), Elems(E), Elems(F)}
  BY DEF KnownNames
<1> HIDE DEF A, B, C, D, E, F
<1>5. P2 \in Seq(Rules) /\ Elems(P2) = Elems(A) \cup Elems(B)
  BY <1>2, ElemsJoin
<1> HIDE DEF P2
<1>6. P3 \in Seq(Rules) /\ Elems(P3) = Elems(P2) \cup Elems(C)
  BY <1>2, <1>5, ElemsJoin
<1> HIDE DEF P3
<1>7. P4 \in Seq(Rules) /\ Elems(P4) = Elems(P3) \cup Elems(D)
  BY <1>2, <1>6, ElemsJoin
<1> HIDE DEF P4
<1>8. P5 \in Seq(Rules) /\ Elems(P5) = Elems(P4) \cup Elems(E)
  BY <1>2, <1>7, ElemsJoin
<1> HIDE DEF P5
<1>9. Elems(P6) = Elems(P5) \cup Elems(F)
  BY <1>2, <1>8, ElemsJoin
<1> HIDE DEF P6
<1> QED
  BY <1>3, <1>4, <1>5, <1>6, <1>7, <1>8, <1>9

\* Every rule carries a return value of 8 bits.
LEMMA LoadedRetvals ==
  ASSUME NEW graph \in Descriptions, NEW i \in DOMAIN LoadFromAppDag(graph)
  PROVE  LoadFromAppDag(graph)[i].kernel_retval \in Retvals
<1> DEFINE rs == LoadFromAppDag(graph)
<1>1. rs[i] \in Elems(rs)
  BY DEF Elems
<1>2. PICK m \in KnownNames : rs[i] \in Elems(RulesOf(graph, m))
  BY <1>1, LoadedRules
<1>6. Elems(RulesOf(graph, m)) = {DAGEdgeRule(m, e) : e \in Elems(CtrlEntries(graph, m))}
  BY RulesTyped
<1>3. PICK e \in Elems(CtrlEntries(graph, m)) : rs[i] = DAGEdgeRule(m, e)
  BY <1>2, <1>6
<1>4. e \in CtrlEntry
  <2>1. CtrlEntries(graph, m) \in Seq(CtrlEntry)
    BY EntriesTyped
  <2> QED
    BY <2>1, LenProperties DEF Elems
<1> HIDE DEF rs
<1>5. rs[i].kernel_retval \in Retvals
  BY <1>3, <1>4, ReadAlike
<1> QED
  BY <1>5 DEF rs

\* The rules of a known component that forward on an int name the return values
\* that its entries do.
LEMMA LoadedAgree ==
  ASSUME NEW graph \in Descriptions, NEW name \in KnownNames
  PROVE  LET rs == LoadFromAppDag(graph)
         IN {rs[i].kernel_retval : i \in {j \in DOMAIN rs :
               rs[j].source = name /\ Taken(rs[j].condition)}} = RetvalsOf(graph, name)
<1> DEFINE rs == LoadFromAppDag(graph)
           L == {rs[i].kernel_retval : i \in {j \in DOMAIN rs :
                   rs[j].source = name /\ Taken(rs[j].condition)}}
<1>1. Elems(rs) = UNION {Elems(RulesOf(graph, m)) : m \in KnownNames}
  BY LoadedRules
<1> HIDE DEF rs
<1>2. \A m : Elems(RulesOf(graph, m)) = {DAGEdgeRule(m, e) : e \in Elems(CtrlEntries(graph, m))}
  BY RulesTyped
<1>3. ASSUME NEW m, NEW e \in Elems(CtrlEntries(graph, m))
      PROVE  e \in CtrlEntry
  <2>1. CtrlEntries(graph, m) \in Seq(CtrlEntry)
    BY EntriesTyped
  <2> QED
    BY <2>1, LenProperties DEF Elems
<1>4. ASSUME NEW i \in DOMAIN rs, rs[i].source = name, Taken(rs[i].condition)
      PROVE  rs[i].kernel_retval \in RetvalsOf(graph, name)
  <2>1. PICK m \in KnownNames : rs[i] \in Elems(RulesOf(graph, m))
    BY <1>1 DEF Elems
  <2>2. PICK e \in Elems(CtrlEntries(graph, m)) : rs[i] = DAGEdgeRule(m, e)
    BY <1>2, <2>1
  <2>3. /\ DAGEdgeRule(m, e).source = m
        /\ Taken(DAGEdgeRule(m, e).condition) <=> Counted(e)
        /\ Counted(e) => DAGEdgeRule(m, e).kernel_retval = Narrow(e.match.value.is)
    BY <1>3, <2>2, ReadAlike
  <2>4. m = name /\ Counted(e) /\ rs[i].kernel_retval = Narrow(e.match.value.is)
    BY <1>4, <2>2, <2>3
  <2> QED
    BY <2>2, <2>4 DEF RetvalsOf
<1>5. ASSUME NEW e \in Elems(CtrlEntries(graph, name)), Counted(e)
      PROVE  Narrow(e.match.value.is) \in L
  <2>1. DAGEdgeRule(name, e) \in Elems(rs)
    BY <1>1, <1>2
  <2>2. PICK i \in DOMAIN rs : rs[i] = DAGEdgeRule(name, e)
    BY <2>1 DEF Elems
  <2>3. /\ rs[i].source = name /\ Taken(rs[i].condition)
        /\ rs[i].kernel_retval = Narrow(e.match.value.is)
    BY <1>3, <1>5, <2>2, ReadAlike
  <2> QED
    BY <2>3
<1>6. L = RetvalsOf(graph, name)
  BY <1>4, <1>5 DEF RetvalsOf
<1> QED
  BY <1>6 DEF rs

\* The router of a block maps exactly those return values, all to its channel.
LEMMA MappingAgrees ==
  ASSUME NEW graph \in Descriptions, NEW name, NEW channel
  PROVE  /\ DOMAIN Registered(graph, name, channel).map = RetvalsOf(graph, name)
         /\ RetvalsOf(graph, name) \subseteq Retvals
         /\ Registered(graph, name, channel).default = channel
         /\ \A r : LookupChannel(Registered(graph, name, channel), r) = channel
<1> DEFINE s == CtrlEntries(graph, name)
           counted == {i \in DOMAIN s : Counted(s[i])}
           D == {Narrow(s[i].match.value.is) : i \in counted}
<1>1. Mapping(graph, name, channel) = [r \in D |-> channel]
  BY DEF Mapping, Counted
<1>2. D = RetvalsOf(graph, name)
  BY DEF RetvalsOf, Elems
<1>3. ASSUME NEW e \in Elems(s)
      PROVE  Narrow(e.match.value.is) \in Retvals
  <2>1. e \in CtrlEntry
    BY EntriesTyped, LenProperties DEF Elems
  <2> QED
    BY <2>1, ReadAlike
<1> HIDE DEF D
<1>4. /\ Registered(graph, name, channel).map = [r \in D |-> channel]
      /\ Registered(graph, name, channel).default = channel
  BY <1>1 DEF Registered
<1> QED
  BY <1>2, <1>3, <1>4 DEF LookupChannel, RetvalsOf

----------------------------------------------------------------------------
(* Types, by groups of variables.                                          *)

TCore ==
  /\ setup \in Setups /\ order \in [Blocks -> Blocks]
  /\ pc \in Building \cup Final \cup {"running"}
  /\ at \in 1 .. N + 1 /\ ok \in BOOLEAN

TPool ==
  /\ pool \in [DOMAIN setup.total -> Nat]
  /\ block \in [Blocks -> {"none", "held", "refused", "returned"}]

TReg ==
  /\ registered \subseteq Blocks
  /\ wrap \in [Blocks -> {"none", "ready", "broken", "freed"}]

TRoute ==
  /\ routed \subseteq Blocks
  /\ \A i \in DOMAIN rules : rules[i].kernel_retval \in Retvals
  /\ DOMAIN routes = Blocks
  /\ \A b \in Blocks : /\ routes[b].default \in Blocks \cup {0}
                       /\ DOMAIN routes[b].map \subseteq Retvals

QpState == [st : {"RESET", "INIT", "RTR", "RTS"}, peer : Hosts \cup {"none", "nobody"},
            filled : BOOLEAN, connected : BOOLEAN]

TLink ==
  /\ tied \subseteq Hosts
  /\ todo \in Seq(Sides \X (Hosts \cup {"block"}))
  /\ qp \in [Blocks -> [Sides -> QpState]]

TInfo == info \in [Hosts -> {"none", "real", "zero"}]
TSent == sent \in [Hosts -> Seq(Blocks)]

THost ==
  /\ host \in [Hosts -> {"waiting", "absent", "open", "greeted", "ready", "gone", "left"}]
  /\ partner \in [Hosts -> Blocks \cup {0}]

\* The groups make up the type invariant.
LEMMA TypeParts ==
  TypeOK <=> TCore /\ TPool /\ TReg /\ TRoute /\ TLink /\ TInfo /\ TSent /\ THost
BY DEF TypeOK, TCore, TPool, TReg, TRoute, TLink, TInfo, TSent, THost, QpState

\* The same of the next state.
LEMMA TypePartsNext ==
  TypeOK' <=> TCore' /\ TPool' /\ TReg' /\ TRoute' /\ TLink' /\ TInfo' /\ TSent' /\ THost'
BY TypeParts, PTL

\* What a step leaves alone keeps its type.
LEMMA TypesKept ==
  ASSUME TypeOK, setup' = setup
  PROVE  /\ Blocks' = Blocks /\ N' = N
         /\ UNCHANGED pool_vars => TPool'
         /\ UNCHANGED <<registered, wrap>> => TReg'
         /\ UNCHANGED route_vars => TRoute'
         /\ UNCHANGED link_vars => TLink'
         /\ UNCHANGED info => TInfo'
         /\ UNCHANGED sent => TSent'
         /\ UNCHANGED host_vars => THost'
<1>1. Blocks' = Blocks /\ N' = N
  BY DEF Blocks, N
<1>2. TCore /\ TPool /\ TReg /\ TRoute /\ TLink /\ TInfo /\ TSent /\ THost
  BY TypeParts
<1> HIDE DEF Blocks, N
<1>3. UNCHANGED pool_vars => TPool'
  BY <1>1, <1>2 DEF pool_vars, TPool
<1>4. UNCHANGED <<registered, wrap>> => TReg'
  BY <1>1, <1>2 DEF TReg
<1>5. UNCHANGED route_vars => TRoute'
  BY <1>1, <1>2 DEF route_vars, TRoute
<1>6. UNCHANGED link_vars => TLink'
  BY <1>1, <1>2 DEF link_vars, TLink
<1>7. /\ UNCHANGED info => TInfo'
      /\ UNCHANGED sent => TSent'
      /\ UNCHANGED host_vars => THost'
  BY <1>1, <1>2 DEF TInfo, TSent, THost, host_vars
<1> QED
  BY <1>1, <1>3, <1>4, <1>5, <1>6, <1>7

\* A step to another label, at the start of its loop or further on in it.
LEMMA CoreKept ==
  ASSUME TypeOK, UNCHANGED <<setup, order>>, ok' \in BOOLEAN,
         pc' \in Building \cup Final \cup {"running"}, at' \in 1 .. N + 1
  PROVE  TCore'
<1>1. Blocks' = Blocks /\ N' = N
  BY DEF Blocks, N
<1> HIDE DEF Blocks, N
<1> QED
  BY <1>1 DEF TCore, TypeOK

\* What is left of the queue pairs when the process is over.
LEMMA NoQpsTyped == NoQps \in [Blocks -> [Sides -> QpState]]
BY DEF NoQps, Bare, QpState

\* The initial state is well typed.
LEMMA TypeInit == Init => TypeOK
<1> SUFFICES ASSUME Init
             PROVE  TypeOK
  OBVIOUS
<1>1. setup \in Setups
  BY DEF Init
<1>2. /\ N \in Nat /\ Blocks = 1 .. N
      /\ setup.total \in [DOMAIN setup.total -> Nat]
  BY <1>1, SetupFacts
<1>3. TCore
  <2>1. 1 \in 1 .. N + 1
    BY <1>2
  <2> HIDE DEF Blocks, N
  <2> QED
    BY <2>1 DEF Init, TCore, Building, Bijection, Injection
<1>4. TPool
  BY <1>2 DEF Init, TPool
<1>5. TReg /\ TRoute
  BY DEF Init, TReg, TRoute, NoRoutes
<1>6. TLink
  BY NoQpsTyped DEF Init, TLink
<1>7. TInfo /\ TSent /\ THost
  BY DEF Init, TInfo, TSent, THost
<1> QED
  BY <1>3, <1>4, <1>5, <1>6, <1>7, TypeParts

\* Loading the rules, and the steps that only go on to another label.
LEMMA TypeGoesOn ==
  ASSUME TypeOK,
         \/ LoadRules \/ AllAllocated \/ CleanedUp \/ Deallocated \/ AllRegistered
         \/ Unregistered \/ AllRouted \/ Accept \/ Verify \/ Start \/ AllStarted
         \/ Connected
  PROVE  TypeOK'
<1>1. /\ N \in Nat /\ at \in 1 .. N + 1 /\ ok \in BOOLEAN /\ setup \in Setups
      /\ setup.graph \in Descriptions
  BY SetupFacts DEF TypeOK, Descriptions
<1>2. 1 \in 1 .. N + 1 /\ (at <= N => at + 1 \in 1 .. N + 1)
  BY <1>1
<1> USE DEF Goto, Building, Final, Over, reg_vars, tcp_vars, route_vars
<1>3. CASE LoadRules
  <2>1. /\ UNCHANGED <<setup, order, ok, pool_vars, registered, wrap, link_vars, info, sent,
                       host_vars>>
        /\ pc' \in Building /\ at' = 1
    BY <1>3 DEF LoadRules
  <2>2. TCore'
    BY <1>1, <1>2, <2>1, CoreKept
  <2>3. TRoute'
    <3>1. rules' = LoadFromAppDag(setup.graph) /\ UNCHANGED <<routed, routes>>
      BY <1>3 DEF LoadRules
    <3>2. \A i \in DOMAIN rules' : rules'[i].kernel_retval \in Retvals
      BY <1>1, <3>1, LoadedRetvals
    <3>3. Blocks' = Blocks
      BY <2>1 DEF Blocks
    <3> QED
      BY <3>1, <3>2, <3>3, TypeParts DEF TRoute
  <2> QED
    BY <2>1, <2>2, <2>3, TypesKept, TypePartsNext
<1>4. CASE AllAllocated \/ CleanedUp \/ AllRegistered \/ Unregistered
  <2>1. /\ UNCHANGED <<setup, order, ok, pool_vars, registered, wrap, route_vars, link_vars,
                       info, sent, host_vars>>
        /\ pc' \in Building \cup Final /\ at' = 1
    BY <1>4 DEF AllAllocated, CleanedUp, AllRegistered, Unregistered
  <2>2. TCore'
    BY <1>1, <1>2, <2>1, CoreKept
  <2> QED
    BY <2>1, <2>2, TypesKept, TypePartsNext
<1>5. CASE AllRouted \/ Accept \/ AllStarted \/ Connected
  <2>1. /\ UNCHANGED <<setup, order, ok, pool_vars, registered, wrap, route_vars, link_vars,
                       info, sent, host_vars>>
        /\ pc' \in Building \cup Final \cup {"running"} /\ at' \in {1, at}
    BY <1>5 DEF AllRouted, Accept, AllStarted, Connected
  <2>2. TCore'
    BY <1>1, <1>2, <2>1, CoreKept
  <2> QED
    BY <2>1, <2>2, TypesKept, TypePartsNext
<1>6. CASE Verify \/ Start \/ Deallocated
  <2>1. /\ UNCHANGED <<setup, order, pool_vars, registered, wrap, route_vars, tied, todo,
                       info, sent, host_vars>>
        /\ ok' \in BOOLEAN /\ qp' \in {qp, NoQps}
        /\ pc' \in Building \cup Final /\ at' \in 1 .. N + 1
    BY <1>1, <1>2, <1>6 DEF Verify, Start, Deallocated, ConnectionFails
  <2>2. TCore'
    BY <2>1, CoreKept
  <2>3. Blocks' = Blocks
    BY <2>1 DEF Blocks
  <2>4. TLink'
    BY <2>1, <2>3, NoQpsTyped, TypeParts DEF TLink
  <2> QED
    BY <2>1, <2>2, <2>4, TypesKept, TypePartsNext
<1> QED
  BY <1>3, <1>4, <1>5, <1>6

\* Taking blocks and giving them back. What is left in the pool does not become
\* negative, since a block that asks for more is refused.
LEMMA TypePool ==
  ASSUME TypeOK, Allocate \/ GiveBack
  PROVE  TypeOK'
<1>1. /\ N \in Nat /\ Blocks = 1 .. N /\ at \in 1 .. N + 1 /\ ok \in BOOLEAN
      /\ setup \in Setups /\ setup.kind \in [Blocks -> Kinds] /\ setup.quota \in [Blocks -> Nat]
  BY SetupFacts DEF TypeOK
<1>2. 1 \in 1 .. N + 1 /\ (at <= N => at + 1 \in 1 .. N + 1 /\ at \in Blocks)
  BY <1>1
<1>3. /\ pool \in [DOMAIN setup.total -> Nat]
      /\ block \in [Blocks -> {"none", "held", "refused", "returned"}]
  BY DEF TypeOK
<1> USE DEF Goto, Building, Final, Over, reg_vars, tcp_vars, pool_vars
<1>4. CASE Allocate
  <2>1. /\ UNCHANGED <<setup, order, registered, wrap, route_vars, link_vars, info, sent,
                       host_vars>>
        /\ ok' \in BOOLEAN /\ pc' \in Building \cup Final /\ at' \in 1 .. N + 1 /\ at <= N
    BY <1>1, <1>2, <1>4 DEF Allocate, TypeOK
  <2>2. TCore'
    BY <2>1, CoreKept
  <2>3. Blocks' = Blocks
    BY <2>1 DEF Blocks
  <2>4. block' \in [Blocks -> {"none", "held", "refused", "returned"}]
    BY <1>3, <1>4 DEF Allocate
  <2>5. pool' \in [DOMAIN setup.total -> Nat]
    <3>1. CASE UNCHANGED pool
      BY <1>3, <3>1
    <3>2. CASE Enabled(at) /\ ~Refused(at) /\ pool' = Charged(at)
      <4> DEFINE k == setup.kind[at]
                 q == setup.quota[at]
      <4>1. k \in DOMAIN setup.total /\ q \in Nat /\ pool[k] \in Nat /\ ~(pool[k] < q)
        BY <1>1, <1>2, <1>3, <2>1, <3>2 DEF Enabled, Refused
      <4>2. pool' = [pool EXCEPT ![k] = pool[k] - q]
        BY <3>2 DEF Charged
      <4> HIDE DEF k, q
      <4>3. pool[k] - q \in Nat
        BY <4>1
      <4> QED
        BY <1>3, <4>1, <4>2, <4>3
    <3> QED
      BY <1>4, <3>1, <3>2 DEF Allocate
  <2>6. TPool'
    BY <2>1, <2>3, <2>4, <2>5 DEF TPool
  <2> QED
    BY <2>1, <2>2, <2>6, TypesKept, TypePartsNext
<1>5. CASE GiveBack
  <2> DEFINE b == order[Position(Mapped)]
  <2>1. /\ UNCHANGED <<setup, order, pc, registered, wrap, route_vars, link_vars, info, sent,
                       host_vars>>
        /\ ok' = TRUE /\ at' = Position(Mapped) + 1 /\ Rest(Mapped) # {}
        /\ pool' = Credited(b) /\ block' = [block EXCEPT ![b] = "returned"]
    BY <1>5 DEF GiveBack
  <2>2. b \in Blocks /\ at' \in 1 .. N + 1
    <3>1. Mapped \subseteq Blocks
      BY DEF Mapped
    <3> QED
      BY <2>1, <3>1, NextPosition
  <2> HIDE DEF b
  <2>3. pc' \in Building \cup Final \cup {"running"}
    BY <2>1 DEF TypeOK
  <2>4. TCore'
    BY <2>1, <2>2, <2>3, CoreKept
  <2>5. Blocks' = Blocks
    BY <2>1 DEF Blocks
  <2>6. pool' \in [DOMAIN setup.total -> Nat]
    <3> DEFINE k == setup.kind[b]
               q == setup.quota[b]
    <3>1. q \in Nat /\ pool' = [pool EXCEPT ![k] = pool[k] + q]
      BY <1>1, <2>1, <2>2 DEF Credited
    <3> HIDE DEF k, q
    <3>2. k \in DOMAIN setup.total => pool[k] + q \in Nat
      BY <1>3, <3>1
    <3> QED
      BY <1>3, <3>1, <3>2
  <2>7. TPool'
    BY <1>3, <2>1, <2>2, <2>5, <2>6 DEF TPool
  <2> QED
    BY <2>1, <2>4, <2>7, TypesKept, TypePartsNext
<1> QED
  BY <1>4, <1>5

\* Registering and unregistering functions.
LEMMA TypeRegister ==
  ASSUME TypeOK, Register \/ Unregister
  PROVE  TypeOK'
<1>1. /\ N \in Nat /\ ok \in BOOLEAN /\ at \in 1 .. N + 1
      /\ setup.handlers \in [Blocks -> {"none", "some", "all"}]
      /\ setup \in Setups
  BY SetupFacts DEF TypeOK
<1>2. /\ registered \subseteq Blocks
      /\ wrap \in [Blocks -> {"none", "ready", "broken", "freed"}]
      /\ pc \in Building \cup Final \cup {"running"}
  BY DEF TypeOK
<1>3. 1 \in 1 .. N + 1
  BY <1>1
<1> USE DEF Goto, Building, Final, Over, route_vars, tcp_vars
<1>4. CASE Register
  <2> DEFINE b == order[Position(Mapped)]
  <2>1. /\ UNCHANGED <<setup, order, pool_vars, route_vars, link_vars, info, sent, host_vars>>
        /\ Rest(Mapped) # {}
        /\ \/ Goto("undefined") /\ UNCHANGED <<ok, registered, wrap>>
           \/ /\ \E w \in Registration(b) \ {"broken"} : wrap' = [wrap EXCEPT ![b] = w]
              /\ registered' = registered \cup {b} /\ ok' = TRUE
              /\ at' = Position(Mapped) + 1 /\ UNCHANGED pc
           \/ /\ wrap' = [wrap EXCEPT ![b] = "broken"] /\ ok' = FALSE
              /\ Goto("unregister") /\ UNCHANGED registered
    BY <1>4 DEF Register
  <2>2. b \in Blocks /\ Position(Mapped) + 1 \in 1 .. N + 1
    <3>1. Mapped \subseteq Blocks
      BY DEF Mapped
    <3> QED
      BY <2>1, <3>1, NextPosition
  <2> HIDE DEF b
  <2>3. Registration(b) \subseteq {"none", "ready", "broken"}
    <3>1. setup.handlers[b] \in {"none", "some", "all"}
      BY <1>1, <2>2
    <3> QED
      BY <3>1 DEF Registration, SoCRegistration, DPARegistration
  <2>4. at' \in 1 .. N + 1 /\ ok' \in BOOLEAN /\ pc' \in Building \cup Final \cup {"running"}
    BY <1>1, <1>2, <1>3, <2>1, <2>2
  <2>5. TCore'
    BY <2>1, <2>4, CoreKept
  <2>6. Blocks' = Blocks
    BY <2>1 DEF Blocks
  <2>7. /\ wrap' \in [Blocks -> {"none", "ready", "broken", "freed"}]
        /\ registered' \subseteq Blocks
    BY <1>2, <2>1, <2>2, <2>3
  <2>8. TReg'
    BY <2>6, <2>7 DEF TReg
  <2> QED
    BY <2>1, <2>5, <2>8, TypesKept, TypePartsNext
<1>5. CASE Unregister
  <2> DEFINE b == order[Position(Pairs)]
  <2>1. /\ UNCHANGED <<setup, order, pool_vars, registered, route_vars, link_vars, info, sent,
                       host_vars>>
        /\ Rest(Pairs) # {}
        /\ UnregisterSoC(b) \/ UnregisterDPA(b)
    BY <1>5 DEF Unregister
  <2>2. b \in Blocks /\ Position(Pairs) + 1 \in 1 .. N + 1
    <3>1. Pairs \subseteq Blocks
      BY DEF Pairs
    <3> QED
      BY <2>1, <3>1, NextPosition
  <2> HIDE DEF b
  <2>3. /\ at' \in 1 .. N + 1 /\ ok' \in BOOLEAN /\ pc' \in Building \cup Final \cup {"running"}
        /\ wrap' \in [Blocks -> {"none", "ready", "broken", "freed"}]
    BY <1>1, <1>2, <1>3, <2>1, <2>2 DEF UnregisterSoC, UnregisterDPA
  <2>4. TCore'
    BY <2>1, <2>3, CoreKept
  <2>5. Blocks' = Blocks
    BY <2>1 DEF Blocks
  <2>6. TReg'
    BY <1>2, <2>1, <2>3, <2>5 DEF TReg
  <2> QED
    BY <2>1, <2>4, <2>6, TypesKept, TypePartsNext
<1> QED
  BY <1>4, <1>5

\* The routers.
LEMMA TypeRoute ==
  ASSUME TypeOK, Route
  PROVE  TypeOK'
<1>1. /\ N \in Nat /\ ok \in BOOLEAN /\ at \in 1 .. N + 1 /\ Blocks = 1 .. N
      /\ setup \in Setups /\ setup.graph \in Descriptions
  BY SetupFacts DEF TypeOK, Descriptions
<1>2. /\ UNCHANGED <<setup, order, ok, pool_vars, registered, wrap, rules, link_vars, info, sent,
                     host_vars>>
      /\ at <= N /\ pc = "route"
      /\ at' \in {1, at + 1} /\ pc' \in {"route", "undefined"}
      /\ \/ /\ routed' = routed \cup {at}
            /\ routes' = [routes EXCEPT ![at] = Registered(setup.graph, setup.name[at], at)]
         \/ UNCHANGED <<routed, routes>>
  BY DEF Route, Goto, tcp_vars
<1>3. at \in Blocks /\ at' \in 1 .. N + 1
  BY <1>1, <1>2
<1>4. TCore'
  BY <1>1, <1>2, <1>3, CoreKept DEF Building, Final, Over
<1>5. Blocks' = Blocks
  BY <1>2 DEF Blocks
<1>6. TRoute
  BY TypeParts
<1>7. TRoute'
  <2> DEFINE R == Registered(setup.graph, setup.name[at], at)
  <2>1. R.default = at /\ DOMAIN R.map \subseteq Retvals
    BY <1>1, MappingAgrees
  <2> HIDE DEF R
  <2>2. CASE routed' = routed \cup {at} /\ routes' = [routes EXCEPT ![at] = R]
    <3>1. DOMAIN routes' = Blocks /\ \A b \in Blocks : routes'[b] = IF b = at THEN R ELSE routes[b]
      BY <1>6, <2>2 DEF TRoute
    <3>2. \A b \in Blocks : /\ routes'[b].default \in Blocks \cup {0}
                            /\ DOMAIN routes'[b].map \subseteq Retvals
      BY <1>3, <1>6, <2>1, <3>1 DEF TRoute
    <3> HIDE DEF Blocks
    <3> QED
      BY <1>2, <1>3, <1>5, <1>6, <2>2, <3>1, <3>2 DEF TRoute
  <2>3. CASE UNCHANGED <<routed, routes>>
    BY <1>2, <1>5, <1>6, <2>3 DEF TRoute
  <2> QED
    BY <1>2, <2>2, <2>3 DEF R
<1> QED
  BY <1>2, <1>4, <1>7, TypesKept, TypePartsNext

\* While a block is being connected the loop is at a block.
InLoop == pc \in {"connect", "tell_remote", "tell_local"} => at \in Blocks

\* The exchange of parameters, on the side of the process.
LEMMA TypeExchange ==
  ASSUME TypeOK, InLoop, Dial \/ HearLocal \/ HearRemote \/ TellRemote \/ TellLocal
  PROVE  TypeOK'
<1>1. /\ N \in Nat /\ ok \in BOOLEAN /\ at \in 1 .. N + 1 /\ Blocks = 1 .. N
      /\ setup \in Setups
  BY SetupFacts DEF TypeOK
<1>2. 1 \in 1 .. N + 1
  BY <1>1
<1>3. TInfo /\ TSent /\ THost
  BY TypeParts
<1> USE DEF Goto, Building, Final, Over, reg_vars, tcp_vars
<1>4. CASE Dial
  <2>1. /\ UNCHANGED <<setup, order, ok, pool_vars, registered, wrap, route_vars, link_vars, info,
                       sent, partner>>
        /\ at' = 1 /\ pc' \in {"hear_local", "aborted"}
        /\ host' \in {host, [host EXCEPT !["local"] = "open"]}
    BY <1>4 DEF Dial
  <2>2. TCore'
    BY <1>1, <1>2, <2>1, CoreKept
  <2>3. Blocks' = Blocks
    BY <2>1 DEF Blocks
  <2>4. THost'
    BY <1>3, <2>1, <2>3 DEF THost
  <2> QED
    BY <2>1, <2>2, <2>4, TypesKept, TypePartsNext
<1>5. CASE HearLocal \/ HearRemote
  <2>1. /\ UNCHANGED <<setup, order, ok, pool_vars, registered, wrap, route_vars, link_vars,
                       sent, host_vars>>
        /\ at' = 1 /\ pc' \in Building \cup Final
    BY <1>5 DEF HearLocal, HearRemote, Hear
  <2>2. TCore'
    BY <1>1, <1>2, <2>1, CoreKept
  <2>3. TInfo'
    BY <1>3, <1>5 DEF TInfo, HearLocal, HearRemote, Hear
  <2> QED
    BY <2>1, <2>2, <2>3, TypesKept, TypePartsNext
<1>6. CASE TellRemote \/ TellLocal
  <2>1. /\ UNCHANGED <<setup, order, ok, pool_vars, registered, wrap, route_vars, link_vars,
                       info, host_vars>>
        /\ pc \in {"tell_remote", "tell_local"} /\ pc' \in {"tell_local", "visit"}
        /\ at' \in {at, at + 1}
        /\ sent' \in {SendMsg("remote"), SendMsg("local")}
    BY <1>6 DEF TellRemote, TellLocal
  <2>2. at \in Blocks
    BY <2>1 DEF InLoop
  <2>3. at' \in 1 .. N + 1
    BY <1>1, <2>1, <2>2
  <2>4. TCore'
    BY <1>1, <2>1, <2>3, CoreKept
  <2>5. Blocks' = Blocks
    BY <2>1 DEF Blocks
  <2>6. TSent'
    <3>1. \A h \in Hosts : Append(sent[h], at) \in Seq(Blocks)
      BY <1>3, <2>2 DEF TSent
    <3>2. "remote" \in Hosts /\ "local" \in Hosts
      BY DEF Hosts
    <3>3. SendMsg("remote") \in [Hosts -> Seq(Blocks)] /\ SendMsg("local") \in [Hosts -> Seq(Blocks)]
      BY <1>3, <3>1, <3>2 DEF TSent, SendMsg
    <3> QED
      BY <2>1, <2>5, <3>3 DEF TSent
  <2> QED
    BY <2>1, <2>4, <2>6, TypesKept, TypePartsNext
<1> QED
  BY <1>4, <1>5, <1>6

\* The queue pair after each step of a connection.
LEMMA ReachedTyped ==
  ASSUME NEW h \in Hosts, NEW k \in 1 .. 6
  PROVE  Reached(h)[k] \in QpState
<1> DEFINE peer == IF info[h] = "real" THEN h ELSE "nobody"
           A == [st |-> "INIT", peer |-> "none", filled |-> FALSE, connected |-> FALSE]
           B == [st |-> "RTR", peer |-> peer, filled |-> FALSE, connected |-> FALSE]
           C == [st |-> "RTS", peer |-> peer, filled |-> FALSE, connected |-> FALSE]
           D == [st |-> "RTS", peer |-> peer, filled |-> TRUE, connected |-> TRUE]
<1>1. Reached(h) = <<Bare, A, B, B, C, D>>
  BY DEF Reached
<1>2. /\ Bare \in QpState /\ A \in QpState /\ B \in QpState /\ C \in QpState /\ D \in QpState
  BY DEF Bare, QpState
<1> HIDE DEF A, B, C, D
<1>3. k \in {1, 2, 3, 4, 5, 6}
  OBVIOUS
<1> QED
  BY <1>1, <1>2, <1>3

\* Going from block to block, and connecting their queue pairs.
LEMMA TypeConnect ==
  ASSUME TypeOK, InLoop, Visit \/ ConnectQp
  PROVE  TypeOK'
<1>1. /\ N \in Nat /\ ok \in BOOLEAN /\ at \in 1 .. N + 1 /\ Blocks = 1 .. N
      /\ setup \in Setups
  BY SetupFacts DEF TypeOK
<1>2. 1 \in 1 .. N + 1
  BY <1>1
<1>3. TLink
  BY TypeParts
<1> DEFINE Peers == Sides \X (Hosts \cup {"block"})
<1> USE DEF Goto, Building, Final, Over, reg_vars, tcp_vars
<1>4. CASE Visit
  <2>1. /\ UNCHANGED <<setup, order, ok, pool_vars, registered, wrap, route_vars, qp, info, sent,
                       host_vars>>
        /\ pc' \in {"connect", "undefined"} /\ at' \in {1, at}
        /\ tied' = TiedAt(at) /\ todo' \in {todo, Calls(at, tied')}
    BY <1>4 DEF Visit
  <2>2. TCore'
    BY <1>1, <1>2, <2>1, CoreKept
  <2>3. Blocks' = Blocks
    BY <2>1 DEF Blocks
  <2>4. tied' \subseteq Hosts
    BY <1>3, <2>1 DEF TLink, TiedAt
  <2>5. Calls(at, tied') \in Seq(Peers)
    <3> DEFINE hs == tied'
    <3> HIDE DEF hs
    <3>1. /\ <<"prior", "remote">> \in Peers /\ <<"next", "local">> \in Peers
          /\ <<"prior", "block">> \in Peers
      BY DEF Sides, Hosts
    <3> HIDE DEF Peers
    <3> DEFINE x == IF "remote" \in hs THEN << <<"prior", "remote">> >> ELSE <<>>
               y == IF "local" \in hs THEN << <<"next", "local">> >> ELSE <<>>
               z == IF at > 1 THEN << <<"prior", "block">> >> ELSE <<>>
    <3>2. x \in Seq(Peers) /\ y \in Seq(Peers) /\ z \in Seq(Peers)
      BY <3>1
    <3>3. Calls(at, hs) = x \o y \o z
      BY DEF Calls
    <3> HIDE DEF x, y, z
    <3>4. Calls(at, hs) \in Seq(Peers)
      BY <3>2, <3>3
    <3> QED
      BY <3>4 DEF hs
  <2>6. TLink'
    BY <1>3, <2>1, <2>3, <2>4, <2>5 DEF TLink
  <2> QED
    BY <2>1, <2>2, <2>6, TypesKept, TypePartsNext
<1>5. CASE ConnectQp
  <2> DEFINE s == Head(todo)[1]
             h == Head(todo)[2]
  <2>1. /\ UNCHANGED <<setup, order, pool_vars, registered, wrap, route_vars, tied, info, sent,
                       host_vars>>
        /\ pc = "connect" /\ todo # <<>> /\ todo' \in {<<>>, Tail(todo)}
        /\ pc' \in {"connect", "aborted", "deallocate"} /\ at' \in {1, at} /\ ok' \in BOOLEAN
    BY <1>1, <1>5 DEF ConnectQp, ConnectionFails
  <2>9. \/ qp' \in {qp, NoQps}
        \/ ~CannotConnect(s, h) /\ qp' = [qp EXCEPT ![at][s] = Reached(h)[6]]
        \/ ~CannotConnect(s, h) /\ \E k \in 1 .. 5 : qp' = [qp EXCEPT ![at][s] = Reached(h)[k]]
    <3>1. \A left : ConnectionFails(left) => qp' \in {NoQps, left}
      BY DEF ConnectionFails
    <3> QED
      BY <1>5, <3>1 DEF ConnectQp
  <2>2. at \in Blocks
    BY <2>1 DEF InLoop
  <2>3. TCore'
    BY <1>1, <1>2, <2>1, CoreKept
  <2>4. Blocks' = Blocks
    BY <2>1 DEF Blocks
  <2>5. Head(todo) \in Peers /\ todo' \in Seq(Peers)
    <3>1. todo \in Seq(Peers)
      BY <1>3 DEF TLink
    <3> HIDE DEF Peers
    <3>2. todo # <<>> /\ todo' \in {<<>>, Tail(todo)}
      BY <2>1
    <3>3. Head(todo) \in Peers /\ Tail(todo) \in Seq(Peers)
      BY <3>1, <3>2
    <3>4. <<>> \in Seq(Peers)
      OBVIOUS
    <3> QED
      BY <3>2, <3>3, <3>4
  <2>6. s \in Sides /\ h \in Hosts \cup {"block"}
    BY <2>5
  <2> HIDE DEF s, h
  <2>7. qp' \in [Blocks -> [Sides -> QpState]]
    <3>1. CASE qp' \in {qp, NoQps}
      BY <1>3, <3>1, NoQpsTyped DEF TLink
    <3>3. \A k \in 1 .. 5 : k \in 1 .. 6
      OBVIOUS
    <3>4. 6 \in 1 .. 6
      OBVIOUS
    <3>2. ASSUME NEW k \in 1 .. 6, ~CannotConnect(s, h), qp' = [qp EXCEPT ![at][s] = Reached(h)[k]]
          PROVE  qp' \in [Blocks -> [Sides -> QpState]]
      <4>1. h \in Hosts
        BY <2>6, <3>2 DEF CannotConnect
      <4>2. Reached(h)[k] \in QpState
        BY <4>1, ReachedTyped
      <4> QED
        BY <1>3, <2>2, <2>6, <3>2, <4>2 DEF TLink
    <3> QED
      BY <2>9, <3>1, <3>2, <3>3, <3>4, Zenon
  <2>8. TLink'
    BY <1>3, <2>1, <2>4, <2>5, <2>7 DEF TLink
  <2> QED
    BY <2>1, <2>3, <2>8, TypesKept, TypePartsNext
<1> QED
  BY <1>4, <1>5

\* The hosts.
LEMMA TypeHosts ==
  ASSUME TypeOK, RemoteConnects \/ \E h \in Hosts : HostGoesOn(h) \/ HostLeaves(h)
  PROVE  TypeOK'
<1>1. UNCHANGED host_only
  BY DEF RemoteConnects, HostGoesOn, Greet, TakeParameters, NoticeClosed, HostLeaves
<1>2. UNCHANGED <<setup, order, pc, at, ok, pool_vars, registered, wrap, route_vars, link_vars,
                  info, sent>>
  BY <1>1 DEF host_only, reg_vars, tcp_vars
<1>3. TCore'
  BY <1>2, CoreKept DEF TypeOK
<1>4. Blocks' = Blocks
  BY <1>2 DEF Blocks
<1>5. THost /\ TSent
  BY TypeParts
<1>6. \A h \in Hosts : sent[h] # <<>> => Head(sent[h]) \in Blocks
  BY <1>5 DEF TSent
<1>7. THost'
  BY <1>4, <1>5, <1>6
     DEF THost, RemoteConnects, HostGoesOn, Greet, TakeParameters, NoticeClosed, HostLeaves, Hosts
<1> QED
  BY <1>2, <1>3, <1>7, TypesKept, TypePartsNext

----------------------------------------------------------------------------
(* The inductive invariant.                                                *)

\* What is known of the routers: those that were passed are known, and have
\* read the same description as the rules.
Routed == {"dial", "hear_local", "accept", "hear_remote", "visit", "connect", "tell_remote",
           "tell_local", "start", "running"}

RouteInv ==
  /\ pc = "load" => routed = {}
  /\ pc # "load" => rules = LoadFromAppDag(setup.graph)
  /\ pc = "route" => \A b \in Blocks : b < at /\ HasRouter(b) => b \in routed
  /\ pc \in Routed => \A b \in Blocks : HasRouter(b) => b \in routed
  /\ \A b \in routed : routes[b] = Registered(setup.graph, setup.name[b], b)

\* The calls connect_to_neighbour makes, and a queue pair it has connected.
ToRemote == <<"prior", "remote">>
ToLocal == <<"next", "local">>
ToBlock == <<"prior", "block">>
CallTo(h) == IF h = "remote" THEN ToRemote ELSE ToLocal

Up(h) == [st |-> "RTS", peer |-> IF info[h] = "real" THEN h ELSE "nobody",
          filled |-> TRUE, connected |-> TRUE]

\* The hosts that list the first block.
First == {h \in Hosts : 1 \in setup.wires[h]}

Early == {"load", "allocate", "cleanup", "register", "unregister", "route",
          "dial", "hear_local", "accept", "hear_remote"}

\* Both hosts have been heard before anything is connected, and none is told
\* anything before.
HeardInv ==
  /\ pc \in Early => tied = {} /\ \A h \in Hosts : sent[h] = <<>>
  /\ pc \in {"accept", "hear_remote"} => info["local"] # "none"
  /\ pc \in {"visit", "connect", "tell_remote", "tell_local"} => \A h \in Hosts : info[h] # "none"
  /\ \A h \in Hosts : info[h] = "zero" => host[h] = "gone"

\* Where the loop over the blocks is: the first one is connected to the hosts
\* that list it, which are then told; for the second one, the connection to
\* the block before it is still to be made, and will be refused.
FirstInv ==
  /\ pc \in {"visit", "connect"} => at \in {1, 2}
  /\ pc \in {"tell_remote", "tell_local"} => at = 1
  /\ pc = "visit" /\ at = 1 => tied = {}
  /\ pc \in {"visit", "connect", "tell_remote"} /\ at = 1 => \A h \in Hosts : sent[h] = <<>>
  /\ pc \in {"connect", "tell_remote", "tell_local"} /\ at = 1 =>
       tied = First /\ wrap[1] = "ready" /\ 1 \in Blocks
  /\ pc = "connect" /\ at = 1 =>
       /\ todo \in {<<>>, <<ToRemote>>, <<ToLocal>>, <<ToRemote, ToLocal>>}
       /\ \A h \in First : qp[1][Side(h)] = Up(h) \/ CallTo(h) \in Elems(todo)
  /\ pc \in {"tell_remote", "tell_local"} => \A h \in First : qp[1][Side(h)] = Up(h)
  /\ pc = "tell_local" =>
       /\ sent["remote"] = IF "remote" \in First THEN <<1>> ELSE <<>>
       /\ sent["local"] = <<>>

SecondInv ==
  /\ pc = "visit" /\ at = 2 =>
       /\ tied = First /\ wrap[1] = "ready" /\ 1 \in Blocks
       /\ \A h \in Hosts : sent[h] = IF h \in First THEN <<1>> ELSE <<>>
  /\ pc = "connect" /\ at = 2 =>
       todo \in {<<ToBlock>>, <<ToRemote, ToBlock>>, <<ToLocal, ToBlock>>,
                 <<ToRemote, ToLocal, ToBlock>>}
  /\ pc \in {"start", "running"} =>
       /\ 1 \in Blocks /\ wrap[1] = "ready" /\ First = Hosts
       /\ \A h \in Hosts : sent[h] = <<1>>

\* What a host has been told stays true until the process is over.
ToldInv ==
  \A h \in Hosts :
    /\ sent[h] \in {<<>>, <<1>>}
    /\ sent[h] # <<>> => info[h] # "none" /\ (pc \notin Over => qp[1][Side(h)] = Up(h))
    /\ host[h] = "ready" => partner[h] = 1 /\ sent[h] # <<>>

WireInv == HeardInv /\ FirstInv /\ SecondInv /\ ToldInv

\* Once a host of main.cc's application has been told, the constructor is on
\* its way to the end: there is no other block whose connection could fail.
MainInv ==
  MainSetup /\ (\E h \in Hosts : sent[h] # <<>>) =>
    /\ pc \in {"tell_local", "visit", "start", "running"}
    /\ pc = "visit" => at = 2

PipeInv == TypeOK /\ InLoop /\ RouteInv /\ WireInv /\ MainInv

\* At first nothing is loaded, routed, connected or told.
LEMMA PipeInit == Init => PipeInv
<1> SUFFICES ASSUME Init
             PROVE  PipeInv
  OBVIOUS
<1>1. TypeOK
  BY TypeInit
<1>2. InLoop /\ RouteInv
  BY DEF Init, InLoop, RouteInv, Routed
<1>3. WireInv /\ MainInv
  BY DEF Init, WireInv, HeardInv, FirstInv, SecondInv, ToldInv, Early, MainInv
<1> QED
  BY <1>1, <1>2, <1>3 DEF PipeInv

\* The loop is at a block as long as it is being connected.
LEMMA InLoopNext == TypeOK /\ InLoop /\ [Next]_vars => InLoop'
<1> SUFFICES ASSUME TypeOK, InLoop, [Next]_vars,
                    pc' \in {"connect", "tell_remote", "tell_local"}
             PROVE  at' \in Blocks'
  BY DEF InLoop
<1>1. Blocks' = Blocks
  <2>1. setup' = setup
    BY DEF Next, Constructor, vars, LoadRules, Allocate, AllAllocated, GiveBack, CleanedUp,
           Deallocated, Register, AllRegistered, Unregister, Unregistered, Route, AllRouted,
           Dial, HearLocal, Accept, HearRemote, Visit, ConnectQp, Connected, TellRemote,
           TellLocal, Verify, Start, AllStarted, RemoteConnects, HostGoesOn, Greet,
           TakeParameters, NoticeClosed, HostLeaves, host_only
  <2> QED
    BY <2>1 DEF Blocks
<1>2. CASE Visit
  <2>1. at <= N /\ at' = at
    BY <1>2 DEF Visit, Goto
  <2>2. N \in Nat /\ Blocks = 1 .. N /\ at \in 1 .. N + 1
    BY SetupFacts DEF TypeOK
  <2>3. at \in Blocks
    BY <2>1, <2>2
  <2> QED
    BY <1>1, <2>1, <2>3
<1>3. CASE ~Visit
  <2>1. pc \in {"connect", "tell_remote", "tell_local"} /\ at' = at
    BY <1>3 DEF Next, Constructor, vars, LoadRules, Allocate, AllAllocated, GiveBack, CleanedUp,
           Deallocated, Register, AllRegistered, Unregister, UnregisterSoC, UnregisterDPA,
           Unregistered, Route, AllRouted, Dial, HearLocal, Accept, HearRemote, Hear, ConnectQp,
           Connected, TellRemote, TellLocal, Verify, Start, AllStarted, RemoteConnects,
           HostGoesOn, Greet, TakeParameters, NoticeClosed, HostLeaves, host_only, Goto,
           ConnectionFails
  <2> QED
    BY <1>1, <2>1 DEF InLoop
<1> QED
  BY <1>2, <1>3

\* Every router that was passed is known and has read the description.
LEMMA RouteInvNext == TypeOK /\ RouteInv /\ [Next]_vars => RouteInv'
<1> SUFFICES ASSUME TypeOK, RouteInv, [Next]_vars
             PROVE  RouteInv'
  OBVIOUS
<1>1. /\ N \in Nat /\ Blocks = 1 .. N /\ at \in 1 .. N + 1 /\ setup \in Setups
      /\ routed \subseteq Blocks /\ DOMAIN routes = Blocks
  BY SetupFacts DEF TypeOK
<1> DEFINE Alone == UNCHANGED <<setup, rules, routed, routes>>
<1> USE DEF Goto, reg_vars, route_vars
<1>2. CASE LoadRules
  <2>1. /\ pc = "load" /\ pc' = "allocate" /\ rules' = LoadFromAppDag(setup.graph)
        /\ UNCHANGED <<setup, routed, routes>> /\ routed = {}
    BY <1>2 DEF LoadRules, RouteInv
  <2> QED
    BY <2>1 DEF RouteInv, Routed
<1>3. CASE Route
  <2>1. /\ pc = "route" /\ at <= N /\ UNCHANGED <<setup, wrap, rules>>
    BY <1>3 DEF Route
  <2>2. Blocks' = Blocks /\ \A b : HasRouter(b)' = HasRouter(b)
    BY <2>1 DEF Blocks, HasRouter
  <2>3. /\ rules = LoadFromAppDag(setup.graph)
        /\ \A b \in Blocks : b < at /\ HasRouter(b) => b \in routed
        /\ \A b \in routed : routes[b] = Registered(setup.graph, setup.name[b], b)
    BY <2>1 DEF RouteInv
  <2>4. at \in Blocks
    BY <1>1, <2>1
  <2>5. CASE /\ HasRouter(at) /\ routed' = routed \cup {at}
             /\ routes' = [routes EXCEPT ![at] = Registered(setup.graph, setup.name[at], at)]
             /\ at' = at + 1 /\ pc' = pc
    <3>1. \A b \in Blocks : b < at' /\ HasRouter(b) => b \in routed'
      BY <1>1, <2>3, <2>4, <2>5
    <3>2. \A b \in routed' : routes'[b] = Registered(setup.graph, setup.name[b], b)
      BY <1>1, <2>3, <2>4, <2>5
    <3> QED
      BY <2>1, <2>2, <2>3, <2>5, <3>1, <3>2 DEF RouteInv, Routed
  <2>6. CASE ~HasRouter(at) /\ at' = at + 1 /\ UNCHANGED <<pc, routed, routes>>
    <3>1. \A b \in Blocks : b < at' /\ HasRouter(b) => b \in routed
      BY <1>1, <2>3, <2>4, <2>6
    <3> QED
      BY <2>1, <2>2, <2>3, <2>6, <3>1 DEF RouteInv, Routed
  <2>7. CASE pc' = "undefined" /\ UNCHANGED <<routed, routes>>
    BY <2>1, <2>3, <2>7 DEF RouteInv, Routed
  <2> QED
    BY <1>3, <2>5, <2>6, <2>7 DEF Route
<1>4. CASE AllRouted
  <2>1. /\ pc = "route" /\ at > N /\ pc' = "dial" /\ UNCHANGED <<setup, wrap>> /\ Alone
    BY <1>4 DEF AllRouted
  <2>2. \A b \in Blocks : b < at
    BY <1>1, <2>1
  <2>3. Blocks' = Blocks /\ \A b : HasRouter(b)' = HasRouter(b)
    BY <2>1 DEF Blocks, HasRouter
  <2> QED
    BY <2>1, <2>2, <2>3 DEF RouteInv, Routed
<1>5. CASE Register \/ Unregister
  <2>1. /\ pc \in {"register", "unregister"} /\ Alone
        /\ pc' \in {"register", "unregister", "undefined"}
    BY <1>5 DEF Register, Unregister, UnregisterSoC, UnregisterDPA
  <2> QED
    BY <2>1 DEF RouteInv, Routed
<1>6. CASE AllRegistered \/ Unregistered
  <2>1. /\ pc \in {"register", "unregister"} /\ Alone
        /\ pc' \in {"route", "deallocate"} /\ at' = 1
    BY <1>6 DEF AllRegistered, Unregistered
  <2>2. Blocks' = Blocks /\ \A b \in Blocks : ~(b < 1)
    BY <1>1, <2>1 DEF Blocks
  <2> QED
    BY <2>1, <2>2 DEF RouteInv, Routed
<1>7. CASE Allocate \/ AllAllocated \/ GiveBack \/ CleanedUp \/ Deallocated
  <2>1. /\ pc \in {"allocate", "cleanup", "deallocate"} /\ Alone
        /\ pc' \in {"allocate", "cleanup", "deallocate", "aborted", "register", "returned"}
    BY <1>7 DEF Allocate, AllAllocated, GiveBack, CleanedUp, Deallocated
  <2> QED
    BY <2>1 DEF RouteInv, Routed
<1>8. CASE Dial \/ HearLocal \/ Accept \/ HearRemote \/ Visit \/ ConnectQp \/ Connected
           \/ TellRemote \/ TellLocal \/ Verify \/ Start \/ AllStarted
  <2>1. /\ pc \in Routed /\ UNCHANGED wrap /\ Alone /\ pc' \in Routed \cup Final \cup {"deallocate"}
    BY <1>8 DEF Dial, HearLocal, Accept, HearRemote, Hear, Visit, ConnectQp, Connected, TellRemote,
           TellLocal, Verify, Start, AllStarted, Routed, Final, Over, ConnectionFails
  <2>2. Blocks' = Blocks /\ \A b : HasRouter(b)' = HasRouter(b)
    BY <2>1 DEF Blocks, HasRouter
  <2> QED
    BY <2>1, <2>2 DEF RouteInv, Routed, Final, Over
<1>9. CASE RemoteConnects \/ (\E h \in Hosts : HostGoesOn(h) \/ HostLeaves(h)) \/ UNCHANGED vars
  <2>1. UNCHANGED <<pc, at, wrap>> /\ Alone
    BY <1>9 DEF RemoteConnects, HostGoesOn, Greet, TakeParameters, NoticeClosed, HostLeaves,
           host_only, vars
  <2>2. Blocks' = Blocks /\ \A b : HasRouter(b)' = HasRouter(b)
    BY <2>1 DEF Blocks, HasRouter
  <2> QED
    BY <2>1, <2>2 DEF RouteInv
<1> QED
  BY <1>2, <1>3, <1>4, <1>5, <1>6, <1>7, <1>8, <1>9 DEF Next, Constructor

\* Steps before anything is connected, steps that give up, and steps of others
\* that leave the parameters alone.
LEMMA WireQuiet ==
  ASSUME WireInv, UNCHANGED <<setup, info, sent, host, partner>>,
         pc \notin Over, pc' \in Over \/ UNCHANGED qp,
         pc' \in Early \cup Final \cup {"deallocate"},
         pc' \in Early => pc \in Early /\ UNCHANGED tied,
         pc' \in {"accept", "hear_remote"} => pc \in {"accept", "hear_remote"}
  PROVE  WireInv'
<1>1. HeardInv'
  BY DEF WireInv, HeardInv, Early, Final, Over
<1>2. FirstInv'
  BY DEF FirstInv, Early, Final, Over
<1>3. SecondInv'
  BY DEF SecondInv, Early, Final, Over
<1>4. ToldInv'
  <2>1. \A h : Up(h)' = Up(h)
    BY DEF Up
  <2> QED
    BY <2>1 DEF WireInv, ToldInv
<1> QED
  BY <1>1, <1>2, <1>3, <1>4 DEF WireInv

\* Hearing the hosts. The parameters of a host that is gone are zero, and it
\* stays gone.
LEMMA WireHear ==
  ASSUME TypeOK, WireInv, HearLocal \/ HearRemote
  PROVE  WireInv'
<1>1. /\ UNCHANGED <<setup, tied, qp, sent, host, partner, wrap>> /\ pc \in {"hear_local", "hear_remote"}
      /\ tied = {} /\ \A h \in Hosts : sent[h] = <<>>
      /\ info \in [Hosts -> {"none", "real", "zero"}]
  BY DEF HearLocal, HearRemote, link_vars, host_vars, reg_vars, WireInv, HeardInv, Early, TypeOK
<1>2. CASE pc' = "aborted" /\ UNCHANGED info
  BY <1>1, <1>2, WireQuiet DEF Final, Over, Early
<1>3. ASSUME NEW h \in Hosts, NEW v \in {"real", "zero"}, v = "zero" => host[h] = "gone",
             info' = [info EXCEPT ![h] = v], at' = 1,
             \/ pc = "hear_local" /\ h = "local" /\ pc' = "accept"
             \/ pc = "hear_remote" /\ h = "remote" /\ pc' = "visit"
      PROVE  WireInv'
  <2>1. info'[h] = v /\ \A k \in Hosts : k # h => info'[k] = info[k]
    BY <1>1, <1>3
  <2>2. HeardInv'
    <3>1. \A k \in Hosts : info'[k] = "zero" => host'[k] = "gone"
      BY <1>1, <1>3, <2>1 DEF WireInv, HeardInv
    <3>2. CASE pc' = "accept"
      BY <1>1, <1>3, <2>1, <3>1, <3>2 DEF HeardInv, Early
    <3>3. CASE pc' = "visit"
      <4>1. info["local"] # "none"
        BY <1>3, <3>3 DEF WireInv, HeardInv
      <4>2. \A k \in Hosts : info'[k] # "none"
        BY <1>3, <2>1, <3>3, <4>1 DEF Hosts
      <4> QED
        BY <1>1, <3>1, <3>3, <4>2 DEF HeardInv, Early
    <3> QED
      BY <1>3, <3>2, <3>3
  <2>3. FirstInv' /\ SecondInv'
    BY <1>1, <1>3 DEF FirstInv, SecondInv
  <2>4. ToldInv'
    BY <1>1 DEF WireInv, ToldInv
  <2> QED
    BY <2>2, <2>3, <2>4 DEF WireInv
<1>4. CASE HearLocal
  <2>1. "local" \in Hosts
    BY DEF Hosts
  <2> QED
    BY <1>2, <1>3, <1>4, <2>1 DEF HearLocal, Hear, Goto
<1>5. CASE HearRemote
  <2>1. "remote" \in Hosts
    BY DEF Hosts
  <2> QED
    BY <1>2, <1>3, <1>5, <2>1 DEF HearRemote, Hear, Goto
<1> QED
  BY <1>4, <1>5

\* One element after one and after two others.
LEMMA OneAfterOne ==
  ASSUME NEW a, NEW b
  PROVE  <<a>> \o <<b>> = <<a, b>>
<1> DEFINE S == {a, b}
           s == <<a>>
           t == <<b>>
           u == <<a, b>>
<1>1. /\ s \in Seq(S) /\ t \in Seq(S) /\ u \in Seq(S)
      /\ Len(s) = 1 /\ Len(t) = 1 /\ Len(u) = 2 /\ s[1] = a /\ t[1] = b /\ u[1] = a /\ u[2] = b
  OBVIOUS
<1> HIDE DEF S, s, t, u
<1>2. /\ s \o t \in Seq(S) /\ Len(s \o t) = 2
      /\ \A i \in 1 .. 2 : (s \o t)[i] = IF i <= 1 THEN s[i] ELSE t[i - 1]
  <2>1. /\ s \o t \in Seq(S) /\ Len(s \o t) = Len(s) + Len(t)
        /\ \A i \in 1 .. Len(s) + Len(t) : (s \o t)[i] =
                     IF i <= Len(s) THEN s[i] ELSE t[i - Len(s)]
    BY <1>1, ConcatProperties, Zenon
  <2> QED
    BY <1>1, <2>1
<1> DEFINE v == s \o t
<1> HIDE DEF v
<1>3. \A i \in 1 .. Len(v) : v[i] = u[i]
  BY <1>1, <1>2 DEF v
<1>4. v = u
  BY <1>1, <1>2, <1>3, SeqEqual DEF v
<1> QED
  BY <1>4 DEF v, s, t, u

\* One element after two others.
LEMMA OneAfterTwo ==
  ASSUME NEW a, NEW b, NEW c
  PROVE  <<a, b>> \o <<c>> = <<a, b, c>>
<1> DEFINE S == {a, b, c}
           s == <<a, b>>
           t == <<c>>
           u == <<a, b, c>>
<1>1. /\ s \in Seq(S) /\ t \in Seq(S) /\ u \in Seq(S)
      /\ Len(s) = 2 /\ Len(t) = 1 /\ Len(u) = 3 /\ s[1] = a /\ s[2] = b /\ t[1] = c
      /\ u[1] = a /\ u[2] = b /\ u[3] = c
  OBVIOUS
<1> HIDE DEF S, s, t, u
<1>2. /\ s \o t \in Seq(S) /\ Len(s \o t) = 3
      /\ \A i \in 1 .. 3 : (s \o t)[i] = IF i <= 2 THEN s[i] ELSE t[i - 2]
  <2>1. /\ s \o t \in Seq(S) /\ Len(s \o t) = Len(s) + Len(t)
        /\ \A i \in 1 .. Len(s) + Len(t) : (s \o t)[i] =
                     IF i <= Len(s) THEN s[i] ELSE t[i - Len(s)]
    BY <1>1, ConcatProperties, Zenon
  <2> QED
    BY <1>1, <2>1
<1> DEFINE v == s \o t
<1> HIDE DEF v
<1>3. \A i \in 1 .. Len(v) : v[i] = u[i]
  BY <1>1, <1>2 DEF v
<1>4. v = u
  BY <1>1, <1>2, <1>3, SeqEqual DEF v
<1> QED
  BY <1>4 DEF v, s, t, u

\* The calls of connect_to_neighbour, for the first block and for another.
LEMMA CallsKnown ==
  ASSUME NEW hs \in SUBSET Hosts
  PROVE  /\ Calls(1, hs) \in {<<>>, <<ToRemote>>, <<ToLocal>>, <<ToRemote, ToLocal>>}
         /\ \A h \in hs : CallTo(h) \in Elems(Calls(1, hs))
         /\ Calls(2, hs) \in {<<ToBlock>>, <<ToRemote, ToBlock>>, <<ToLocal, ToBlock>>,
                              <<ToRemote, ToLocal, ToBlock>>}
<1> DEFINE x == IF "remote" \in hs THEN <<ToRemote>> ELSE <<>>
           y == IF "local" \in hs THEN <<ToLocal>> ELSE <<>>
<1>1. Calls(1, hs) = x \o y \o <<>> /\ Calls(2, hs) = x \o y \o <<ToBlock>>
  BY DEF Calls, ToRemote, ToLocal, ToBlock
<1>2. /\ x \in {<<>>, <<ToRemote>>} /\ y \in {<<>>, <<ToLocal>>}
      /\ "remote" \in hs => x = <<ToRemote>>
      /\ "local" \in hs => y = <<ToLocal>>
  OBVIOUS
<1>3. \A a, b : /\ <<a>> \o <<b>> = <<a, b>> /\ <<>> \o <<b>> = <<b>>
                /\ <<a>> \o <<>> = <<a>>
  <2> TAKE a, b
  <2>1. <<a>> \in Seq({a}) /\ <<b>> \in Seq({b})
    OBVIOUS
  <2> QED
    BY <2>1, OneAfterOne, ConcatEmptySeq
<1>4. \A a, b, c : <<a, b>> \o <<c>> = <<a, b, c>> /\ <<a, b>> \o <<>> = <<a, b>>
  <2> TAKE a, b, c
  <2>1. <<a, b>> \in Seq({a, b})
    OBVIOUS
  <2> QED
    BY <2>1, OneAfterTwo, ConcatEmptySeq
<1>5. <<>> \o <<>> = <<>>
  <2>1. <<>> \in Seq({})
    OBVIOUS
  <2> QED
    BY <2>1, ConcatEmptySeq
<1> HIDE DEF x, y
<1>6. x \o y = IF x = <<>> THEN y ELSE IF y = <<>> THEN <<ToRemote>> ELSE <<ToRemote, ToLocal>>
  BY <1>2, <1>3, <1>5
<1>7. x \o y \in {<<>>, <<ToRemote>>, <<ToLocal>>, <<ToRemote, ToLocal>>}
  BY <1>2, <1>6
<1>8. Calls(1, hs) = x \o y
  BY <1>1, <1>3, <1>4, <1>5, <1>7
<1>9. Calls(2, hs) \in {<<ToBlock>>, <<ToRemote, ToBlock>>, <<ToLocal, ToBlock>>,
                        <<ToRemote, ToLocal, ToBlock>>}
  <2>1. /\ <<>> \o <<ToBlock>> = <<ToBlock>>
        /\ <<ToRemote>> \o <<ToBlock>> = <<ToRemote, ToBlock>>
        /\ <<ToLocal>> \o <<ToBlock>> = <<ToLocal, ToBlock>>
        /\ <<ToRemote, ToLocal>> \o <<ToBlock>> = <<ToRemote, ToLocal, ToBlock>>
    BY <1>3, <1>4, Zenon
  <2> QED
    BY <1>1, <1>7, <2>1, Zenon
<1>10. ASSUME NEW h \in hs
       PROVE  CallTo(h) \in Elems(x \o y)
  <2>1. \A a, b : Elems(<<a>>) = {a} /\ Elems(<<a, b>>) = {a, b}
    BY DEF Elems
  <2>2. <<ToLocal>> # <<>> /\ <<ToRemote>> # <<>>
    OBVIOUS
  <2>3. CASE h = "remote"
    BY <1>2, <1>6, <1>7, <2>1, <2>2, <2>3 DEF CallTo
  <2>4. CASE h = "local"
    BY <1>2, <1>6, <1>7, <2>1, <2>2, <2>4 DEF CallTo
  <2> QED
    BY <2>3, <2>4 DEF Hosts
<1> QED
  BY <1>7, <1>8, <1>9, <1>10

\* The head of the loop: the first block ties the hosts that list it, a second
\* one leads to a connection that will be refused.
LEMMA WireVisit ==
  ASSUME TypeOK, WireInv, Visit
  PROVE  WireInv'
<1>1. /\ pc = "visit" /\ at <= N /\ tied' = TiedAt(at)
      /\ UNCHANGED <<setup, qp, info, sent, host, partner, wrap>>
  BY DEF Visit, tcp_vars, host_vars, reg_vars
<1>2. CASE wrap[at] # "ready"
  <2>1. pc' = "undefined"
    BY <1>2 DEF Visit, Goto
  <2> QED
    BY <1>1, <2>1, WireQuiet DEF Early, Final, Over
<1>3. CASE wrap[at] = "ready"
  <2>1. pc' = "connect" /\ at' = at /\ todo' = Calls(at, tied')
    BY <1>3 DEF Visit
  <2>2. at \in {1, 2} /\ First' = First /\ Blocks' = Blocks /\ (\A h : Up(h)' = Up(h))
    BY <1>1 DEF WireInv, FirstInv, First, Blocks, Up
  <2>3. tied' \in SUBSET Hosts
    BY <1>1 DEF TypeOK, TiedAt
  <2>4. HeardInv'
    BY <1>1, <2>1 DEF WireInv, HeardInv, Early
  <2>5. ToldInv'
    BY <1>1, <2>2 DEF WireInv, ToldInv, Over
  <2>6. CASE at = 1
    <3>1. tied = {} /\ tied' = First
      BY <1>1, <2>6 DEF WireInv, FirstInv, TiedAt, First
    <3>2. 1 \in Blocks
      BY <1>1, <2>6, SetupFacts DEF TypeOK
    <3>3. /\ todo' \in {<<>>, <<ToRemote>>, <<ToLocal>>, <<ToRemote, ToLocal>>}
          /\ \A h \in First : CallTo(h) \in Elems(todo')
      BY <2>1, <2>3, <2>6, <3>1, CallsKnown
    <3>4. \A h \in Hosts : sent[h] = <<>>
      BY <1>1, <2>6 DEF WireInv, FirstInv
    <3>5. FirstInv'
      BY <1>1, <1>3, <2>1, <2>2, <2>6, <3>1, <3>2, <3>3, <3>4 DEF FirstInv
    <3>6. SecondInv'
      BY <2>1, <2>6 DEF SecondInv
    <3> QED
      BY <2>4, <2>5, <3>5, <3>6 DEF WireInv
  <2>7. CASE at = 2
    <3>1. todo' \in {<<ToBlock>>, <<ToRemote, ToBlock>>, <<ToLocal, ToBlock>>,
                     <<ToRemote, ToLocal, ToBlock>>}
      BY <2>1, <2>3, <2>7, CallsKnown
    <3>2. FirstInv' /\ SecondInv'
      BY <2>1, <2>7, <3>1 DEF FirstInv, SecondInv
    <3> QED
      BY <2>4, <2>5, <3>2 DEF WireInv
  <2> QED
    BY <2>2, <2>6, <2>7
<1> QED
  BY <1>2, <1>3

\* All calls for the first block have been made; the last one of any other
\* block is refused, so none gets here.
LEMMA WireConnected ==
  ASSUME TypeOK, WireInv, Connected
  PROVE  WireInv'
<1>1. /\ pc = "connect" /\ todo = <<>> /\ pc' = "tell_remote" /\ at' = at
      /\ UNCHANGED <<setup, qp, info, sent, host, partner, wrap, tied>>
  BY DEF Connected, tcp_vars, host_vars, reg_vars, link_vars
<1>2. First' = First /\ Blocks' = Blocks /\ (\A h : Up(h)' = Up(h))
  BY <1>1 DEF First, Blocks, Up
<1>3. at = 1
  <2>1. at \in {1, 2}
    BY <1>1 DEF WireInv, FirstInv
  <2>2. \A a, b, c : <<a>> # <<>> /\ <<a, b>> # <<>> /\ <<a, b, c>> # <<>>
    OBVIOUS
  <2>3. at # 2
    BY <1>1, <2>2 DEF WireInv, SecondInv
  <2> QED
    BY <2>1, <2>3
<1>4. \A h \in First : qp[1][Side(h)] = Up(h)
  <2>1. Elems(todo) = {}
    BY <1>1 DEF Elems
  <2> QED
    BY <1>1, <1>3, <2>1 DEF WireInv, FirstInv
<1>5. HeardInv'
  BY <1>1 DEF WireInv, HeardInv, Early
<1>6. ToldInv'
  BY <1>1, <1>2 DEF WireInv, ToldInv, Over
<1>7. FirstInv'
  BY <1>1, <1>2, <1>3, <1>4 DEF WireInv, FirstInv
<1>8. SecondInv'
  BY <1>1, <1>3 DEF SecondInv
<1> QED
  BY <1>5, <1>6, <1>7, <1>8 DEF WireInv

\* A host that lists the first block is told of it once it is connected; for
\* both hosts, h stands for the one that is told in this step.
LEMMA Told ==
  ASSUME TypeOK, WireInv, NEW h \in Hosts, pc \in {"tell_remote", "tell_local"},
         sent[h] = <<>>, sent' = SendMsg(h), UNCHANGED <<setup, qp, info, host, partner>>
  PROVE  /\ sent'[h] = IF h \in First THEN <<1>> ELSE <<>>
         /\ \A k \in Hosts \ {h} : sent'[k] = sent[k]
         /\ ToldInv'
<1>1. at = 1 /\ tied = First /\ info[h] # "none" /\ (h \in First => qp[1][Side(h)] = Up(h))
  BY DEF WireInv, FirstInv, HeardInv
<1>2. \A k : Up(k)' = Up(k)
  BY DEF Up
<1>3. Append(<<>>, 1) = <<1>> /\ <<1>> # <<>> /\ DOMAIN sent = Hosts
  BY DEF TypeOK
<1>4. /\ sent'[h] = IF h \in First THEN <<1>> ELSE <<>>
      /\ \A k \in Hosts \ {h} : sent'[k] = sent[k]
  BY <1>1, <1>3 DEF SendMsg
<1>5. ASSUME NEW k \in Hosts
      PROVE  /\ sent'[k] \in {<<>>, <<1>>}
             /\ sent'[k] # <<>> => info[k] # "none" /\ qp[1][Side(k)] = Up(k)
             /\ host[k] = "ready" => partner[k] = 1 /\ sent'[k] # <<>>
  <2>1. CASE k = h
    BY <1>1, <1>3, <1>4, <2>1 DEF WireInv, ToldInv
  <2>2. CASE k # h
    BY <1>4, <2>2 DEF WireInv, ToldInv, Over
  <2> QED
    BY <2>1, <2>2
<1> QED
  BY <1>2, <1>4, <1>5 DEF ToldInv

\* Telling the hosts: the remote one first, then the local one.
LEMMA WireTell ==
  ASSUME TypeOK, WireInv, TellRemote \/ TellLocal
  PROVE  WireInv'
<1>1. /\ pc \in {"tell_remote", "tell_local"} /\ at = 1
      /\ UNCHANGED <<setup, qp, info, host, partner, wrap, tied>>
      /\ tied = First /\ wrap[1] = "ready" /\ 1 \in Blocks
      /\ \A h \in First : qp[1][Side(h)] = Up(h)
  BY DEF TellRemote, TellLocal, host_vars, reg_vars, link_vars, WireInv, FirstInv
<1>2. First' = First /\ Blocks' = Blocks /\ (\A h : Up(h)' = Up(h))
  BY <1>1 DEF First, Blocks, Up
<1>3. "remote" \in Hosts /\ "local" \in Hosts /\ Hosts = {"remote", "local"}
  BY DEF Hosts
<1>4. CASE TellRemote
  <2>1. pc = "tell_remote" /\ pc' = "tell_local" /\ at' = 1 /\ sent' = SendMsg("remote")
    BY <1>1, <1>4 DEF TellRemote
  <2>2. sent["remote"] = <<>> /\ sent["local"] = <<>>
    BY <1>1, <1>3, <2>1 DEF WireInv, FirstInv
  <2>3. /\ sent'["remote"] = IF "remote" \in First THEN <<1>> ELSE <<>>
        /\ sent'["local"] = <<>>
        /\ ToldInv'
    BY <1>1, <1>3, <2>1, <2>2, Told
  <2>4. HeardInv'
    BY <1>1, <2>1 DEF WireInv, HeardInv, Early
  <2>5. FirstInv' /\ SecondInv'
    BY <1>1, <1>2, <2>1, <2>3 DEF FirstInv, SecondInv
  <2> QED
    BY <2>3, <2>4, <2>5 DEF WireInv
<1>5. CASE TellLocal
  <2>1. pc = "tell_local" /\ pc' = "visit" /\ at' = 2 /\ sent' = SendMsg("local")
    BY <1>1, <1>5 DEF TellLocal
  <2>2. sent["local"] = <<>> /\ sent["remote"] = IF "remote" \in First THEN <<1>> ELSE <<>>
    BY <2>1 DEF WireInv, FirstInv
  <2>3. /\ sent'["local"] = IF "local" \in First THEN <<1>> ELSE <<>>
        /\ sent'["remote"] = sent["remote"]
        /\ ToldInv'
    BY <1>1, <1>3, <2>1, <2>2, Told
  <2>4. \A h \in Hosts : sent'[h] = IF h \in First THEN <<1>> ELSE <<>>
    BY <1>3, <2>2, <2>3
  <2>5. HeardInv'
    BY <1>1, <2>1 DEF WireInv, HeardInv, Early
  <2>6. FirstInv' /\ SecondInv'
    BY <1>1, <1>2, <2>1, <2>4 DEF FirstInv, SecondInv
  <2> QED
    BY <2>3, <2>5, <2>6 DEF WireInv
<1> QED
  BY <1>4, <1>5

\* The flags are both set only where the first block was the only one, and is
\* listed by both hosts.
LEMMA WireVerify ==
  ASSUME TypeOK, WireInv, Verify \/ Start \/ AllStarted
  PROVE  WireInv'
<1>1. /\ UNCHANGED <<setup, info, sent, host, partner, wrap, tied>>
      /\ pc \in {"visit", "start"}
      /\ pc' \in Over \/ UNCHANGED qp
  BY DEF Verify, Start, AllStarted, ConnectionFails, Goto, Over, tcp_vars, host_vars, reg_vars,
         link_vars
<1>2. First' = First /\ Blocks' = Blocks /\ (\A h : Up(h)' = Up(h))
  BY <1>1 DEF First, Blocks, Up
<1>3. CASE pc' \in Final \cup {"deallocate"}
  BY <1>1, <1>3, WireQuiet DEF Early, Final, Over
<1>4. CASE pc' \in {"start", "running"}
  <2>1. /\ 1 \in Blocks /\ wrap[1] = "ready" /\ First = Hosts
        /\ \A h \in Hosts : sent[h] = <<1>>
    <3>1. CASE Verify
      <4>1. pc = "visit" /\ at \in {1, 2} /\ tied = Hosts
        BY <1>4, <3>1 DEF Verify, ConnectionFails, Goto, WireInv, FirstInv
      <4>2. at = 2
        BY <4>1 DEF WireInv, FirstInv, Hosts
      <4> QED
        BY <4>1, <4>2 DEF WireInv, SecondInv
    <3>2. CASE Start \/ AllStarted
      BY <3>2 DEF Start, AllStarted, WireInv, SecondInv
    <3> QED
      BY <3>1, <3>2
  <2>2. HeardInv' /\ FirstInv'
    BY <1>1, <1>4 DEF WireInv, HeardInv, FirstInv, Early
  <2>3. SecondInv'
    BY <1>1, <1>2, <1>4, <2>1 DEF SecondInv
  <2>4. ToldInv'
    <3>1. pc \notin Over /\ UNCHANGED qp
      BY <1>1, <1>4 DEF Over
    <3> QED
      BY <1>1, <1>2, <3>1 DEF WireInv, ToldInv
  <2> QED
    BY <2>2, <2>3, <2>4 DEF WireInv
<1> QED
  <2>1. pc' \in Final \cup {"deallocate", "start", "running"}
    BY DEF Verify, Start, AllStarted, ConnectionFails, Goto, Final, Over
  <2> QED
    BY <1>3, <1>4, <2>1

\* The first call, and the others.
LEMMA HeadsAndTails ==
  ASSUME NEW a, NEW b, NEW c
  PROVE  /\ Head(<<a>>) = a /\ Head(<<a, b>>) = a /\ Head(<<a, b, c>>) = a
         /\ Tail(<<a>>) = <<>> /\ Tail(<<a, b>>) = <<b>> /\ Tail(<<a, b, c>>) = <<b, c>>
<1>1. Head(<<a>>) = a /\ Head(<<a, b>>) = a /\ Head(<<a, b, c>>) = a
  OBVIOUS
<1>2. Tail(<<a>>) = <<>>
  OBVIOUS
<1>3. Tail(<<a, b>>) = <<b>>
  OBVIOUS
<1>4. Tail(<<a, b, c>>) = <<b, c>>
  OBVIOUS
<1> QED
  BY <1>1, <1>2, <1>3, <1>4

\* What a call does to the queue pairs of the other blocks and the other side.
LEMMA OneQueuePair ==
  ASSUME TypeOK, NEW b \in Blocks, NEW s \in Sides, NEW v, qp' = [qp EXCEPT ![b][s] = v]
  PROVE  /\ qp'[b][s] = v
         /\ \A t \in Sides \ {s} : qp'[b][t] = qp[b][t]
         /\ \A c \in Blocks \ {b} : qp'[c] = qp[c]
<1>1. DOMAIN qp = Blocks /\ \A c \in Blocks : DOMAIN qp[c] = Sides
  BY DEF TypeOK
<1> QED
  BY <1>1

\* Where a call for the first block leads, and what remains to be done.
LEMMA CallsOfFirst ==
  ASSUME NEW t \in {<<ToRemote>>, <<ToLocal>>, <<ToRemote, ToLocal>>}
  PROVE  \E h \in Hosts : /\ Head(t) = CallTo(h) /\ Head(t)[1] = Side(h) /\ Head(t)[2] = h
                          /\ Tail(t) \in {<<>>, <<ToRemote>>, <<ToLocal>>, <<ToRemote, ToLocal>>}
                          /\ \A k \in Hosts : CallTo(k) \in Elems(t) =>
                               k = h \/ CallTo(k) \in Elems(Tail(t))
<1>1. \A a, b : Elems(<<a>>) = {a} /\ Elems(<<a, b>>) = {a, b}
  BY DEF Elems
<1>2. /\ CallTo("remote") = ToRemote /\ CallTo("local") = ToLocal /\ ToRemote # ToLocal
      /\ ToRemote[1] = Side("remote") /\ ToRemote[2] = "remote"
      /\ ToLocal[1] = Side("local") /\ ToLocal[2] = "local"
  BY DEF CallTo, ToRemote, ToLocal, Side
<1>3. Hosts = {"remote", "local"}
  BY DEF Hosts
<1> HIDE DEF ToRemote, ToLocal
<1>4. CASE t = <<ToRemote>>
  <2>1. Head(t) = ToRemote /\ Tail(t) = <<>> /\ Elems(t) = {ToRemote}
    BY <1>1, <1>4, HeadsAndTails
  <2>2. \A k \in Hosts : CallTo(k) \in Elems(t) => k = "remote"
    BY <1>2, <1>3, <2>1
  <2>3. "remote" \in Hosts
    BY <1>3
  <2> QED
    BY <1>2, <2>1, <2>2, <2>3
<1>5. CASE t = <<ToLocal>>
  <2>1. Head(t) = ToLocal /\ Tail(t) = <<>> /\ Elems(t) = {ToLocal}
    BY <1>1, <1>5, HeadsAndTails
  <2>2. \A k \in Hosts : CallTo(k) \in Elems(t) => k = "local"
    BY <1>2, <1>3, <2>1
  <2>3. "local" \in Hosts
    BY <1>3
  <2> QED
    BY <1>2, <2>1, <2>2, <2>3
<1>6. CASE t = <<ToRemote, ToLocal>>
  <2>1. Head(t) = ToRemote /\ Tail(t) = <<ToLocal>> /\ Elems(Tail(t)) = {ToLocal}
    BY <1>1, <1>6, HeadsAndTails
  <2>2. \A k \in Hosts : k = "remote" \/ CallTo(k) \in Elems(Tail(t))
    BY <1>2, <1>3, <2>1
  <2>3. "remote" \in Hosts
    BY <1>3
  <2> QED
    BY <1>2, <2>1, <2>2, <2>3
<1> QED
  BY <1>4, <1>5, <1>6

\* The last call for a second block is for the block before it.
LEMMA CallsOfSecond ==
  ASSUME NEW t \in {<<ToBlock>>, <<ToRemote, ToBlock>>, <<ToLocal, ToBlock>>,
                    <<ToRemote, ToLocal, ToBlock>>}
  PROVE  /\ t # <<>> /\ Head(t)[1] \in Sides
         /\ Head(t)[2] # "block" =>
              Tail(t) \in {<<ToBlock>>, <<ToRemote, ToBlock>>, <<ToLocal, ToBlock>>,
                           <<ToRemote, ToLocal, ToBlock>>}
<1>1. /\ ToBlock[2] = "block"
      /\ ToRemote[1] \in Sides /\ ToLocal[1] \in Sides /\ ToBlock[1] \in Sides
  BY DEF ToRemote, ToLocal, ToBlock, Sides
<1>2. \A a, b, c : <<a>> # <<>> /\ <<a, b>> # <<>> /\ <<a, b, c>> # <<>>
  OBVIOUS
<1> HIDE DEF ToRemote, ToLocal, ToBlock
<1>3. CASE t = <<ToBlock>>
  <2>1. Head(t) = ToBlock
    BY <1>3, HeadsAndTails
  <2> QED
    BY <1>1, <1>2, <1>3, <2>1
<1>4. CASE t = <<ToRemote, ToBlock>>
  <2>1. Head(t) = ToRemote /\ Tail(t) = <<ToBlock>>
    BY <1>4, HeadsAndTails
  <2> QED
    BY <1>1, <1>2, <1>4, <2>1
<1>5. CASE t = <<ToLocal, ToBlock>>
  <2>1. Head(t) = ToLocal /\ Tail(t) = <<ToBlock>>
    BY <1>5, HeadsAndTails
  <2> QED
    BY <1>1, <1>2, <1>5, <2>1
<1>6. CASE t = <<ToRemote, ToLocal, ToBlock>>
  <2>1. Head(t) = ToRemote /\ Tail(t) = <<ToLocal, ToBlock>>
    BY <1>6, HeadsAndTails
  <2> QED
    BY <1>1, <1>2, <1>6, <2>1
<1> QED
  BY <1>3, <1>4, <1>5, <1>6

\* A step that gives up, and leaves the queue pairs that hosts have been told
\* of alone.
LEMMA WireGivesUp ==
  ASSUME WireInv, pc = "connect", pc' \in {"aborted", "deallocate"},
         UNCHANGED <<setup, info, sent, host, partner>>,
         pc' = "deallocate" =>
           \A h \in Hosts : sent[h] # <<>> => qp'[1][Side(h)] = qp[1][Side(h)]
  PROVE  WireInv'
<1>1. HeardInv' /\ FirstInv' /\ SecondInv'
  BY DEF WireInv, HeardInv, FirstInv, SecondInv, Early
<1>2. \A h : Up(h)' = Up(h)
  BY DEF Up
<1>3. ToldInv'
  BY <1>2 DEF WireInv, ToldInv, Over
<1> QED
  BY <1>1, <1>3 DEF WireInv

\* One call of connect_qp. The first block's queue pairs change only before a
\* host was told of them.
LEMMA WireConnectQp ==
  ASSUME TypeOK, InLoop, WireInv, ConnectQp
  PROVE  WireInv'
<1> DEFINE s == Head(todo)[1]
           g == Head(todo)[2]
<1>1. /\ pc = "connect" /\ todo # <<>> /\ at \in {1, 2} /\ at \in Blocks
      /\ UNCHANGED <<setup, info, sent, host, partner, wrap, tied>>
  BY DEF ConnectQp, tcp_vars, host_vars, reg_vars, WireInv, FirstInv, InLoop
<1>2. First' = First /\ Blocks' = Blocks /\ (\A h : Up(h)' = Up(h))
  BY <1>1 DEF First, Blocks, Up
<1>3. /\ \A h \in Hosts : Side(h) \in Sides
      /\ \A h, k \in Hosts : Side(h) = Side(k) => h = k
  BY DEF Hosts, Side, Sides
<1>4. \A left : ConnectionFails(left) => /\ pc' \in {"aborted", "deallocate"}
                                         /\ pc' = "deallocate" => qp' = left
  BY DEF ConnectionFails, Goto
<1>5. CASE CannotConnect(s, g) /\ ConnectionFails(qp)
  BY <1>1, <1>4, <1>5, WireGivesUp
<1>6. CASE at = 1
  <2>1. /\ todo \in {<<>>, <<ToRemote>>, <<ToLocal>>, <<ToRemote, ToLocal>>}
        /\ \A h \in First : qp[1][Side(h)] = Up(h) \/ CallTo(h) \in Elems(todo)
        /\ tied = First /\ wrap[1] = "ready" /\ 1 \in Blocks
        /\ \A h \in Hosts : sent[h] = <<>>
    BY <1>1, <1>6 DEF WireInv, FirstInv
  <2>2. todo \in {<<ToRemote>>, <<ToLocal>>, <<ToRemote, ToLocal>>}
    BY <1>1, <2>1
  <2>3. PICK h \in Hosts :
          /\ Head(todo) = CallTo(h) /\ s = Side(h) /\ g = h
          /\ Tail(todo) \in {<<>>, <<ToRemote>>, <<ToLocal>>, <<ToRemote, ToLocal>>}
          /\ \A k \in Hosts : CallTo(k) \in Elems(todo) =>
               k = h \/ CallTo(k) \in Elems(Tail(todo))
    BY <2>2, CallsOfFirst
  <2>4. CASE \E left : ConnectionFails(left)
    BY <1>1, <1>4, <2>1, <2>4, WireGivesUp
  <2>5. CASE /\ qp' = [qp EXCEPT ![at][s] = Reached(g)[6]] /\ todo' = Tail(todo)
             /\ UNCHANGED <<pc, at>>
    <3>1. Reached(g)[6] = Up(h)
      BY <2>3 DEF Reached, Up
    <3>2. /\ qp'[1][Side(h)] = Up(h)
          /\ \A t \in Sides \ {Side(h)} : qp'[1][t] = qp[1][t]
      <4>1. qp' = [qp EXCEPT ![1][Side(h)] = Up(h)] /\ Side(h) \in Sides
        BY <1>3, <1>6, <2>3, <2>5, <3>1
      <4>2. DOMAIN qp = Blocks /\ DOMAIN qp[1] = Sides
        BY <2>1 DEF TypeOK
      <4> QED
        BY <2>1, <4>1, <4>2
    <3>3. \A k \in First : qp'[1][Side(k)] = Up(k) \/ CallTo(k) \in Elems(todo')
      <4> SUFFICES ASSUME NEW k \in First
                   PROVE  qp'[1][Side(k)] = Up(k) \/ CallTo(k) \in Elems(todo')
        OBVIOUS
      <4>1. k \in Hosts
        BY DEF First
      <4>2. CASE k = h
        BY <3>2, <4>2
      <4>3. CASE k # h
        <5>1. qp'[1][Side(k)] = qp[1][Side(k)]
          BY <1>3, <3>2, <4>1, <4>3
        <5> QED
          BY <2>1, <2>3, <2>5, <4>1, <4>3, <5>1
      <4> QED
        BY <4>2, <4>3
    <3>4. HeardInv'
      BY <1>1, <2>5 DEF WireInv, HeardInv, Early
    <3>5. FirstInv'
      BY <1>1, <1>2, <1>6, <2>1, <2>3, <2>5, <3>3 DEF FirstInv
    <3>6. SecondInv'
      BY <1>1, <1>6, <2>5 DEF SecondInv
    <3>7. ToldInv'
      BY <1>1, <2>1 DEF WireInv, ToldInv
    <3> QED
      BY <3>4, <3>5, <3>6, <3>7 DEF WireInv
  <2> QED
    BY <2>4, <2>5 DEF ConnectQp
<1>7. CASE at = 2
  <2>1. todo \in {<<ToBlock>>, <<ToRemote, ToBlock>>, <<ToLocal, ToBlock>>,
                  <<ToRemote, ToLocal, ToBlock>>}
    BY <1>1, <1>7 DEF WireInv, SecondInv
  <2>2. /\ s \in Sides
        /\ g # "block" => Tail(todo) \in {<<ToBlock>>, <<ToRemote, ToBlock>>,
                                          <<ToLocal, ToBlock>>, <<ToRemote, ToLocal, ToBlock>>}
    BY <2>1, CallsOfSecond
  <2>3. 1 \in Blocks /\ 1 # at
    BY <1>1, <1>7, SetupFacts DEF TypeOK
  <2>4. ASSUME NEW v, qp' = [qp EXCEPT ![at][s] = v]
        PROVE  qp'[1] = qp[1]
    BY <1>1, <2>2, <2>3, <2>4, OneQueuePair
  <2>5. CASE \E step \in 1 .. 5 : ConnectionFails([qp EXCEPT ![at][s] = Reached(g)[step]])
    <3>1. /\ pc' \in {"aborted", "deallocate"}
          /\ pc' = "deallocate" => qp'[1] = qp[1]
      BY <1>4, <2>4, <2>5
    <3> QED
      BY <1>1, <3>1, WireGivesUp
  <2>6. CASE /\ ~CannotConnect(s, g) /\ qp' = [qp EXCEPT ![at][s] = Reached(g)[6]]
             /\ todo' = Tail(todo) /\ UNCHANGED <<pc, at>>
    <3>1. qp'[1] = qp[1]
      BY <2>4, <2>6
    <3>2. g # "block"
      BY <2>6 DEF CannotConnect
    <3>3. HeardInv'
      BY <1>1, <2>6 DEF WireInv, HeardInv, Early
    <3>4. FirstInv'
      BY <1>1, <1>7, <2>6 DEF FirstInv
    <3>5. SecondInv'
      BY <1>1, <1>7, <2>2, <2>6, <3>2 DEF SecondInv
    <3>6. ToldInv'
      BY <1>1, <1>2, <3>1 DEF WireInv, ToldInv, Over
    <3> QED
      BY <3>3, <3>4, <3>5, <3>6 DEF WireInv
  <2> QED
    BY <1>5, <2>5, <2>6 DEF ConnectQp
<1> QED
  BY <1>1, <1>6, <1>7

\* A step of host h: it changes only how far h has come. A host that is gone
\* stays gone, and one that becomes ready has taken the first block's
\* parameters.
LEMMA WireHost ==
  ASSUME TypeOK, WireInv, NEW h \in Hosts, NEW v,
         UNCHANGED <<setup, tied, todo, qp, info, sent, wrap>>,
         \/ UNCHANGED <<pc, at>>
         \/ pc' \in Early /\ pc \in Early /\ pc' \notin {"accept", "hear_remote"},
         host[h] # "gone", host' = [host EXCEPT ![h] = v],
         \/ v # "ready" /\ UNCHANGED partner
         \/ sent[h] # <<>> /\ partner' = [partner EXCEPT ![h] = Head(sent[h])]
  PROVE  WireInv'
<1>1. First' = First /\ Blocks' = Blocks /\ (\A k : Up(k)' = Up(k))
  BY DEF First, Blocks, Up
<1>2. /\ host'[h] = v /\ \A k \in Hosts \ {h} : host'[k] = host[k]
  BY DEF TypeOK
<1>3. HeardInv'
  BY <1>2 DEF WireInv, HeardInv, Early
<1>4. FirstInv'
  BY <1>1 DEF WireInv, FirstInv, Early
<1>5. SecondInv'
  BY <1>1 DEF WireInv, SecondInv, Early
<1>6. ASSUME NEW k \in Hosts, host'[k] = "ready"
      PROVE  partner'[k] = 1 /\ sent[k] # <<>>
  <2>1. CASE UNCHANGED partner
    <3>1. host[k] = "ready" \/ (k = h /\ v = "ready")
      BY <1>2, <1>6
    <3>2. CASE host[k] = "ready"
      BY <2>1, <3>2 DEF WireInv, ToldInv
    <3>3. CASE k = h /\ v = "ready"
      <4>1. sent[h] # <<>> /\ partner' = [partner EXCEPT ![h] = Head(sent[h])]
        BY <3>3
      <4>2. sent[h] = <<1>>
        BY <4>1 DEF WireInv, ToldInv
      <4>3. partner'[h] = Head(sent[h])
        BY <4>1 DEF TypeOK
      <4> QED
        BY <3>3, <4>1, <4>2, <4>3
    <3> QED
      BY <3>1, <3>2, <3>3
  <2>2. CASE sent[h] # <<>> /\ partner' = [partner EXCEPT ![h] = Head(sent[h])]
    <3>1. sent[h] = <<1>>
      BY <2>2 DEF WireInv, ToldInv
    <3>2. partner'[h] = Head(sent[h]) /\ \A j \in Hosts \ {h} : partner'[j] = partner[j]
      BY <2>2 DEF TypeOK
    <3>3. CASE k = h
      BY <2>2, <3>1, <3>2, <3>3
    <3>4. CASE k # h
      BY <1>2, <1>6, <3>2, <3>4 DEF WireInv, ToldInv
    <3> QED
      BY <3>3, <3>4
  <2> QED
    BY <2>1, <2>2
<1>7. ToldInv'
  <2>1. pc' \notin Over => pc \notin Over
    BY DEF Early, Over
  <2> QED
    BY <1>1, <1>6, <2>1 DEF WireInv, ToldInv
<1> QED
  BY <1>3, <1>4, <1>5, <1>7 DEF WireInv

\* The steps of the hosts, and the call that connects to the local one.
LEMMA WireHosts ==
  ASSUME TypeOK, WireInv,
         Dial \/ RemoteConnects \/ \E h \in Hosts : HostGoesOn(h) \/ HostLeaves(h)
  PROVE  WireInv'
<1> USE DEF host_only, link_vars, tcp_vars, host_vars, reg_vars
<1>1. "remote" \in Hosts /\ "local" \in Hosts
  BY DEF Hosts
<1>2. CASE Dial
  <2>1. /\ UNCHANGED <<setup, tied, todo, qp, info, sent, wrap, partner>> /\ pc = "dial"
    BY <1>2 DEF Dial
  <2>2. CASE host["local"] = "waiting" /\ host' = [host EXCEPT !["local"] = "open"]
             /\ pc' = "hear_local"
    <3>1. pc' \in Early /\ pc \in Early /\ pc' \notin {"accept", "hear_remote"}
      BY <2>1, <2>2 DEF Early
    <3> QED
      BY <1>1, <2>1, <2>2, <3>1, WireHost
  <2>3. CASE pc' = "aborted" /\ UNCHANGED host
    BY <2>1, <2>3, WireQuiet DEF Early, Final, Over
  <2> QED
    BY <1>2, <2>2, <2>3 DEF Dial, Goto
<1>3. CASE RemoteConnects
  <2>1. /\ UNCHANGED <<setup, tied, todo, qp, info, sent, wrap, partner, pc, at>>
        /\ host["remote"] = "waiting" /\ host' = [host EXCEPT !["remote"] = "open"]
    BY <1>3 DEF RemoteConnects
  <2> QED
    BY <1>1, <2>1, WireHost
<1>4. ASSUME NEW h \in Hosts, HostGoesOn(h) \/ HostLeaves(h)
      PROVE  WireInv'
  <2>1. UNCHANGED <<setup, tied, todo, qp, info, sent, wrap, pc, at>>
    BY <1>4 DEF HostGoesOn, Greet, TakeParameters, NoticeClosed, HostLeaves
  <2>2. CASE Greet(h) \/ NoticeClosed(h) \/ HostLeaves(h)
    <3>1. PICK v \in {"greeted", "left", "absent", "gone"} :
            host' = [host EXCEPT ![h] = v] /\ host[h] # "gone" /\ UNCHANGED partner
      BY <2>2 DEF Greet, NoticeClosed, HostLeaves
    <3>2. v # "ready"
      OBVIOUS
    <3> QED
      BY <2>1, <3>1, <3>2, WireHost
  <2>3. CASE TakeParameters(h)
    <3>1. /\ host[h] = "greeted" /\ host' = [host EXCEPT ![h] = "ready"] /\ sent[h] # <<>>
          /\ partner' = [partner EXCEPT ![h] = Head(sent[h])]
      BY <2>3 DEF TakeParameters
    <3> QED
      BY <2>1, <3>1, WireHost
  <2> QED
    BY <1>4, <2>2, <2>3 DEF HostGoesOn
<1> QED
  BY <1>2, <1>3, <1>4

\* Every step keeps what is known of the connections.
LEMMA WireInvNext == TypeOK /\ InLoop /\ WireInv /\ [Next]_vars => WireInv'
<1> SUFFICES ASSUME TypeOK, InLoop, WireInv, [Next]_vars
             PROVE  WireInv'
  OBVIOUS
<1>1. CASE LoadRules \/ Allocate \/ AllAllocated \/ GiveBack \/ CleanedUp \/ Deallocated
           \/ Register \/ AllRegistered \/ Unregister \/ Unregistered
           \/ Route \/ AllRouted \/ Accept
  <2>1. /\ UNCHANGED <<setup, info, sent, host, partner, tied>>
        /\ pc \in Early \cup {"deallocate"}
        /\ pc' \in Over \/ UNCHANGED qp
        /\ pc = "deallocate" => pc' \in {"deallocate", "returned"}
        /\ pc' \in Early \cup Final \cup {"deallocate"}
        /\ pc' \in {"accept", "hear_remote"} => pc \in {"accept", "hear_remote"}
    BY <1>1 DEF LoadRules, Allocate, AllAllocated, GiveBack, CleanedUp, Deallocated, Register,
           AllRegistered, Unregister, UnregisterSoC, UnregisterDPA, Unregistered, Route,
           AllRouted, Accept, Goto, Early, Final, Over, link_vars, tcp_vars, host_vars
  <2>2. (pc' \in Early => pc \in Early) /\ pc \notin Over
    BY <2>1 DEF Early, Over
  <2> QED
    BY <2>1, <2>2, WireQuiet
<1>2. CASE Visit \/ Connected \/ TellRemote \/ TellLocal \/ ConnectQp
  BY <1>2, WireVisit, WireConnected, WireTell, WireConnectQp
<1>3. CASE HearLocal \/ HearRemote \/ Verify \/ Start \/ AllStarted
  BY <1>3, WireHear, WireVerify
<1>4. CASE Dial \/ RemoteConnects \/ \E h \in Hosts : HostGoesOn(h) \/ HostLeaves(h)
  BY <1>4, WireHosts
<1>5. CASE UNCHANGED vars
  BY <1>5 DEF vars, reg_vars, link_vars, tcp_vars, host_vars, WireInv, HeardInv, FirstInv,
         SecondInv, ToldInv, First, Blocks, Up
<1> QED
  BY <1>1, <1>2, <1>3, <1>4, <1>5 DEF Next, Constructor

\* Every step keeps the types.
LEMMA TypeNext == TypeOK /\ InLoop /\ [Next]_vars => TypeOK'
<1> SUFFICES ASSUME TypeOK, InLoop, [Next]_vars
             PROVE  TypeOK'
  OBVIOUS
<1>1. CASE UNCHANGED vars
  BY <1>1 DEF vars, pool_vars, route_vars, reg_vars, link_vars, tcp_vars, host_vars, TypeOK,
         Blocks, N
<1> QED
  BY <1>1, TypeGoesOn, TypePool, TypeRegister, TypeRoute, TypeExchange, TypeConnect, TypeHosts
  DEF Next, Constructor

\* What main.cc's application is: one SoC block, listed by both hosts.
LEMMA MainFacts ==
  ASSUME MainSetup
  PROVE  N = 1 /\ setup.kind[1] = "SoC" /\ First = Hosts
<1>1. setup.kind = <<"SoC">> /\ \A h \in Hosts : setup.wires[h] = {1}
  BY DEF MainSetup
<1>2. N = 1 /\ setup.kind[1] = "SoC"
  BY <1>1 DEF N
<1> QED
  BY <1>1, <1>2 DEF First

\* From the first message on, every step leads on: the loop over the blocks is
\* through, both flags are set, and a SoC block cannot fail to start.
LEMMA MainInvNext == TypeOK /\ WireInv /\ MainInv /\ [Next]_vars => MainInv'
<1> SUFFICES ASSUME TypeOK, WireInv, MainInv, [Next]_vars,
                    MainSetup', NEW h \in Hosts, sent'[h] # <<>>
             PROVE  /\ pc' \in {"tell_local", "visit", "start", "running"}
                    /\ pc' = "visit" => at' = 2
  BY DEF MainInv
<1>1. CASE TellRemote
  BY <1>1 DEF TellRemote
<1>2. CASE TellLocal
  BY <1>2 DEF TellLocal, WireInv, FirstInv
<1>3. CASE ~TellRemote /\ ~TellLocal
  <2>1. UNCHANGED <<setup, sent>>
    BY <1>3 DEF Next, Constructor, vars, LoadRules, Allocate, AllAllocated, GiveBack, CleanedUp,
           Deallocated, Register, AllRegistered, Unregister, Unregistered, Route, AllRouted,
           Dial, HearLocal, Accept, HearRemote, Visit, ConnectQp, Connected, Verify, Start,
           AllStarted, RemoteConnects, HostGoesOn, Greet, TakeParameters, NoticeClosed,
           HostLeaves, host_only, tcp_vars
  <2>2. MainSetup
    BY <2>1 DEF MainSetup
  <2>3. /\ pc \in {"tell_local", "visit", "start", "running"}
        /\ pc = "visit" => at = 2
    BY <2>1, <2>2 DEF MainInv
  <2>4. N = 1 /\ setup.kind[1] = "SoC" /\ First = Hosts
    BY <2>2, MainFacts
  <2>5. CASE Verify
    <3>1. tied = Hosts
      BY <2>3, <2>4, <2>5 DEF Verify, WireInv, SecondInv
    <3> QED
      BY <2>5, <3>1 DEF Verify, Goto
  <2>6. CASE Start
    <3>1. at = 1
      <4>1. at \in 1 .. N + 1 /\ at <= N
        BY <2>6 DEF Start, TypeOK
      <4> QED
        BY <2>4, <4>1
    <3> QED
      BY <2>4, <2>6, <3>1 DEF Start, MayFailToStart
  <2>7. CASE AllStarted
    BY <2>7 DEF AllStarted, Goto
  <2>8. ~Visit
    BY <2>3, <2>4 DEF Visit
  <2>9. CASE UNCHANGED <<pc, at>>
    BY <2>3, <2>9
  <2>10. UNCHANGED <<pc, at>> \/ Verify \/ Start \/ AllStarted
    BY <1>3, <2>3, <2>8 DEF Next, Constructor, vars, LoadRules, Allocate, AllAllocated, GiveBack,
           CleanedUp, Deallocated, Register, AllRegistered, Unregister, Unregistered, Route,
           AllRouted, Dial, HearLocal, Accept, HearRemote, ConnectQp, Connected, RemoteConnects,
           HostGoesOn, Greet, TakeParameters, NoticeClosed, HostLeaves, host_only
  <2> QED
    BY <2>5, <2>6, <2>7, <2>9, <2>10
<1> QED
  BY <1>1, <1>2, <1>3

\* PipeInv is an invariant of the specification.
LEMMA PipeInvariance == Spec => []PipeInv
<1>1. PipeInv /\ [Next]_vars => PipeInv'
  BY TypeNext, InLoopNext, RouteInvNext, WireInvNext, MainInvNext DEF PipeInv
<1> QED
  BY <1>1, PipeInit, PTL DEF Spec

----------------------------------------------------------------------------
(* The theorems.                                                           *)

\* Every variable keeps its type, whatever pool, application and hosts the
\* constructor is started with.
THEOREM PipelineTypeCorrect == Spec => []TypeOK
<1>1. PipeInv => TypeOK
  BY DEF PipeInv
<1> QED
  BY <1>1, PipeInvariance, PTL

\* The pipeline's rules (load_from_app_dag) and a block's router
\* (__init_retval_mappings) agree on every number that is an int, for every
\* description of an application, whatever the widths of int and unsigned long.
THEOREM RoutersAgree == Spec => []RoutesAgree
<1>1. PipeInv => RoutesAgree
  <2> SUFFICES ASSUME PipeInv, NEW b \in routed
               PROVE  /\ setup.name[b] \in KnownNames =>
                           DOMAIN routes[b].map =
                             {rules[i].kernel_retval : i \in {j \in DOMAIN rules :
                                /\ rules[j].source = setup.name[b]
                                /\ Numeric(rules[j].condition)
                                /\ IsInt(rules[j].condition.value)}}
                      /\ \A r \in Retvals : LookupChannel(routes[b], r) = b
    BY DEF RoutesAgree
  <2>1. /\ rules = LoadFromAppDag(setup.graph)
        /\ routes[b] = Registered(setup.graph, setup.name[b], b)
    BY DEF PipeInv, RouteInv
  <2>2. setup.graph \in Descriptions
    BY SetupFacts DEF PipeInv, TypeOK, Descriptions
  <2>3. /\ DOMAIN routes[b].map = RetvalsOf(setup.graph, setup.name[b])
        /\ \A r : LookupChannel(routes[b], r) = b
    BY <2>1, <2>2, MappingAgrees
  <2>4. ASSUME setup.name[b] \in KnownNames
        PROVE  {rules[i].kernel_retval : i \in {j \in DOMAIN rules :
                  /\ rules[j].source = setup.name[b]
                  /\ Numeric(rules[j].condition) /\ IsInt(rules[j].condition.value)}}
                 = RetvalsOf(setup.graph, setup.name[b])
    BY <2>1, <2>2, <2>4, LoadedAgree DEF Taken
  <2> QED
    BY <2>3, <2>4
<1> QED
  BY <1>1, PipeInvariance, PTL

\* A host that took the parameters it was sent is the peer of a queue pair that
\* is up and has receive buffers: for good if the application is main.cc's, and
\* until the process is over otherwise (__build_channel_connections, connect_qp).
THEOREM ToldParametersAreLive == Spec => []ParamsAreLive
<1>1. PipeInv => ParamsAreLive
  <2> SUFFICES ASSUME PipeInv, NEW h \in Hosts, host[h] = "ready"
               PROVE  \/ qp[partner[h]][Side(h)] =
                           [st |-> "RTS", peer |-> h, filled |-> TRUE, connected |-> TRUE]
                      \/ pc \in Final /\ ~MainSetup
    BY DEF ParamsAreLive
  <2>1. partner[h] = 1 /\ sent[h] # <<>> /\ info[h] # "none" /\ info[h] # "zero"
    BY DEF PipeInv, WireInv, ToldInv, HeardInv
  <2>2. info[h] = "real"
    BY <2>1 DEF PipeInv, TypeOK
  <2>3. CASE pc \in Over
    BY <2>1, <2>3 DEF PipeInv, MainInv, Over, Final
  <2>4. CASE pc \notin Over
    <3>1. qp[1][Side(h)] = Up(h)
      BY <2>1, <2>4 DEF PipeInv, WireInv, ToldInv
    <3> QED
      BY <2>1, <2>2, <3>1 DEF Up
  <2> QED
    BY <2>3, <2>4
<1> QED
  BY <1>1, PipeInvariance, PTL

\* A pipeline that runs is connected to both hosts and has told each of one
\* block, which its router knows.
THEOREM RunningPipelineIsWired == Spec => []RunningIsWired
<1>1. PipeInv => RunningIsWired
  <2> SUFFICES ASSUME PipeInv, pc = "running", NEW h \in Hosts
               PROVE  \E b \in setup.wires[h] :
                        /\ sent[h] = <<b>>
                        /\ qp[b][Side(h)].st = "RTS" /\ qp[b][Side(h)].filled
                        /\ info[h] = "real" => qp[b][Side(h)].peer = h
                        /\ setup.kind[b] = "SoC" => b \in routed
    BY DEF RunningIsWired
  <2>1. 1 \in Blocks /\ wrap[1] = "ready" /\ First = Hosts /\ sent[h] = <<1>>
    BY DEF PipeInv, WireInv, SecondInv
  <2>2. 1 \in setup.wires[h]
    BY <2>1 DEF First
  <2>3. qp[1][Side(h)] = Up(h)
    <3>1. <<1>> # <<>>
      OBVIOUS
    <3> QED
      BY <2>1, <3>1 DEF PipeInv, WireInv, ToldInv, Over
  <2>4. setup.kind[1] = "SoC" => 1 \in routed
    BY <2>1 DEF PipeInv, RouteInv, Routed, HasRouter
  <2> QED
    BY <2>1, <2>2, <2>3, <2>4 DEF Up
<1> QED
  BY <1>1, PipeInvariance, PTL

----------------------------------------------------------------------------
(* The quotas.                                                             *)

\* The shares of a component are natural numbers, one for each block.
LEMMA SharesTyped ==
  ASSUME TypeOK, NEW k
  PROVE  /\ Share(k) \in [1 .. N -> Nat]
         /\ \A b \in 1 .. N : Share(k)[b] =
              IF block[b] = "held" /\ setup.kind[b] = k THEN setup.quota[b] ELSE 0
<1>1. Blocks = 1 .. N /\ setup.quota \in [Blocks -> Nat]
  BY SetupFacts DEF TypeOK
<1> QED
  BY <1>1 DEF Share

\* One block taken or given back, and its quota taken from or given to the
\* pool.
LEMMA QuotaMoves ==
  ASSUME TypeOK, QuotaConserved, setup' = setup, NEW b \in Blocks, NEW v,
         block' = [block EXCEPT ![b] = v],
         \/ block[b] # "held" /\ v = "held" /\ pool' = Charged(b)
         \/ block[b] = "held" /\ v # "held" /\ pool' = Credited(b)
         \/ block[b] # "held" /\ v # "held" /\ pool' = pool
  PROVE  QuotaConserved'
<1> SUFFICES ASSUME NEW k \in DOMAIN setup.total
             PROVE  pool'[k] + SumTo(Share(k)', N) = setup.total[k]
  BY DEF QuotaConserved, N
<1>1. /\ N \in Nat /\ Blocks = 1 .. N /\ setup.quota[b] \in Nat /\ N' = N
      /\ setup.total[k] \in Nat
      /\ pool \in [DOMAIN setup.total -> Nat] /\ block \in [Blocks -> {"none", "held", "refused", "returned"}]
  BY SetupFacts DEF TypeOK, N
<1> DEFINE q == IF setup.kind[b] = k THEN setup.quota[b] ELSE 0
<1>2. PICK g \in [1 .. N -> Nat] :
        /\ g = Share(k)
        /\ \A i \in 1 .. N : g[i] =
             IF block[i] = "held" /\ setup.kind[i] = k THEN setup.quota[i] ELSE 0
  BY SharesTyped
<1>3. PICK e \in [1 .. N -> Nat] :
        /\ e = Share(k)'
        /\ \A i \in 1 .. N : e[i] =
             IF block'[i] = "held" /\ setup.kind[i] = k THEN setup.quota[i] ELSE 0
  <2>1. Share(k)' = [i \in 1 .. N |-> IF block'[i] = "held" /\ setup.kind[i] = k
                                    THEN setup.quota[i] ELSE 0]
    BY <1>1 DEF Share, Blocks
  <2>2. \A i \in 1 .. N : setup.quota[i] \in Nat
    BY <1>1, SetupFacts DEF TypeOK
  <2> QED
    BY <2>1, <2>2
<1>4. block'[b] = v /\ \A i \in 1 .. N \ {b} : block'[i] = block[i]
  BY <1>1
<1>5. \A i \in 1 .. N \ {b} : e[i] = g[i]
  BY <1>2, <1>3, <1>4
<1>6. b \in 1 .. N
  BY <1>1
<1>7. SumTo(g, N) \in Nat /\ SumTo(e, N) \in Nat /\ SumTo(e, N) = SumTo(g, N) + e[b] - g[b]
  BY <1>1, <1>5, <1>6, SumChanged
<1>8. pool[k] \in Nat /\ pool[k] + SumTo(g, N) = setup.total[k]
  BY <1>1, <1>2 DEF QuotaConserved
<1>9. g[b] \in Nat /\ e[b] \in Nat /\ pool'[k] = pool[k] + g[b] - e[b]
  <2>1. CASE block[b] # "held" /\ v = "held" /\ pool' = Charged(b)
    <3>1. g[b] = 0 /\ e[b] = q
      BY <1>2, <1>3, <1>4, <1>6, <2>1
    <3>2. pool'[k] = pool[k] - q
      BY <1>1, <2>1 DEF Charged
    <3> QED
      BY <1>1, <1>8, <3>1, <3>2
  <2>2. CASE block[b] = "held" /\ v # "held" /\ pool' = Credited(b)
    <3>1. g[b] = q /\ e[b] = 0
      BY <1>2, <1>3, <1>4, <1>6, <2>2
    <3>2. pool'[k] = pool[k] + q
      BY <1>1, <2>2 DEF Credited
    <3> QED
      BY <1>1, <1>8, <3>1, <3>2
  <2>3. CASE block[b] # "held" /\ v # "held" /\ pool' = pool
    <3>1. g[b] = 0 /\ e[b] = 0
      BY <1>2, <1>3, <1>4, <1>6, <2>3
    <3> QED
      BY <1>8, <2>3, <3>1
  <2> QED
    BY <2>1, <2>2, <2>3
<1>10. pool'[k] + SumTo(e, N) = setup.total[k]
  BY <1>7, <1>8, <1>9
<1> QED
  BY <1>3, <1>10

\* Which blocks are held at each step of the constructor. A loop that gives
\* them back has returned those before its position; when the loop after a
\* refused allocation returned one, its success leads on to the registration,
\* which finds a block it may not use.
Equipped == {"unregister", "route", "dial", "hear_local", "accept", "hear_remote", "visit",
             "connect", "tell_remote", "tell_local", "start", "running"}

AllHeld == \A b \in Blocks : block[b] = "held"
NoneHeld == \A b \in Blocks : block[b] # "held"
SomeReturned == \E b \in Blocks : block[b] = "returned"

PoolInv ==
  /\ order \in Bijection(Blocks, Blocks)
  /\ QuotaConserved
  /\ pc = "load" => \A b \in Blocks : block[b] = "none"
  /\ pc = "allocate" => \A b \in Blocks : block[b] = IF b < at THEN "held" ELSE "none"
  /\ pc \in {"cleanup", "deallocate"} =>
       \A i \in Mapped : block[order[i]] = IF i < at THEN "returned" ELSE "held"
  /\ pc = "cleanup" => (ok <=> SomeReturned)
  /\ pc = "register" => AllHeld \/ (at = 1 /\ SomeReturned /\ NoneHeld)
  /\ pc \in Equipped => AllHeld
  /\ pc = "returned" => NoneHeld

\* At first the pool is whole.
LEMMA PoolInit == Init => PoolInv
<1> SUFFICES ASSUME Init
             PROVE  PoolInv
  OBVIOUS
<1>1. TypeOK /\ N \in Nat
  BY TypeInit, SetupFacts DEF TypeOK
<1>2. ASSUME NEW k \in DOMAIN setup.total
      PROVE  pool[k] + SumTo(Share(k), N) = setup.total[k]
  <2>1. /\ Share(k) \in [1 .. N -> Nat]
        /\ \A b \in 1 .. N : Share(k)[b] =
             IF block[b] = "held" /\ setup.kind[b] = k THEN setup.quota[b] ELSE 0
    BY <1>1, SharesTyped
  <2>2. \A b \in 1 .. N : block[b] # "held"
    BY <1>1, SetupFacts DEF Init, TypeOK
  <2>3. \A b \in 1 .. N : Share(k)[b] = 0
    BY <2>1, <2>2
  <2>4. SumTo(Share(k), N) = 0
    BY <1>1, <2>1, <2>3, SumOfNothing
  <2>5. pool[k] = setup.total[k] /\ setup.total[k] \in Nat
    BY <1>1, SetupFacts DEF Init, TypeOK
  <2> QED
    BY <2>4, <2>5
<1>3. QuotaConserved
  BY <1>2 DEF QuotaConserved
<1> QED
  BY <1>3 DEF Init, PoolInv, Equipped

\* Taking a block.
LEMMA PoolAllocate ==
  ASSUME TypeOK, PoolInv, Allocate
  PROVE  PoolInv'
<1>1. /\ pc = "allocate" /\ at <= N /\ UNCHANGED <<setup, order>>
      /\ N \in Nat /\ Blocks = 1 .. N /\ at \in Blocks /\ Blocks' = Blocks
      /\ block \in [Blocks -> {"none", "held", "refused", "returned"}]
      /\ \A b \in Blocks : block[b] = IF b < at THEN "held" ELSE "none"
      /\ order \in [Blocks -> Blocks]
      /\ order \in Bijection(Blocks, Blocks) /\ QuotaConserved
  BY SetupFacts DEF Allocate, TypeOK, PoolInv, Blocks
<1>2. block[at] = "none"
  BY <1>1
<1>3. CASE pc' = "aborted" /\ UNCHANGED <<pool, block>>
  <2>1. QuotaConserved'
    BY <1>1, <1>3 DEF QuotaConserved, Share, N, Blocks
  <2> QED
    BY <1>1, <1>3, <2>1 DEF PoolInv, Equipped
<1>4. CASE /\ block' = [block EXCEPT ![at] = "refused"] /\ ok' = FALSE
           /\ pc' = "cleanup" /\ at' = 1 /\ UNCHANGED pool
  <2>1. QuotaConserved'
    BY <1>1, <1>2, <1>4, QuotaMoves
  <2>2. \A b \in Blocks : block'[b] \in {"none", "held", "refused"}
    BY <1>1, <1>4
  <2>3. \A i \in Mapped' : block'[order[i]] = "held" /\ ~(i < at')
    BY <1>1, <1>4, <2>2 DEF Mapped
  <2>4. ~SomeReturned'
    BY <1>1, <2>2 DEF SomeReturned
  <2> QED
    BY <1>1, <1>4, <2>1, <2>3, <2>4 DEF PoolInv, Equipped
<1>5. CASE /\ pool' = Charged(at) /\ block' = [block EXCEPT ![at] = "held"]
           /\ at' = at + 1 /\ UNCHANGED pc
  <2>1. QuotaConserved'
    BY <1>1, <1>2, <1>5, QuotaMoves
  <2>2. \A b \in Blocks : block'[b] = IF b < at' THEN "held" ELSE "none"
    <3> SUFFICES ASSUME NEW b \in Blocks
                 PROVE  block'[b] = IF b < at' THEN "held" ELSE "none"
      OBVIOUS
    <3>1. CASE b = at
      BY <1>1, <1>5, <3>1
    <3>2. CASE b # at
      <4>1. block'[b] = block[b] /\ (b < at' <=> b < at)
        BY <1>1, <1>5, <3>2
      <4> QED
        BY <1>1, <4>1
    <3> QED
      BY <3>1, <3>2
  <2> QED
    BY <1>1, <1>5, <2>1, <2>2 DEF PoolInv, Equipped
<1> QED
  BY <1>3, <1>4, <1>5 DEF Allocate, Goto, pool_vars

\* Giving a block back: the one at the loop's next position, which nobody has
\* returned yet.
LEMMA PoolGiveBack ==
  ASSUME TypeOK, PoolInv, GiveBack
  PROVE  PoolInv'
<1> DEFINE p == Position(Mapped)
           b == order[p]
<1>1. /\ pc \in {"cleanup", "deallocate"} /\ Rest(Mapped) # {} /\ UNCHANGED <<setup, order, pc>>
      /\ pool' = Credited(b) /\ block' = [block EXCEPT ![b] = "returned"]
      /\ ok' = TRUE /\ at' = p + 1
  BY DEF GiveBack
<1>2. /\ N \in Nat /\ Blocks = 1 .. N /\ Blocks' = Blocks /\ at \in 1 .. N + 1
      /\ block \in [Blocks -> {"none", "held", "refused", "returned"}]
      /\ order \in [Blocks -> Blocks]
      /\ \A i, j \in Blocks : order[i] = order[j] => i = j
      /\ order \in Bijection(Blocks, Blocks) /\ QuotaConserved
      /\ \A i \in Mapped : block[order[i]] = IF i < at THEN "returned" ELSE "held"
  BY <1>1, SetupFacts DEF TypeOK, PoolInv, Blocks, Bijection, Injection, IsInjective
<1>3. Mapped \subseteq Blocks
  BY DEF Mapped
<1>4. p \in Mapped /\ p \in Blocks /\ b \in Blocks
  BY <1>1, <1>3, NextPosition
<1>5. p >= at /\ \A i \in Mapped : i >= at => p <= i
  <2>1. Rest(Mapped) \subseteq Nat
    <3>1. 1 .. N \subseteq Nat
      BY <1>2
    <3>2. Rest(Mapped) \subseteq Mapped
      BY DEF Rest
    <3> QED
      BY <1>2, <1>3, <3>1, <3>2, Zenon
  <2>2. p \in Rest(Mapped) /\ \A i \in Rest(Mapped) : p <= i
    BY <1>1, <2>1, LeastMember DEF Position
  <2> QED
    BY <2>2 DEF Rest
<1> HIDE DEF p
<1>6. block[b] = "held"
  BY <1>2, <1>4, <1>5
<1>7. QuotaConserved'
  BY <1>1, <1>2, <1>4, <1>6, QuotaMoves
<1>8. ASSUME NEW i \in Mapped'
      PROVE  block'[order[i]] = IF i < at' THEN "returned" ELSE "held"
  <2>1. i \in Blocks /\ order[i] \in Blocks /\ block'[order[i]] \in {"held", "returned"}
    BY <1>1, <1>2 DEF Mapped
  <2>2. CASE i = p
    <3>1. i < at'
      BY <1>1, <1>2, <1>4, <2>2
    <3> QED
      BY <1>1, <1>2, <1>4, <2>2, <3>1
  <2>3. CASE i # p
    <3>1. order[i] # b
      BY <1>2, <1>4, <2>1, <2>3
    <3>2. block'[order[i]] = block[order[i]]
      BY <1>1, <1>2, <1>4, <2>1, <3>1
    <3>3. i \in Mapped
      BY <2>1, <3>2 DEF Mapped
    <3>4. i < at <=> i < at'
      BY <1>1, <1>2, <1>4, <1>5, <2>1, <2>3, <3>3
    <3> QED
      BY <1>2, <3>2, <3>3, <3>4
  <2> QED
    BY <2>2, <2>3
<1>9. SomeReturned'
  BY <1>1, <1>2, <1>4 DEF SomeReturned
<1> QED
  BY <1>1, <1>2, <1>7, <1>8, <1>9 DEF PoolInv, Equipped

\* When such a loop is through, no block is held.
LEMMA LoopIsThrough ==
  ASSUME TypeOK, PoolInv, pc \in {"cleanup", "deallocate"}, Rest(Mapped) = {}
  PROVE  NoneHeld
<1> SUFFICES ASSUME NEW b \in Blocks, block[b] = "held"
             PROVE  FALSE
  BY DEF NoneHeld
<1>1. PICK i \in Blocks : order[i] = b
  BY DEF PoolInv, Bijection, Surjection
<1>2. i \in Mapped
  BY <1>1 DEF Mapped
<1>3. ~(i < at)
  BY <1>1, <1>2 DEF PoolInv
<1>4. i >= at
  BY <1>3, SetupFacts DEF TypeOK
<1> QED
  BY <1>2, <1>4 DEF Rest

\* Steps that leave pool and blocks alone.
LEMMA PoolQuiet ==
  ASSUME TypeOK, PoolInv, UNCHANGED <<setup, order, pool, block>>,
         \/ UNCHANGED <<pc, at, ok>>
         \/ pc' = "allocate" /\ at' = 1 /\ \A b \in Blocks : block[b] = "none"
         \/ pc' = "register" /\ (AllHeld \/ (at' = 1 /\ SomeReturned /\ NoneHeld))
         \/ pc' \in Equipped /\ AllHeld
         \/ pc' = "deallocate" /\ at' = 1 /\ AllHeld
         \/ pc' = "returned" /\ NoneHeld
         \/ pc' \in Final \ {"returned"}
  PROVE  PoolInv'
<1>1. /\ QuotaConserved' /\ Blocks' = Blocks /\ Mapped' = Mapped /\ AllHeld' = AllHeld
      /\ NoneHeld' = NoneHeld /\ SomeReturned' = SomeReturned
      /\ order' \in Bijection(Blocks, Blocks)
  BY DEF PoolInv, QuotaConserved, Share, N, Blocks, Mapped, AllHeld, NoneHeld, SomeReturned
<1>2. N \in Nat /\ Blocks = 1 .. N /\ (\A b \in Blocks : ~(b < 1)) /\ order \in [Blocks -> Blocks]
  BY SetupFacts DEF TypeOK
<1>3. CASE UNCHANGED <<pc, at, ok>>
  BY <1>1, <1>3 DEF PoolInv
<1>4. CASE pc' = "allocate" /\ at' = 1 /\ \A b \in Blocks : block[b] = "none"
  BY <1>1, <1>2, <1>4 DEF PoolInv, Equipped
<1>5. CASE pc' = "deallocate" /\ at' = 1 /\ AllHeld
  <2>1. \A i \in Mapped : i \in Blocks /\ block[order[i]] = "held"
    BY <1>2, <1>5 DEF Mapped, AllHeld
  <2> QED
    BY <1>1, <1>2, <1>5, <2>1 DEF PoolInv, Equipped
<1>6. CASE \/ pc' = "register" /\ (AllHeld \/ (at' = 1 /\ SomeReturned /\ NoneHeld))
           \/ pc' \in Equipped /\ AllHeld
           \/ pc' = "returned" /\ NoneHeld
           \/ pc' \in Final \ {"returned"}
  BY <1>1, <1>6 DEF PoolInv, Equipped, Final, Over
<1> QED
  BY <1>3, <1>4, <1>5, <1>6

\* Every step keeps the pool and the blocks in accord.
LEMMA PoolInvNext == TypeOK /\ PoolInv /\ [Next]_vars => PoolInv'
<1> SUFFICES ASSUME TypeOK, PoolInv, [Next]_vars
             PROVE  PoolInv'
  OBVIOUS
<1>1. N \in Nat /\ Blocks = 1 .. N /\ at \in 1 .. N + 1
  BY SetupFacts DEF TypeOK
<1> USE DEF Goto, pool_vars
<1> DEFINE Alone == UNCHANGED <<setup, order, pool, block>>
<1>2. CASE Allocate \/ GiveBack
  BY <1>2, PoolAllocate, PoolGiveBack
<1>3. CASE LoadRules
  <2>1. Alone /\ pc' = "allocate" /\ at' = 1 /\ \A b \in Blocks : block[b] = "none"
    BY <1>3 DEF LoadRules, PoolInv
  <2> QED
    BY <2>1, PoolQuiet
<1>4. CASE AllAllocated
  <2>1. Alone /\ pc' = "register" /\ pc = "allocate" /\ at > N
    BY <1>4 DEF AllAllocated
  <2>2. \A b \in Blocks : b < at
    BY <1>1, <2>1
  <2>3. AllHeld
    BY <2>1, <2>2 DEF PoolInv, AllHeld
  <2> QED
    BY <2>1, <2>3, PoolQuiet
<1>5. CASE CleanedUp \/ Deallocated
  <2>1. /\ Alone /\ pc \in {"cleanup", "deallocate"} /\ Rest(Mapped) = {} /\ at' = 1
        /\ pc' = "returned" \/ (pc' = "register" /\ pc = "cleanup" /\ ok)
    BY <1>5 DEF CleanedUp, Deallocated
  <2>2. NoneHeld
    BY <2>1, LoopIsThrough
  <2>3. pc' = "register" => SomeReturned
    BY <2>1 DEF PoolInv
  <2> QED
    BY <2>1, <2>2, <2>3, PoolQuiet
<1>6. CASE Register
  <2>1. /\ Alone /\ pc = "register" /\ Rest(Mapped) # {}
        /\ \/ pc' = "undefined"
           \/ block[order[Position(Mapped)]] = "held" /\ pc' \in {"register", "unregister"}
    BY <1>6 DEF Register
  <2>2. order[Position(Mapped)] \in Blocks
    <3>1. Mapped \subseteq Blocks
      BY DEF Mapped
    <3> QED
      BY <2>1, <3>1, NextPosition
  <2>3. pc' # "undefined" => AllHeld
    BY <2>1, <2>2 DEF PoolInv, NoneHeld
  <2> QED
    BY <2>1, <2>3, PoolQuiet DEF Equipped, Final, Over
<1>7. CASE AllRegistered
  <2>1. Alone /\ pc = "register" /\ Rest(Mapped) = {} /\ pc' = "route"
    BY <1>7 DEF AllRegistered
  <2>2. ASSUME at = 1, NEW b \in Blocks, block[b] = "returned"
        PROVE  FALSE
    <3>1. PICK i \in Blocks : order[i] = b
      BY DEF PoolInv, Bijection, Surjection
    <3>2. i \in Mapped /\ i >= at
      BY <1>1, <2>2, <3>1 DEF Mapped
    <3> QED
      BY <2>1, <3>2 DEF Rest
  <2>3. AllHeld
    BY <2>1, <2>2 DEF PoolInv, SomeReturned
  <2> QED
    BY <2>1, <2>3, PoolQuiet DEF Equipped
<1>8. CASE Unregister \/ Unregistered \/ Route \/ AllRouted \/ Dial \/ HearLocal \/ Accept
           \/ HearRemote \/ Visit \/ ConnectQp \/ Connected \/ TellRemote \/ TellLocal \/ Verify
           \/ Start \/ AllStarted
  <2>1. /\ Alone /\ pc \in Equipped
        /\ pc' \in Equipped \cup {"undefined", "aborted", "not_started", "deallocate"}
        /\ pc' = "deallocate" => at' = 1
    BY <1>8 DEF Unregister, UnregisterSoC, UnregisterDPA, Unregistered, Route, AllRouted, Dial,
           HearLocal, Accept, HearRemote, Hear, Visit, ConnectQp, Connected, TellRemote, TellLocal,
           Verify, Start, AllStarted, ConnectionFails, Equipped
  <2>2. AllHeld
    BY <2>1 DEF PoolInv
  <2> QED
    BY <2>1, <2>2, PoolQuiet DEF Final, Over
<1>9. CASE RemoteConnects \/ (\E h \in Hosts : HostGoesOn(h) \/ HostLeaves(h)) \/ UNCHANGED vars
  <2>1. Alone /\ UNCHANGED <<pc, at, ok>>
    BY <1>9 DEF RemoteConnects, HostGoesOn, Greet, TakeParameters, NoticeClosed, HostLeaves,
           host_only, vars
  <2> QED
    BY <2>1, PoolQuiet
<1> QED
  BY <1>2, <1>3, <1>4, <1>5, <1>6, <1>7, <1>8, <1>9 DEF Next, Constructor

\* PoolInv is an invariant of the specification.
LEMMA PoolInvariance == Spec => []PoolInv
<1>1. TypeOK /\ PoolInv /\ [Next]_vars => PoolInv'
  BY PoolInvNext
<1> QED
  BY <1>1, PoolInit, PipelineTypeCorrect, PTL DEF Spec

\* The quotas in the pool and in the blocks always add up, whatever step of the
\* constructor fails (Component_*::allocate_block, deallocate_block).
THEOREM QuotaIsConserved == Spec => []QuotaConserved
<1>1. PoolInv => QuotaConserved
  BY DEF PoolInv
<1> QED
  BY <1>1, PoolInvariance, PTL

\* A constructor that gave up and returned has given everything back.
THEOREM PoolGetsBack == Spec => []GaveBack
<1>1. TypeOK /\ PoolInv => GaveBack
  <2> SUFFICES ASSUME TypeOK, PoolInv, pc = "returned"
               PROVE  pool = setup.total
    BY DEF GaveBack
  <2>1. /\ N \in Nat /\ Blocks = 1 .. N /\ pool \in [DOMAIN setup.total -> Nat]
        /\ setup.total \in [DOMAIN setup.total -> Nat]
    BY SetupFacts DEF TypeOK
  <2>2. ASSUME NEW k \in DOMAIN setup.total
        PROVE  pool[k] = setup.total[k]
    <3>1. /\ Share(k) \in [1 .. N -> Nat]
          /\ \A b \in 1 .. N : Share(k)[b] =
               IF block[b] = "held" /\ setup.kind[b] = k THEN setup.quota[b] ELSE 0
      BY SharesTyped
    <3>2. \A b \in 1 .. N : Share(k)[b] = 0
      BY <2>1, <3>1 DEF PoolInv, NoneHeld
    <3>3. SumTo(Share(k), N) = 0
      BY <2>1, <3>1, <3>2, SumOfNothing
    <3>4. pool[k] + SumTo(Share(k), N) = setup.total[k] /\ pool[k] \in Nat
      BY <2>1 DEF PoolInv, QuotaConserved
    <3> QED
      BY <3>3, <3>4
  <2> QED
    BY <2>1, <2>2
<1> QED
  BY <1>1, PoolInvariance, PipelineTypeCorrect, PTL

=============================================================================
