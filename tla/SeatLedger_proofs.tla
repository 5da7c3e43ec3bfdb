------------------------- MODULE SeatLedger_proofs -------------------------
(***************************************************************************)
(* For any clients, machines, sessions, issuers, seat.json and lifetime:   *)
(* one campus has one clock, a ledger is one client's, a binding lapses,   *)
(* and the doctor and the resolver agree; sessions that do as they were    *)
(* told leave the doctor nothing to complain of, if seats stay primary.    *)
(***************************************************************************)
EXTENDS SeatLedger, TLAPS

\* What a live session was told still follows from the seat.json it started under.
Grounded ==
    \A s \in Sessions : identity[s] # None =>
        LET c == ClientOf[s]
            as == identity[s].as
            cfg == identity[s].under
        IN \/ as = Denied(c, Observed(s))
           \/ /\ Sound(cfg, c) /\ as.ledger = LedgerOf(cfg, c)
              /\ as.ownsClock => c = BindingClient(cfg)
              /\ MachineOf[s] = cfg.machine

\* A binding of machine m, with its lifetime, made no later than the last one made there.
MadeOn(b, m, last) ==
    /\ b \in BindingType /\ b.machine = m /\ b.expires = b.issued + TTL
    /\ last \in 0..MaxNow /\ b.issued <= last

MadeHere ==
    /\ \A m \in Machines :
          /\ binding[m] \in {None, Torn} \/ MadeOn(binding[m], m, issuedAt[m])
          /\ tmp[m] \in {None, Torn} \/ MadeOn(tmp[m], m, issuedAt[m])
          /\ issuedAt[m] # None => issuedAt[m] <= now
    /\ \A i \in Issuers : issuer[i].pc # "idle" => MadeOn(issuer[i].made, IssuerOn[i], issuedAt[IssuerOn[i]])

IInv == TypeOK /\ Grounded /\ MadeHere

LEMMA ConfigFacts ==
    ASSUME NEW cfg \in Configs, NEW c \in Clients
    PROVE  /\ cfg \in ConfigType
           /\ cfg.clients[c].seat \in SeatNames /\ cfg.clients[c].role \in Roles
BY ConfigsAssumption DEF ConfigType

\* What the resolver returns for a session is one of an identity's values, and grounded.
LEMMA Resolved ==
    ASSUME NEW s \in Sessions, NEW cfg \in Configs, NEW b, NEW t
    PROVE  LET as == ResolveSeat(cfg, ClientOf[s], Observed(s), b, t) IN
           /\ [as |-> as, under |-> cfg] \in IdentityType
           /\ \/ as = Denied(ClientOf[s], Observed(s))
              \/ /\ Sound(cfg, ClientOf[s]) /\ as.ledger = LedgerOf(cfg, ClientOf[s])
                 /\ as.ownsClock => ClientOf[s] = BindingClient(cfg)
                 /\ Vouched(cfg, ClientOf[s], Observed(s), b, t)
<1> DEFINE c == ClientOf[s]
           o == Observed(s)
           as == ResolveSeat(cfg, c, o, b, t)
<1>1. c \in Clients /\ o \in Machines \cup {None}
  BY SessionsAssumption DEF Observed
<1>2. CASE as = Denied(c, o)
  <2>1. Fallback(c, o) \in Files
    BY <1>1 DEF Files
  <2>2. QED
    BY <1>2, <2>1 DEF Denied, IdentityType
<1>3. CASE cfg.schema = 2 /\ Vouched(cfg, c, o, b, t) /\ Sound(cfg, c)
  <2>1. /\ cfg.clients[c].seat \in SeatNames
        /\ cfg.clients[c].role \in {"primary", "satellite"}
    BY <1>1, <1>3, ConfigFacts DEF Sound, Roles
  <2>2. Assigned(cfg.clients[c].seat) \in Files /\ LedgerOf(cfg, c) \in Files
    BY <2>1 DEF Files, LedgerOf
  <2>3. as = [seat |-> Assigned(cfg.clients[c].seat),
              role |-> cfg.clients[c].role,
              ownsClock |-> cfg.clients[c].role = "primary" /\ c = BindingClient(cfg),
              ledger |-> LedgerOf(cfg, c),
              via |-> IF o = None THEN "host-binding" ELSE "observed"]
    BY <1>3 DEF ResolveSeat
  <2> HIDE DEF as
  <2>4. /\ as.ownsClock = (cfg.clients[c].role = "primary" /\ c = BindingClient(cfg))
        /\ as.ledger = LedgerOf(cfg, c)
    BY <2>3
  <2>5. [as |-> as, under |-> cfg] \in IdentityType
    BY <2>1, <2>2, <2>3 DEF IdentityType
  <2>6. QED
    BY <1>3, <2>4, <2>5 DEF as
<1>4. QED
  BY <1>2, <1>3 DEF ResolveSeat

LEMMA InitIInv == Init => IInv
<1> SUFFICES ASSUME Init PROVE IInv
  OBVIOUS
<1>1. TypeOK
  BY TimesAssumption DEF Init, TypeOK, NotIssuing, IssuerType
<1>2. Grounded /\ MadeHere
  BY DEF Init, Grounded, MadeHere, NotIssuing
<1>3. QED
  BY <1>1, <1>2 DEF IInv

\* Bindings stay good while nothing is issued and time does not go back.
LEMMA MadeStays ==
    ASSUME IInv, UNCHANGED <<binding, tmp, issuer, issuedAt>>, now' \in Nat, now' >= now
    PROVE  MadeHere'
BY TimesAssumption DEF IInv, MadeHere, MadeOn, TypeOK

LEMMA StartupStep ==
    ASSUME IInv, NEW s \in Sessions, Startup(s)
    PROVE  IInv'
<1> DEFINE b == binding[MachineOf[s]]
           as == ResolveSeat(config, ClientOf[s], Observed(s), b, now)
           id == [as |-> as, under |-> config]
<1>1. config \in Configs /\ MachineOf[s] \in Machines /\ ClientOf[s] \in Clients
  BY SessionsAssumption DEF IInv, TypeOK
<1>2. /\ id \in IdentityType /\ id.as = as /\ id.under = config
      /\ identity' = [identity EXCEPT ![s] = id]
  BY <1>1, Resolved DEF Startup
<1>3. TypeOK'
  BY <1>2 DEF IInv, TypeOK, Startup
<1>4. /\ identity'[s] = id
      /\ \A t \in Sessions \ {s} : identity'[t] = identity[t]
  BY <1>2 DEF IInv, TypeOK
<1>5. ASSUME Vouched(config, ClientOf[s], Observed(s), b, now)
      PROVE  MachineOf[s] = config.machine
  <2>1. CASE Observed(s) # None
    BY <1>5, <2>1 DEF Vouched, Observed
  <2>2. CASE Observed(s) = None
    BY <1>1, <1>5, <2>2 DEF Vouched, CheckBinding, IInv, MadeHere, MadeOn
  <2>3. QED
    BY <2>1, <2>2
<1>6. \/ id.as = Denied(ClientOf[s], Observed(s))
      \/ /\ Sound(id.under, ClientOf[s]) /\ id.as.ledger = LedgerOf(id.under, ClientOf[s])
         /\ id.as.ownsClock => ClientOf[s] = BindingClient(id.under)
         /\ MachineOf[s] = id.under.machine
  BY <1>1, <1>2, <1>5, Resolved
<1> HIDE DEF id
<1>7. Grounded'
  BY <1>4, <1>6 DEF IInv, Grounded, Observed
<1>8. MadeHere'
  BY MadeStays, TimesAssumption DEF Startup, IInv, TypeOK
<1>9. QED
  BY <1>3, <1>7, <1>8 DEF IInv

LEMMA SessionStep ==
    ASSUME IInv, NEW s \in Sessions, AppendLine(s) \/ End(s)
    PROVE  IInv'
<1>1. \A t \in Sessions : identity'[t] \in {identity[t], None}
  BY DEF AppendLine, End, IInv, TypeOK
<1>2. /\ identity' \in [Sessions -> IdentityType \cup {None}]
      /\ UNCHANGED <<config, now, binding, tmp, issuer, issuedAt>>
  BY DEF AppendLine, End, IInv, TypeOK
<1>3. TypeOK'
  BY <1>2 DEF IInv, TypeOK
<1>4. Grounded'
  BY <1>1 DEF IInv, Grounded
<1>5. MadeHere'
  BY <1>2, MadeStays, TimesAssumption DEF IInv, TypeOK
<1>6. QED
  BY <1>3, <1>4, <1>5 DEF IInv

LEMMA OwnerStep ==
    ASSUME IInv, Tick \/ \E cfg \in Configs : Reassign(cfg)
    PROVE  IInv'
<1>1. /\ config' \in Configs /\ now' \in 0..MaxNow /\ now' >= now
      /\ UNCHANGED <<identity, binding, tmp, issuer, issuedAt>>
  BY TimesAssumption DEF Tick, Reassign, IInv, TypeOK
<1>2. TypeOK'
  BY <1>1 DEF IInv, TypeOK
<1>3. Grounded'
  BY <1>1 DEF IInv, Grounded
<1>4. MadeHere'
  BY <1>1, MadeStays DEF IInv
<1>5. QED
  BY <1>2, <1>3, <1>4 DEF IInv

\* An issuer's steps leave seat.json, the clock and the sessions alone.
LEMMA IssuerStep ==
    ASSUME IInv, MadeHere', UNCHANGED <<config, now, identity>>,
           binding' \in [Machines -> BindingType \cup {None, Torn}],
           tmp' \in [Machines -> BindingType \cup {None, Torn}],
           issuedAt' \in [Machines -> 0..MaxNow \cup {None}],
           issuer' \in [Issuers -> IssuerType]
    PROVE  IInv'
BY DEF IInv, TypeOK, Grounded

LEMMA IssueStep ==
    ASSUME IInv, NEW i \in Issuers, Issue(i)
    PROVE  IInv'
<1> DEFINE m == IssuerOn[i]
           made == NewBinding(IssuerFor[i], m, now)
           here == [pc |-> "write", made |-> made, file |-> "tmp"]
<1>1. m \in Machines /\ IssuerFor[i] \in Clients /\ now \in 0..MaxNow /\ now \in Nat
  BY SessionsAssumption, TimesAssumption DEF IInv, TypeOK
<1>2. /\ issuer' = [issuer EXCEPT ![i] = here]
      /\ tmp' = [tmp EXCEPT ![m] = Torn]
      /\ issuedAt' = [issuedAt EXCEPT ![m] = now]
      /\ UNCHANGED <<config, now, identity, binding>>
  BY DEF Issue
<1>3. /\ made \in BindingType /\ made.machine = m /\ made.issued = now
      /\ made.expires = now + TTL
  BY <1>1, TimesAssumption DEF NewBinding, BindingType
<1>4. here \in IssuerType /\ here.made = made /\ here.pc = "write"
  BY <1>3 DEF IssuerType
<1> HIDE DEF here, made, m
<1>5. /\ issuedAt'[m] = now /\ tmp'[m] = Torn
      /\ \A n \in Machines \ {m} : issuedAt'[n] = issuedAt[n] /\ tmp'[n] = tmp[n]
      /\ issuer'[i] = here
      /\ \A j \in Issuers \ {i} : issuer'[j] = issuer[j]
  BY <1>1, <1>2 DEF IInv, TypeOK
<1>6. ASSUME NEW b, NEW n \in Machines, MadeOn(b, n, issuedAt[n])
      PROVE  MadeOn(b, n, issuedAt'[n])
  <2>1. CASE n # m
    BY <1>5, <1>6, <2>1
  <2>2. CASE n = m
    <3>1. b.issued \in Nat /\ issuedAt[m] \in 0..MaxNow /\ b.issued <= issuedAt[m]
      BY <1>6, <2>2 DEF MadeOn, BindingType
    <3>2. issuedAt[m] # None /\ issuedAt[m] <= now
      BY <1>1, <3>1, TimesAssumption DEF IInv, MadeHere
    <3>3. b.issued <= now
      BY <1>1, <3>1, <3>2
    <3>4. QED
      BY <1>1, <1>5, <1>6, <2>2, <3>3 DEF MadeOn
  <2>3. QED
    BY <2>1, <2>2
<1>7. MadeHere'
  <2>1. ASSUME NEW n \in Machines
        PROVE  /\ binding'[n] \in {None, Torn} \/ MadeOn(binding'[n], n, issuedAt'[n])
               /\ tmp'[n] \in {None, Torn} \/ MadeOn(tmp'[n], n, issuedAt'[n])
               /\ issuedAt'[n] # None => issuedAt'[n] <= now'
    BY <1>1, <1>2, <1>5, <1>6 DEF IInv, MadeHere
  <2>2. ASSUME NEW j \in Issuers, issuer'[j].pc # "idle"
        PROVE  MadeOn(issuer'[j].made, IssuerOn[j], issuedAt'[IssuerOn[j]])
    <3>1. CASE j = i
      BY <1>1, <1>3, <1>4, <1>5, <3>1 DEF MadeOn, m
    <3>2. CASE j # i
      BY <1>5, <1>6, <2>2, <3>2, SessionsAssumption DEF IInv, MadeHere
    <3>3. QED
      BY <3>1, <3>2
  <2>3. QED
    BY <2>1, <2>2 DEF MadeHere
<1>8. QED
  BY <1>1, <1>2, <1>4, <1>7, IssuerStep DEF IInv, TypeOK

LEMMA WriteIssueStep ==
    ASSUME IInv, NEW i \in Issuers, WriteIssue(i)
    PROVE  IInv'
<1> DEFINE m == IssuerOn[i]
<1>1. /\ m \in Machines /\ issuer[i] \in IssuerType
      /\ MadeOn(issuer[i].made, m, issuedAt[m])
  BY SessionsAssumption DEF IInv, TypeOK, MadeHere, WriteIssue
<1>2. /\ issuer' = [issuer EXCEPT ![i].pc = "rename"]
      /\ UNCHANGED <<config, now, identity, issuedAt>>
  BY DEF WriteIssue
<1>3. /\ issuer' \in [Issuers -> IssuerType]
      /\ \A j \in Issuers : issuer'[j].made = issuer[j].made
      /\ \A j \in Issuers \ {i} : issuer'[j] = issuer[j]
  BY <1>2 DEF IInv, TypeOK, IssuerType
<1>4. \E text \in {issuer[i].made, Torn} :
        /\ tmp' = tmp \/ tmp' = [tmp EXCEPT ![m] = text]
        /\ binding' = binding \/ binding' = [binding EXCEPT ![m] = text]
  BY DEF WriteIssue, Overwritten
<1> PICK text \in {issuer[i].made, Torn} :
        /\ tmp' = tmp \/ tmp' = [tmp EXCEPT ![m] = text]
        /\ binding' = binding \/ binding' = [binding EXCEPT ![m] = text]
  BY <1>4
<1>5. /\ tmp' \in [Machines -> BindingType \cup {None, Torn}]
      /\ binding' \in [Machines -> BindingType \cup {None, Torn}]
      /\ \A n \in Machines : tmp'[n] = tmp[n] \/ (n = m /\ tmp'[n] = text)
      /\ \A n \in Machines : binding'[n] = binding[n] \/ (n = m /\ binding'[n] = text)
  <2>1. text \in BindingType \cup {None, Torn}
    BY <1>1 DEF MadeOn
  <2>2. /\ tmp \in [Machines -> BindingType \cup {None, Torn}]
        /\ binding \in [Machines -> BindingType \cup {None, Torn}]
    BY DEF IInv, TypeOK
  <2> HIDE DEF m
  <2>3. QED
    BY <1>1, <2>1, <2>2
<1> HIDE DEF m
<1>6. MadeHere'
  <2>1. ASSUME NEW n \in Machines
        PROVE  /\ binding'[n] \in {None, Torn} \/ MadeOn(binding'[n], n, issuedAt'[n])
               /\ tmp'[n] \in {None, Torn} \/ MadeOn(tmp'[n], n, issuedAt'[n])
               /\ issuedAt'[n] # None => issuedAt'[n] <= now'
    BY <1>1, <1>2, <1>5 DEF IInv, MadeHere, MadeOn
  <2>2. ASSUME NEW j \in Issuers, issuer'[j].pc # "idle"
        PROVE  MadeOn(issuer'[j].made, IssuerOn[j], issuedAt'[IssuerOn[j]])
    BY <1>1, <1>2, <1>3, <2>2 DEF IInv, MadeHere, MadeOn, m
  <2>3. QED
    BY <2>1, <2>2 DEF MadeHere
<1>7. QED
  BY <1>2, <1>3, <1>5, <1>6, IssuerStep DEF IInv, TypeOK

LEMMA RenameIssueStep ==
    ASSUME IInv, NEW i \in Issuers, RenameIssue(i) \/ CrashIssue(i)
    PROVE  IInv'
<1> DEFINE m == IssuerOn[i]
<1>1. m \in Machines
  BY SessionsAssumption
<1>2. /\ UNCHANGED <<config, now, identity, issuedAt>>
      /\ \/ UNCHANGED <<binding, tmp>>
         \/ binding' = [binding EXCEPT ![m] = tmp[m]] /\ tmp' = [tmp EXCEPT ![m] = None]
  BY DEF RenameIssue, CrashIssue
<1>3. /\ binding' \in [Machines -> BindingType \cup {None, Torn}]
      /\ tmp' \in [Machines -> BindingType \cup {None, Torn}]
      /\ \A n \in Machines : binding'[n] \in {binding[n], tmp[n]} /\ tmp'[n] \in {tmp[n], None}
  BY <1>1, <1>2 DEF IInv, TypeOK
<1>4. NotIssuing \in IssuerType /\ NotIssuing.pc = "idle"
  BY DEF NotIssuing, IssuerType
<1>5. /\ issuer' \in [Issuers -> IssuerType]
      /\ \A j \in Issuers : issuer'[j].pc # "idle" =>
            issuer[j].pc # "idle" /\ issuer'[j].made = issuer[j].made
  <2>1. CASE issuer' = [issuer EXCEPT ![i] = NotIssuing]
    BY <1>4, <2>1 DEF IInv, TypeOK
  <2>2. CASE issuer' = [j \in Issuers |->
                  IF j = i THEN NotIssuing ELSE [issuer[j] EXCEPT !.file = Moved(j, m)]]
    <3>1. ASSUME NEW j \in Issuers
          PROVE  /\ Moved(j, m) \in {"none", "tmp", "binding", "gone"}
                 /\ issuer[j] \in IssuerType
      BY DEF Moved, IInv, TypeOK, IssuerType
    <3>2. ASSUME NEW j \in Issuers
          PROVE  LET f == [issuer[j] EXCEPT !.file = Moved(j, m)] IN
                 f \in IssuerType /\ f.pc = issuer[j].pc /\ f.made = issuer[j].made
      BY <3>1 DEF IssuerType
    <3>3. QED
      BY <1>4, <2>2, <3>2
  <2>3. QED
    BY <2>1, <2>2 DEF RenameIssue, CrashIssue
<1>6. MadeHere'
  BY <1>2, <1>3, <1>5 DEF IInv, MadeHere, MadeOn
<1>7. QED
  BY <1>2, <1>3, <1>5, <1>6, IssuerStep DEF IInv, TypeOK

LEMMA StepPreserves == IInv /\ [Next]_vars => IInv'
<1> SUFFICES ASSUME IInv, [Next]_vars PROVE IInv'
  OBVIOUS
<1>1. CASE UNCHANGED vars
  BY <1>1 DEF vars, IInv, TypeOK, Grounded, MadeHere, MadeOn
<1>2. CASE Next
  BY <1>2, StartupStep, SessionStep, OwnerStep, IssueStep, WriteIssueStep, RenameIssueStep
     DEF Next
<1>3. QED
  BY <1>1, <1>2

LEMMA Invariance == Spec => []IInv
BY InitIInv, StepPreserves, PTL DEF Spec

\* Every run keeps the variables in their types, whoever edits, resolves and issues.
THEOREM TypeCorrect == Spec => []TypeOK
<1>1. IInv => TypeOK
  BY DEF IInv
<1>2. QED
  BY <1>1, Invariance, PTL

\* One campus, one clock: of the sessions that started under one seat.json, those told they
\* own the clock are of one client and on the machine seat.json names (resolve).
THEOREM OneClockAlways == Spec => []OneClock
<1>1. IInv => OneClock
  <2> SUFFICES ASSUME IInv, NEW s \in Sessions, NEW t \in Sessions,
                      identity[s] # None, identity[t] # None,
                      identity[s].under = identity[t].under,
                      identity[s].as.ownsClock, identity[t].as.ownsClock
               PROVE  ClientOf[s] = ClientOf[t] /\ MachineOf[s] = identity[s].under.machine
    BY DEF OneClock
  <2>1. \A c, o : Denied(c, o).ownsClock = FALSE
    BY DEF Denied
  <2>2. /\ identity[s].as # Denied(ClientOf[s], Observed(s))
        /\ identity[t].as # Denied(ClientOf[t], Observed(t))
    BY <2>1
  <2>3. QED
    BY <2>2 DEF IInv, Grounded
<1>2. QED
  BY <1>1, Invariance, PTL

\* A ledger file is one client's: sessions of two clients that started under one seat.json
\* are given different files, whether they were let in or denied (resolve).
THEOREM ShardsApart == Spec => []ShardPerClient
<1>1. IInv => ShardPerClient
  <2> SUFFICES ASSUME IInv, NEW s \in Sessions, NEW t \in Sessions,
                      identity[s] # None, identity[t] # None,
                      identity[s].under = identity[t].under, ClientOf[s] # ClientOf[t]
               PROVE  identity[s].as.ledger # identity[t].as.ledger
    BY DEF ShardPerClient
  <2> DEFINE cfg == identity[s].under
             c == ClientOf[s]
             d == ClientOf[t]
  <2>1. c \in Clients /\ d \in Clients
    BY SessionsAssumption
  <2>2. /\ \/ identity[s].as.ledger = Fallback(c, Observed(s))
           \/ Sound(cfg, c) /\ identity[s].as.ledger = LedgerOf(cfg, c)
        /\ \/ identity[t].as.ledger = Fallback(d, Observed(t))
           \/ Sound(cfg, d) /\ identity[t].as.ledger = LedgerOf(cfg, d)
    <3>1. \A x, y : Denied(x, y).ledger = Fallback(x, y)
      BY DEF Denied
    <3>2. QED
      BY <3>1 DEF IInv, Grounded
  <2>3. \A x, y, o : LedgerOf(x, y) # Fallback(c, o) /\ LedgerOf(x, y) # Fallback(d, o)
    BY DEF LedgerOf, Shared, Assigned, Fallback
  <2>4. \A o, p : Fallback(c, o) # Fallback(d, p)
    BY DEF Fallback
  <2>5. Sound(cfg, c) /\ Sound(cfg, d) => LedgerOf(cfg, c) # LedgerOf(cfg, d)
    BY <2>1 DEF Sound, LedgerOf, Shared, Assigned
  <2>6. QED
    BY <2>2, <2>3, <2>4, <2>5
<1>2. QED
  BY <1>1, Invariance, PTL

\* A client that cannot see its machine is let in only within the lifetime of the last
\* binding made on that machine: when issues stop it goes dark (check_binding).
THEOREM DarkAfterTTL == Spec => []DarkWhenIssuesStop
<1>1. IInv => DarkWhenIssuesStop
  <2> SUFFICES ASSUME IInv, NEW c \in Clients, NEW m \in Machines,
                      ResolveSeat(config, c, None, binding[m], now).via = "host-binding"
               PROVE  issuedAt[m] # None /\ now < issuedAt[m] + TTL
    BY DEF DarkWhenIssuesStop
  <2>1. Denied(c, None).via = "unresolved"
    BY DEF Denied
  <2>2. CheckBinding(config, c, binding[m], now)
    BY <2>1 DEF ResolveSeat, Vouched
  <2>3. MadeOn(binding[m], m, issuedAt[m]) /\ now < binding[m].expires
    BY <2>2 DEF CheckBinding, IInv, MadeHere
  <2>4. issuedAt[m] \in Nat /\ binding[m].issued \in Nat /\ now \in Nat
    BY <2>3, TimesAssumption DEF MadeOn, BindingType, IInv, TypeOK
  <2>5. QED
    BY <2>3, <2>4, TimesAssumption DEF MadeOn
<1>2. QED
  BY <1>1, Invariance, PTL

\* Doctor and resolver never disagree about one binding file: check_host_binding calls it
\* fresh exactly when check_binding accepts it from the clock owner.
THEOREM DoctorAndResolverAgree == Spec => []DoctorAgrees
<1>1. IInv => DoctorAgrees
  <2> SUFFICES ASSUME IInv, NEW m \in Machines
               PROVE  DoctorBinding(config, binding[m], now) = "fresh"
                        <=> CheckBinding(config, BindingClient(config), binding[m], now)
    BY DEF DoctorAgrees
  <2>1. DoctorHolder(config) = BindingClient(config)
    BY SessionsAssumption DEF DoctorHolder, BindingClient, Primaries
  <2>2. CASE binding[m] \in {None, Torn}
    BY <2>2 DEF DoctorBinding, CheckBinding
  <2>3. CASE binding[m] \notin {None, Torn}
    <3>1. binding[m].client \in Clients /\ binding[m].expires \in Nat /\ now \in Nat
      BY <2>3, TimesAssumption DEF IInv, TypeOK, MadeHere, MadeOn, BindingType
    <3>2. binding[m].client # None
      BY <3>1, SessionsAssumption
    <3>3. binding[m].machine # None
      <4>1. binding[m].machine \in Machines
        BY <2>3 DEF IInv, TypeOK, MadeHere, MadeOn, BindingType
      <4>2. QED
        BY <4>1, SessionsAssumption
    <3>4. QED
      BY <2>1, <2>3, <3>1, <3>2, <3>3 DEF DoctorBinding, CheckBinding, Usable
  <2>4. QED
    BY <2>2, <2>3
<1>2. QED
  BY <1>1, Invariance, PTL

-----------------------------------------------------------------------------
(* The stamps in the ledgers.                                              *)

\* The seats that may have been given the shared ledger, under any form of seat.json.
HolderSeats ==
    {seat \in Files : \E cfg \in Configs, c \in Clients :
        LedgerOf(cfg, c) = Shared /\ seat = Assigned(cfg.clients[c].seat)}

\* A line of a ledger is of its seat, or of a holder's in the shared one.
Fits(seat, file) == IF file = Shared THEN seat \in HolderSeats ELSE seat = file

LineType == [seat : Files \cup {None}, via : {"observed", "host-binding", "unresolved"}]

StampsFit ==
    /\ \A s \in Sessions : identity[s] # None => Fits(identity[s].as.seat, identity[s].as.ledger)
    /\ ledgers \in [Files -> Seq(LineType)]
    /\ \A f \in Files : \A i \in DOMAIN ledgers[f] :
          Fits(ledgers[f][i].seat, f) \/ (f = Shared /\ i = 1 /\ ledgers[f][i].seat = None)

LEMMA SharedIsNoSeat ==
    /\ \A name \in SeatNames : Assigned(name) # Shared /\ Assigned(name) \in Files
    /\ \A c, m : Fallback(c, m) # Shared
    /\ Shared \in Files
BY DEF Assigned, Shared, Fallback, Files

LEMMA InitStampsFit == Init => StampsFit
<1> SUFFICES ASSUME Init PROVE StampsFit
  OBVIOUS
<1>1. PICK old \in {<<>>, <<LegacyLine>>} :
         ledgers = [f \in Files |-> IF f = Shared THEN old ELSE <<>>]
  BY DEF Init
<1>2. LegacyLine \in LineType /\ LegacyLine.seat = None
  BY DEF LegacyLine, LineType
<1> HIDE DEF LegacyLine
<1>3. old \in Seq(LineType) /\ \A i \in DOMAIN old : i = 1 /\ old[i].seat = None
  <2>1. CASE old = <<>>
    BY <2>1
  <2>2. CASE old = <<LegacyLine>>
    BY <1>2, <2>2
  <2>3. QED
    BY <2>1, <2>2
<1>4. \A f \in Files : ledgers[f] \in Seq(LineType) /\ (f # Shared => DOMAIN ledgers[f] = {})
  BY <1>1, <1>3
<1>5. ledgers \in [Files -> Seq(LineType)]
  BY <1>1, <1>4
<1>6. \A s \in Sessions : identity[s] = None
  BY DEF Init
<1>7. ASSUME NEW f \in Files, NEW i \in DOMAIN ledgers[f]
      PROVE  f = Shared /\ i = 1 /\ ledgers[f][i].seat = None
  BY <1>1, <1>3, <1>4, <1>7
<1>8. QED
  BY <1>5, <1>6, <1>7 DEF StampsFit

\* What the resolver tells a session to stamp fits the ledger it gives it.
LEMMA ResolvedFits ==
    ASSUME NEW s \in Sessions, NEW cfg \in Configs, NEW b, NEW t
    PROVE  LET as == ResolveSeat(cfg, ClientOf[s], Observed(s), b, t)
           IN  Fits(as.seat, as.ledger)
<1> DEFINE c == ClientOf[s]
           o == Observed(s)
           as == ResolveSeat(cfg, c, o, b, t)
<1>1. c \in Clients /\ cfg.clients[c].seat \in SeatNames
  BY SessionsAssumption, ConfigFacts
<1>2. CASE as = Denied(c, o)
  <2>1. as.seat = Fallback(c, o) /\ as.ledger = Fallback(c, o)
    BY <1>2 DEF Denied
  <2>2. QED
    BY <2>1, SharedIsNoSeat DEF Fits
<1>3. CASE cfg.schema = 2 /\ Vouched(cfg, c, o, b, t) /\ Sound(cfg, c)
  <2>1. as.seat = Assigned(cfg.clients[c].seat) /\ as.ledger = LedgerOf(cfg, c)
    BY <1>3 DEF ResolveSeat
  <2> HIDE DEF as
  <2>2. ASSUME LedgerOf(cfg, c) = Shared PROVE as.seat \in HolderSeats
    BY <1>1, <2>1, <2>2, SharedIsNoSeat DEF HolderSeats
  <2>3. ASSUME LedgerOf(cfg, c) # Shared PROVE as.seat = as.ledger
    BY <2>1, <2>3 DEF LedgerOf
  <2>4. Fits(as.seat, as.ledger)
    BY <2>1, <2>2, <2>3 DEF Fits
  <2>5. QED
    BY <2>4 DEF as
<1>4. QED
  BY <1>2, <1>3 DEF ResolveSeat

LEMMA StepStampsFit == IInv /\ StampsFit /\ [Next]_vars => StampsFit'
<1> SUFFICES ASSUME IInv, StampsFit, [Next]_vars PROVE StampsFit'
  OBVIOUS
<1>0. identity \in [Sessions -> IdentityType \cup {None}] /\ config \in Configs
  BY DEF IInv, TypeOK
<1>1. ASSUME NEW s \in Sessions, Startup(s) PROVE StampsFit'
  <2> DEFINE as == ResolveSeat(config, ClientOf[s], Observed(s), binding[MachineOf[s]], now)
  <2>1. Fits(as.seat, as.ledger)
    BY <1>0, ResolvedFits
  <2>2. identity' = [identity EXCEPT ![s] = [as |-> as, under |-> config]] /\ ledgers' = ledgers
    BY <1>1 DEF Startup
  <2> HIDE DEF as
  <2>3. identity'[s].as = as /\ \A t \in Sessions \ {s} : identity'[t] = identity[t]
    BY <1>0, <2>2
  <2>4. QED
    BY <2>1, <2>2, <2>3 DEF StampsFit
<1>2. ASSUME NEW s \in Sessions, AppendLine(s) PROVE StampsFit'
  <2> DEFINE as == identity[s].as
             line == [seat |-> as.seat, via |-> as.via]
             f == as.ledger
  <2>1. as.seat \in Files /\ f \in Files /\ line \in LineType /\ line.seat = as.seat
    BY <1>0, <1>2 DEF AppendLine, IdentityType, LineType
  <2>2. ledgers' = [ledgers EXCEPT ![f] = ledgers[f] \o <<line>>] /\ identity' = identity
    BY <1>2 DEF AppendLine, Stamp
  <2>3. Fits(line.seat, f)
    BY <1>2, <2>1 DEF StampsFit, AppendLine
  <2> HIDE DEF line, f, as
  <2>4. ledgers \in [Files -> Seq(LineType)]
    BY DEF StampsFit
  <2>5. /\ ledgers[f] \o <<line>> \in Seq(LineType)
        /\ DOMAIN (ledgers[f] \o <<line>>) = DOMAIN ledgers[f] \cup {Len(ledgers[f]) + 1}
        /\ \A i \in DOMAIN ledgers[f] : (ledgers[f] \o <<line>>)[i] = ledgers[f][i]
        /\ (ledgers[f] \o <<line>>)[Len(ledgers[f]) + 1] = line
    BY <2>1, <2>4
  <2>6. ledgers'[f] = ledgers[f] \o <<line>> /\ \A g \in Files \ {f} : ledgers'[g] = ledgers[g]
    BY <2>1, <2>2, <2>4
  <2>7. ledgers' \in [Files -> Seq(LineType)]
    BY <2>1, <2>2, <2>4, <2>5
  <2>8. ASSUME NEW g \in Files, NEW i \in DOMAIN ledgers'[g]
        PROVE  Fits(ledgers'[g][i].seat, g) \/ (g = Shared /\ i = 1 /\ ledgers'[g][i].seat = None)
    <3>1. CASE g # f \/ i \in DOMAIN ledgers[f]
      <4>1. i \in DOMAIN ledgers[g] /\ ledgers'[g][i] = ledgers[g][i]
        BY <2>5, <2>6, <2>8, <3>1
      <4>2. QED
        BY <4>1 DEF StampsFit
    <3>2. CASE g = f /\ i \notin DOMAIN ledgers[f]
      BY <2>3, <2>5, <2>6, <2>8, <3>2
    <3>3. QED
      BY <3>1, <3>2
  <2>9. QED
    BY <2>2, <2>7, <2>8 DEF StampsFit
<1>3. ASSUME NEW s \in Sessions, End(s) PROVE StampsFit'
  BY <1>0, <1>3 DEF End, StampsFit
<1>4. CASE UNCHANGED <<identity, ledgers>>
  BY <1>4 DEF StampsFit
<1>5. QED
  BY <1>1, <1>2, <1>3, <1>4 DEF Next, vars, Issue, WriteIssue, RenameIssue, CrashIssue, Reassign, Tick

\* When no edit of seat.json takes its leave from a seat that may have written the shared
\* ledger, the doctor never complains of what sessions wrote where and as they were told:
\* neither the lines from before stamps, nor those of earlier clock owners, nor those of
\* sessions that outlive the edit (seat_contract_checks.py:172-295).
THEOREM DoctorStaysQuiet == HoldersStay => (Spec => []DoctorQuiet)
<1> SUFFICES ASSUME HoldersStay PROVE Spec => []DoctorQuiet
  OBVIOUS
<1>1. IInv /\ StampsFit => DoctorQuiet
  <2> SUFFICES ASSUME IInv, StampsFit, config.role = "primary"
               PROVE  /\ DoctorExit(config, None, now, ledgers) = 0
                      /\ \A m \in Machines :
                            DoctorExit(config, binding[m], now, ledgers) = 1 =>
                               DoctorBinding(config, binding[m], now) \in {"expired", "invalid"}
    BY DEF DoctorQuiet
  <2>1. HolderSeats \subseteq AllowedSeats(config)
    BY DEF HolderSeats, HoldersStay, AllowedSeats, IInv, TypeOK
  <2>2. Unresolved(config, ledgers[Shared]) = {}
    BY <2>1, SharedIsNoSeat DEF Unresolved, StampsFit, Fits
  <2>3. ASSUME NEW f \in Files PROVE BadStamps(f, ledgers[f]) = {}
    <3>1. CASE f = Shared
      <4>1. None \notin HolderSeats
        BY FilesAssumption DEF HolderSeats
      <4>2. \A i \in DOMAIN ledgers[f] : ledgers[f][i].seat = None => i = 1
        BY <3>1, <4>1 DEF StampsFit, Fits
      <4>3. QED
        BY <3>1, <4>2 DEF BadStamps
    <3>2. CASE f # Shared
      BY <3>2, FilesAssumption DEF BadStamps, StampsFit, Fits
    <3>3. QED
      BY <3>1, <3>2
  <2>4. DOMAIN ledgers = Files
    BY DEF StampsFit
  <2>5. DoctorBinding(config, None, now) = "absent"
    BY DEF DoctorBinding
  <2>6. QED
    BY <2>2, <2>3, <2>4, <2>5 DEF DoctorExit
<1>2. QED
  BY <1>1, InitStampsFit, StepStampsFit, Invariance, PTL DEF Spec
=============================================================================
