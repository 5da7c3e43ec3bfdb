----------------------------- MODULE SeatLedger -----------------------------
(***************************************************************************)
(* Seats, the host binding and the activity ledgers                        *)
(* (src/tools/resolve-seat.py, src/tools/seat_contract_checks.py,          *)
(* src/templates/ledger-paths.md, host-binding-heartbeat.plist).           *)
(*                                                                         *)
(* A session resolves its seat once, when it starts, from seat.json, the   *)
(* fingerprint of its machine if it can see it, and else the host binding; *)
(* from then on it appends to the ledger it was given.  Host processes     *)
(* issue the binding, which lapses unless it is issued again; the owner    *)
(* can edit seat.json; the doctor reads all of it and reports.  Sessions   *)
(* can run on several machines that share the campus through a sync        *)
(* service, which never carries the binding.                               *)
(***************************************************************************)
EXTENDS Integers, Sequences, FiniteSets

CONSTANTS
    Clients,      \* claude-cowork, claude-code, codex
    Machines,     \* named by their fingerprint
    SeatNames,
    Sessions, ClientOf, MachineOf,
    Sandboxed,    \* the sessions that cannot see the fingerprint
    Issuers,      \* processes that run --issue-binding: launchd, the owner
    IssuerOn,     \* IssuerOn[i]: the machine issuer i runs on
    IssuerFor,    \* IssuerFor[i]: the client it names
    Configs,      \* what seat.json may say
    TTL,          \* the lifetime a binding is issued with (12 hours)
    TTLMax,       \* TTL_MAX_HOURS (24 hours)
    Skew,         \* CLOCK_SKEW (5 minutes)
    None, Torn,
    MaxNow, MaxLines, MaxReassigns, MaxIssues   \* bounds on the counted steps

\* The role of a client in seat.json; absent, when it is not listed there.
Roles == {"primary", "satellite", "absent"}

\* seat.json: the top-level seat and role, and the assignment of each client.
ConfigType ==
    [schema : {1, 2}, machine : Machines \cup {None}, owner : Clients \cup {None},
     seat : SeatNames, role : {"primary", "satellite"},
     clients : [Clients -> [seat : SeatNames, role : Roles]]]

ASSUME SessionsAssumption ==
    /\ ClientOf \in [Sessions -> Clients] /\ MachineOf \in [Sessions -> Machines]
    /\ Sandboxed \subseteq Sessions
    /\ IssuerOn \in [Issuers -> Machines] /\ IssuerFor \in [Issuers -> Clients]
    /\ None \notin Clients \cup Machines \cup SeatNames /\ None # Torn

ASSUME ConfigsAssumption == Configs \subseteq ConfigType

ASSUME TimesAssumption ==
    /\ None \notin Nat
    /\ TTL \in Nat /\ TTLMax \in Nat /\ Skew \in Nat /\ 0 < TTL /\ TTL <= TTLMax
    /\ MaxNow \in Nat /\ MaxLines \in Nat /\ MaxReassigns \in Nat /\ MaxIssues \in Nat

BindingType ==
    [client : Clients, machine : Machines, issued : Nat, expires : Nat]

-----------------------------------------------------------------------------
(* resolve-seat.py.                                                        *)

Primaries(cfg) == {c \in Clients : cfg.clients[c].role = "primary"}

\* The one client that may hold a binding and owns the clock: clock_owner if it is a
\* primary, else the only primary.
BindingClient(cfg) ==
    IF cfg.owner \in Primaries(cfg) THEN cfg.owner
    ELSE IF Cardinality(Primaries(cfg)) = 1 THEN CHOOSE c \in Primaries(cfg) : TRUE
    ELSE None

\* Mutant: a binding is good in the very second it expires.
GoodToTheEnd(cfg, client, b, now) ==
    /\ b \notin {None, Torn}
    /\ b.client = client /\ BindingClient(cfg) = client
    /\ b.machine = cfg.machine
    /\ b.issued <= now + Skew
    /\ b.expires - b.issued <= TTLMax + Skew
    /\ now <= b.expires

\* check_binding: schema, client, clock owner, machine, not from the future, not too long,
\* not expired.  A file that does not parse is no binding.
CheckBinding(cfg, client, b, now) ==
    /\ b \notin {None, Torn}
    /\ b.client = client /\ BindingClient(cfg) = client
    /\ b.machine # None /\ b.machine = cfg.machine
    /\ b.issued <= now + Skew
    /\ b.expires - b.issued <= TTLMax + Skew
    /\ now < b.expires

\* A seat and a ledger are named alike, <<kind, name, fingerprint>>.
Shared == <<"shared", None, None>>
Assigned(name) == <<"seat", name, None>>
Fallback(client, observed) == <<"unassigned", client, observed>>

\* Mutant: a role of its own for a client that is denied.
DeniedRole(client, observed) ==
    [seat |-> Fallback(client, observed), role |-> "unassigned", ownsClock |-> FALSE,
     ledger |-> Fallback(client, observed), via |-> "unresolved"]

Denied(client, observed) ==
    [seat |-> Fallback(client, observed), role |-> "satellite", ownsClock |-> FALSE,
     ledger |-> Fallback(client, observed), via |-> "unresolved"]

\* The assignments resolve accepts: a named clock owner, and a seat no other client has.
Sound(cfg, client) ==
    /\ Primaries(cfg) # {} /\ BindingClient(cfg) # None
    /\ cfg.clients[client].role # "absent"
    /\ \A c \in Clients \ {client} :
          cfg.clients[c].role # "absent" => cfg.clients[c].seat # cfg.clients[client].seat

\* Mutant: a machine that shows its fingerprint is not compared with seat.json.
AnyObserved(cfg, client, observed, b, now) ==
    observed # None \/ CheckBinding(cfg, client, b, now)

\* The session is on this installation: it sees the fingerprint of seat.json, or sees none
\* and the binding vouches.  A binding never overrides a mismatch.
Vouched(cfg, client, observed, b, now) ==
    IF observed # None
    THEN observed = cfg.machine
    ELSE CheckBinding(cfg, client, b, now)

\* Mutant: the shared ledger goes with the role.
LedgerByRole(cfg, client) ==
    IF cfg.clients[client].role = "primary" THEN Shared
    ELSE Assigned(cfg.clients[client].seat)

LedgerOf(cfg, client) ==
    IF cfg.clients[client].role = "primary" /\ client = BindingClient(cfg) THEN Shared
    ELSE Assigned(cfg.clients[client].seat)

ResolveSeat(cfg, client, observed, b, now) ==
    IF cfg.schema = 2 /\ Vouched(cfg, client, observed, b, now) /\ Sound(cfg, client)
    THEN [seat |-> Assigned(cfg.clients[client].seat),
          role |-> cfg.clients[client].role,
          ownsClock |-> cfg.clients[client].role = "primary" /\ client = BindingClient(cfg),
          ledger |-> LedgerOf(cfg, client),
          via |-> IF observed = None THEN "host-binding" ELSE "observed"]
    ELSE Denied(client, observed)

\* issue_binding: only on the machine seat.json names, only for the clock owner.
MayIssue(cfg, client, observed) ==
    /\ cfg.schema = 2 /\ cfg.machine # None
    /\ observed = cfg.machine
    /\ BindingClient(cfg) = client

NewBinding(client, observed, now) ==
    [client |-> client, machine |-> observed, issued |-> now, expires |-> now + TTL]

-----------------------------------------------------------------------------
(* seat_contract_checks.py, which judges the same files on its own.        *)

DoctorHolder(cfg) ==
    LET primaries == {c \in Clients : cfg.clients[c].role = "primary"}
    IN IF cfg.owner # None /\ cfg.owner \in primaries THEN cfg.owner
       ELSE IF Cardinality(primaries) = 1 THEN CHOOSE c \in primaries : TRUE
       ELSE None

\* check_host_binding's checks on a file that parses, in its order but for the last.
Usable(cfg, b, now) ==
    /\ DoctorHolder(cfg) # None /\ b.client = DoctorHolder(cfg)
    /\ b.machine = cfg.machine
    /\ b.issued <= now + Skew
    /\ b.expires - b.issued <= TTLMax + Skew

DoctorBinding(cfg, b, now) ==
    IF b = None THEN "absent"
    ELSE IF b = Torn \/ ~Usable(cfg, b, now) THEN "invalid"
    ELSE IF b.expires <= now THEN "expired" ELSE "fresh"

\* Mutant: only the top-level seat may write the shared ledger.
TopSeatOnly(cfg) == IF cfg.role = "primary" THEN {Assigned(cfg.seat)} ELSE {}

AllowedSeats(cfg) ==
    (IF cfg.role = "primary" THEN {Assigned(cfg.seat)} ELSE {})
        \cup {Assigned(cfg.clients[c].seat) : c \in Primaries(cfg)}

\* check_foreign_writes (i): lines of the shared ledger no allowed seat stamped.
Unresolved(cfg, lines) ==
    IF cfg.role # "primary" THEN {}
    ELSE {i \in DOMAIN lines : lines[i].seat \notin AllowedSeats(cfg) \cup {None}}

\* check_seat_stamps: in a file that has adopted stamps, a line without one; in a shard, a
\* line with another seat's.
BadStamps(file, lines) ==
    {i \in DOMAIN lines :
        \/ /\ lines[i].seat = None
           /\ file # Shared \/ \E j \in 1..i - 1 : lines[j].seat # None
        \/ lines[i].seat \notin {None, file} /\ file # Shared}

\* main, with nothing to report of the sync service.  Who owns what is verified from the
\* top-level seat only.
DoctorExit(cfg, b, t, books) ==
    IF /\ cfg.role = "primary"
       /\ Unresolved(cfg, books[Shared]) = {}
       /\ \A f \in DOMAIN books : BadStamps(f, books[f]) = {}
       /\ DoctorBinding(cfg, b, t) \notin {"expired", "invalid"}
    THEN 0 ELSE 1

-----------------------------------------------------------------------------

VARIABLES
    config,    \* seat.json
    now,
    identity,  \* per session: what it resolved when it started, and under which seat.json
    ledgers,   \* per ledger file, its lines
    binding,   \* per machine, host-binding.json
    tmp,       \* per machine, host-binding.json.tmp
    issuer,    \* per issuing process, where it is
    issuedAt,  \* history: per machine, when a binding was last made, None before
    used       \* how many of each counted step were taken

vars == <<config, now, identity, ledgers, binding, tmp, issuer, issuedAt, used>>

Files ==
    {Shared} \cup {Assigned(n) : n \in SeatNames}
        \cup {Fallback(c, m) : c \in Clients, m \in Machines \cup {None}}

ASSUME FilesAssumption == None \notin Files

Observed(s) == IF s \in Sandboxed THEN None ELSE MachineOf[s]

NotIssuing == [pc |-> "idle", made |-> None, file |-> "none"]

\* Resolved once at startup; nothing resolves again while the session lives.
Startup(s) ==
    /\ identity[s] = None
    /\ identity' = [identity EXCEPT ![s] =
          [as |-> ResolveSeat(config, ClientOf[s], Observed(s), binding[MachineOf[s]], now),
           under |-> config]]
    /\ UNCHANGED <<config, now, ledgers, binding, tmp, issuer, issuedAt, used>>

Stamp(s) == identity[s].as.seat

\* One line, with the session's seat, in the ledger the session was given.
AppendLine(s) ==
    /\ used.lines < MaxLines
    /\ identity[s] # None
    /\ ledgers' = [ledgers EXCEPT ![identity[s].as.ledger] =
          @ \o <<[seat |-> Stamp(s), via |-> identity[s].as.via]>>]
    /\ used' = [used EXCEPT !.lines = @ + 1]
    /\ UNCHANGED <<config, now, identity, binding, tmp, issuer, issuedAt>>

End(s) ==
    /\ identity[s] # None
    /\ identity' = [identity EXCEPT ![s] = None]
    /\ UNCHANGED <<config, now, ledgers, binding, tmp, issuer, issuedAt, used>>

\* issue_binding and the open of the fixed temporary name, which truncates it.
Issue(i) ==
    LET m == IssuerOn[i] IN
    /\ used.issues < MaxIssues
    /\ issuer[i].pc = "idle"
    /\ MayIssue(config, IssuerFor[i], m)
    /\ issuer' = [issuer EXCEPT ![i] =
          [pc |-> "write", made |-> NewBinding(IssuerFor[i], m, now), file |-> "tmp"]]
    /\ tmp' = [tmp EXCEPT ![m] = Torn]
    /\ issuedAt' = [issuedAt EXCEPT ![m] = now]
    /\ used' = [used EXCEPT !.issues = @ + 1]
    /\ UNCHANGED <<config, now, identity, ledgers, binding>>

\* A text written from the start of a file that holds old: the name of another client may
\* be longer, and the end of its text then stays.
Overwritten(old, made) ==
    IF old # Torn /\ old.client # made.client THEN {made, Torn} ELSE {made}

\* The text reaches the file that was opened, which another issuer may have renamed to
\* host-binding.json, or replaced there, since.
WriteIssue(i) ==
    LET m == IssuerOn[i]
        made == issuer[i].made
    IN
    /\ issuer[i].pc = "write"
    /\ issuer' = [issuer EXCEPT ![i].pc = "rename"]
    /\ \/ /\ issuer[i].file = "tmp"
          /\ \E text \in Overwritten(tmp[m], made) : tmp' = [tmp EXCEPT ![m] = text]
          /\ UNCHANGED binding
       \/ /\ issuer[i].file = "binding"
          /\ \E text \in Overwritten(binding[m], made) :
                binding' = [binding EXCEPT ![m] = text]
          /\ UNCHANGED tmp
       \/ issuer[i].file = "gone" /\ UNCHANGED <<binding, tmp>>
    /\ UNCHANGED <<config, now, identity, ledgers, issuedAt, used>>

\* Where an open file of machine m is once tmp has been renamed over the binding.
Moved(j, m) ==
    IF IssuerOn[j] # m THEN issuer[j].file
    ELSE CASE issuer[j].file = "tmp" -> "binding"
           [] issuer[j].file = "binding" -> "gone"
           [] OTHER -> issuer[j].file

\* tmp.replace(binding_file), which raises when another issuer has renamed tmp.
RenameIssue(i) ==
    LET m == IssuerOn[i] IN
    /\ issuer[i].pc = "rename"
    /\ IF tmp[m] = None
       THEN /\ issuer' = [issuer EXCEPT ![i] = NotIssuing]
            /\ UNCHANGED <<binding, tmp>>
       ELSE /\ binding' = [binding EXCEPT ![m] = tmp[m]]
            /\ tmp' = [tmp EXCEPT ![m] = None]
            /\ issuer' = [j \in Issuers |->
                  IF j = i THEN NotIssuing ELSE [issuer[j] EXCEPT !.file = Moved(j, m)]]
    /\ UNCHANGED <<config, now, identity, ledgers, issuedAt, used>>

\* The process dies with its file open.
CrashIssue(i) ==
    /\ issuer[i].pc # "idle"
    /\ issuer' = [issuer EXCEPT ![i] = NotIssuing]
    /\ UNCHANGED <<config, now, identity, ledgers, binding, tmp, issuedAt, used>>

\* The owner edits seat.json, to hand the clock to another client for instance.
Reassign(cfg) ==
    /\ used.reassigns < MaxReassigns
    /\ cfg # config
    /\ config' = cfg
    /\ used' = [used EXCEPT !.reassigns = @ + 1]
    /\ UNCHANGED <<now, identity, ledgers, binding, tmp, issuer, issuedAt>>

Tick ==
    /\ now < MaxNow
    /\ now' = now + 1
    /\ UNCHANGED <<config, identity, ledgers, binding, tmp, issuer, issuedAt, used>>

\* A line from before seats were stamped.
LegacyLine == [seat |-> None, via |-> "observed"]

Init ==
    /\ config \in Configs
    /\ now = 0
    /\ identity = [s \in Sessions |-> None]
    /\ \E old \in {<<>>, <<LegacyLine>>} :
          ledgers = [f \in Files |-> IF f = Shared THEN old ELSE <<>>]
    /\ binding = [m \in Machines |-> None]
    /\ tmp = [m \in Machines |-> None]
    /\ issuer = [i \in Issuers |-> NotIssuing]
    /\ issuedAt = [m \in Machines |-> None]
    /\ used = [lines |-> 0, reassigns |-> 0, issues |-> 0]

Next ==
    \/ \E s \in Sessions : Startup(s) \/ AppendLine(s) \/ End(s)
    \/ \E i \in Issuers : Issue(i) \/ WriteIssue(i) \/ RenameIssue(i) \/ CrashIssue(i)
    \/ \E cfg \in Configs : Reassign(cfg)
    \/ Tick

Spec == Init /\ [][Next]_vars

-----------------------------------------------------------------------------
(* Properties.                                                             *)

IdentityType ==
    [as : [seat : Files, role : {"primary", "satellite"}, ownsClock : BOOLEAN,
           ledger : Files, via : {"observed", "host-binding", "unresolved"}],
     under : Configs]

IssuerType ==
    [pc : {"idle", "write", "rename"}, made : BindingType \cup {None},
     file : {"none", "tmp", "binding", "gone"}]

\* The variables hold what the program can put in them.
TypeOK ==
    /\ config \in Configs /\ now \in 0..MaxNow
    /\ identity \in [Sessions -> IdentityType \cup {None}]
    /\ binding \in [Machines -> BindingType \cup {None, Torn}]
    /\ tmp \in [Machines -> BindingType \cup {None, Torn}]
    /\ issuedAt \in [Machines -> 0..MaxNow \cup {None}]
    /\ issuer \in [Issuers -> IssuerType]

\* Of the sessions that started under one seat.json, on whatever machines and with whatever
\* bindings, those that own the clock are all of one client, on the machine seat.json names
\* (one campus, one clock: binding_client, resolve).
OneClock ==
    \A s, t \in Sessions :
        /\ identity[s] # None /\ identity[t] # None
        /\ identity[s].under = identity[t].under
        /\ identity[s].as.ownsClock /\ identity[t].as.ownsClock
        => /\ ClientOf[s] = ClientOf[t]
           /\ MachineOf[s] = identity[s].under.machine

\* A ledger is one client's: live sessions of two clients that started under one seat.json
\* never append to the same file, denied ones included.
ShardPerClient ==
    \A s, t \in Sessions :
        /\ identity[s] # None /\ identity[t] # None
        /\ identity[s].under = identity[t].under
        /\ ClientOf[s] # ClientOf[t]
        => identity[s].as.ledger # identity[t].as.ledger

\* One file per seat makes concurrent writes safe on every transport: two live sessions
\* that append to one file are on one machine.
OneMachinePerFile ==
    \A s, t \in Sessions :
        /\ identity[s] # None /\ identity[t] # None
        /\ identity[s].as.ledger = identity[t].as.ledger
        => MachineOf[s] = MachineOf[t]

\* Two missed beats go dark: a session that cannot see its machine is let in only while the
\* last binding made on that machine, whichever file it ended in, is within its lifetime.
DarkWhenIssuesStop ==
    \A c \in Clients, m \in Machines :
        ResolveSeat(config, c, None, binding[m], now).via = "host-binding" =>
            issuedAt[m] # None /\ now < issuedAt[m] + TTL

\* Doctor and resolver never disagree about the binding file: the doctor calls it fresh
\* exactly when the resolver accepts it from the clock owner (check_host_binding).
DoctorAgrees ==
    \A m \in Machines :
        DoctorBinding(config, binding[m], now) = "fresh"
            <=> CheckBinding(config, BindingClient(config), binding[m], now)

\* The owner's edits of seat.json: a seat that may have written the shared ledger under one
\* form stays primary, or the top-level seat, under the others.
HoldersStay ==
    \A old, new \in Configs, c \in Clients :
        LedgerOf(old, c) = Shared /\ new.role = "primary" =>
            LET seat == old.clients[c].seat IN
            seat = new.seat \/ \E d \in Primaries(new) : new.clients[d].seat = seat

\* Sessions that append where and as they were told never make the doctor complain, those
\* that outlive an edit of seat.json included, when HoldersStay (after a demotion it asks
\* for a review of the history): it exits 1 for a binding it cannot use or
\* that nobody renewed, and for nothing they wrote (check_foreign_writes,
\* check_seat_stamps).
DoctorQuiet ==
    config.role = "primary" =>
        /\ DoctorExit(config, None, now, ledgers) = 0
        /\ \A m \in Machines :
              DoctorExit(config, binding[m], now, ledgers) = 1 =>
                  DoctorBinding(config, binding[m], now) \in {"expired", "invalid"}
=============================================================================
