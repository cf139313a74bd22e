----------------------------- MODULE ResolverList ----------------------------
(***************************************************************************)
(* What the resolvconf hook of dnsmasq promises.  Resolvconf keeps a       *)
(* record of nameservers per interface.  A change of a record starts an    *)
(* update, and an update publishes, in one step, the nameservers of the    *)
(* records dnsmasq may ask: which records those are, and what each of them *)
(* holds, is as it was at moments between the update's start and its end.  *)
(* An update some command of which fails may publish a part of such a      *)
(* list.  dnsmasq serves the list that is published.                       *)
(***************************************************************************)
EXTENDS Naturals

CONSTANTS Procs,   \* updates that may run
          Records, \* names of records
          Own,     \* lo.dnsmasq, the record that names dnsmasq itself
          Local,   \* lo.*, the records of nameservers on this machine
          Rank,    \* the place of a record in resolvconf's order
          Offers,  \* what each record may hold: sets of nameservers
          Self,    \* 127.0.0.1
          Absent, Nothing

Contents == UNION {Offers[r] : r \in Records}
Lists    == SUBSET UNION Contents
Database == {m \in [Records -> Contents \cup {Absent}] :
               \A r \in Records : m[r] \in Offers[r] \cup {Absent}}
NoRecord == [r \in Records |-> Absent]

Present(m) == {r \in Records : m[r] # Absent}

(* What list-records --after lo.dnsmasq lists *)
After(m) == {r \in Present(m) : Rank[Own] <= Rank[r]}

MutantChosen(m) ==
    {r \in After(m) : \A l \in (After(m) \cap Local) \ {Own} : Rank[r] <= Rank[l]}

(* The records dnsmasq may ask: of those listed not its own, and none      *)
(* after the first of another nameserver on this machine.                  *)
Chosen(m) ==
    {r \in After(m) \ {Own} : \A l \in (After(m) \cap Local) \ {Own} : Rank[r] <= Rank[l]}

(* The nameservers of a record, none when it has gone *)
Held(r, m) == IF m[r] = Absent THEN {} ELSE m[r]

(* The nameservers of some records, each record read at a moment of its own *)
Listed(names, at) == UNION {Held(r, at[r]) : r \in names}
Readings(names, moments) == {Listed(names, at) : at \in [names -> moments]}

(* All of them read at one moment *)
Now(m) == Listed(Chosen(m), [r \in Records |-> m])

-----------------------------------------------------------------------------
VARIABLES db,        \* the records
          window,    \* for each update, the databases since it started
          faulted,   \* the updates some command of which has failed
          published, \* the list for dnsmasq
          served     \* the list that dnsmasq asks

vars == <<db, window, faulted, published, served>>

Init == /\ db = NoRecord /\ window = [p \in Procs |-> {}] /\ faulted = {}
        /\ published = Nothing /\ served = Nothing

(* A record changes, and p starts to publish the change. *)
Change(p) ==
    /\ window[p] = {} /\ db' \in Database
    /\ window' = [q \in Procs |-> IF q = p THEN {db'}
                                  ELSE IF window[q] = {} THEN {} ELSE window[q] \cup {db'}]
    /\ UNCHANGED <<faulted, published, served>>

Falter(p) == window[p] # {} /\ faulted' = faulted \cup {p}
               /\ UNCHANGED <<db, window, published, served>>

Ended(p) == window' = [window EXCEPT ![p] = {}] /\ faulted' = faulted \ {p}

Publish(p) ==
    /\ Ended(p)
    /\ \E m \in window[p] : \E list \in Readings(Chosen(m), window[p]) :
         \E part \in SUBSET list : published' = part /\ (part = list \/ p \in faulted)
    /\ UNCHANGED <<db, served>>

(* An update that ends early publishes nothing. *)
Abandon(p) == Ended(p) /\ UNCHANGED <<db, published, served>>

Serve == published # Nothing /\ served' = published /\ UNCHANGED <<db, window, faulted, published>>
Leave == served' = Nothing /\ UNCHANGED <<db, window, faulted, published>>
Reboot == db' = NoRecord /\ window' = [p \in Procs |-> {}] /\ faulted' = {}
            /\ published' = Nothing /\ served' = Nothing

Next == \/ \E p \in Procs : Change(p) \/ Falter(p) \/ Publish(p) \/ Abandon(p)
        \/ Serve \/ Leave \/ Reboot

Spec == Init /\ [][Next]_vars
=============================================================================
