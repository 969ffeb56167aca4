---------------------------- MODULE NatAllocation ----------------------------
(***************************************************************************)
(* How an endpoint gets its address in the Docker network:                 *)
(* DockerConfigManager.sync_endpoint (docker_config.py) with               *)
(* Database.allocate_next_docker_nat_ip (storage.py), called by the        *)
(* request threads of the web server (create and update, beside delete)    *)
(* and, for every endpoint, when the server starts (server.py).            *)
(*                                                                         *)
(* A step is one transaction of the database, one write of the generated   *)
(* files, or the pure computation between two of them; each of them may    *)
(* raise.  An address is a number.  Of the two files only                  *)
(* docker-compose.yml holds the address, and is modelled by it.            *)
(***************************************************************************)
EXTENDS Integers, FiniteSets, FiniteSetsExt

CONSTANTS
    Endpoints,   \* ids the database ever gives out
    Threads,     \* request threads of the server
    Boot,        \* the thread that runs AppContext.start
    Subnets      \* values docker_network_subnet takes over restarts, as
                 \* records [base |-> network address, size |-> addresses]

NoEndpoint == "none"

ASSUME NatAssumption ==
    /\ IsFiniteSet(Endpoints)
    /\ Boot \notin Threads /\ NoEndpoint \notin Endpoints
    /\ Subnets # {}
    /\ \A s \in Subnets : s.base \in Nat \ {0} /\ s.size \in Nat \ {0}

None == 0              \* no address
Workers == Threads \cup {Boot}

VARIABLES
    subnet,     \* the configured subnet
    existing,   \* rows of the endpoints table
    fresh,      \* ids not given out yet (AUTOINCREMENT never reuses one)
    natIp,      \* endpoints.docker_nat_ip
    files,      \* the address in docker-compose.yml, None when the file is
                \* missing or cut off
    nextOffset, \* app_metadata docker_next_host_offset, 0 when absent
    todo,       \* endpoints that start() has still to sync
    at,         \* what each thread does
    on,         \* ... for which endpoint
    ip,         \* ... with which address
    overlapped, \* history: endpoints whose latest operation began during another one
    failed      \* history: endpoints whose latest operation raised before it
                \* had written, or removed, all it should

vars == <<subnet, existing, fresh, natIp, files, nextOffset, todo, at, on, ip,
          overlapped, failed>>
threadVars == <<at, on, ip>>
history == <<overlapped, failed>>

InSubnet(a, s) == s.base <= a /\ a < s.base + s.size
Hosts(s) == (s.base + 2)..(s.base + s.size - 2)

\* A database may already hold endpoints with addresses and no offset, as one
\* written before the offset was kept.
Init ==
    /\ subnet \in Subnets
    /\ existing \in SUBSET Endpoints /\ fresh = Endpoints \ existing
    /\ natIp \in [Endpoints -> Hosts(subnet) \cup {None}]
    /\ \A e \in fresh : natIp[e] = None
    /\ \A e, f \in existing : natIp[e] = natIp[f] /\ natIp[e] # None => e = f
    /\ files = natIp
    /\ nextOffset = 0
    /\ todo = existing
    /\ at = [t \in Workers |-> "idle"]
    /\ on = [t \in Workers |-> NoEndpoint]
    /\ ip = [t \in Workers |-> None]
    /\ overlapped = {} /\ failed = {}

\* Thread t goes on to l with endpoint e and address a in hand.
Goto(t, l, e, a) ==
    /\ at' = [at EXCEPT ![t] = l]
    /\ on' = [on EXCEPT ![t] = e]
    /\ ip' = [ip EXCEPT ![t] = a]

Return(t) == Goto(t, "idle", NoEndpoint, None)

\* An operation on e begins, during another one or not.
Begin(e) ==
    overlapped' = IF \E u \in Workers : on[u] = e THEN overlapped \cup {e}
                  ELSE overlapped \ {e}

Enter(t, l, e, a) ==
    /\ Goto(t, l, e, a)
    /\ Begin(e)
    /\ failed' = failed \ {e}

\* Variants with a plausible mistake, used to show that the properties can
\* fail, are named Wrong...
WrongUsable(a) == FALSE     \* never keeps the stored address

\* _normalize_existing_nat_ip
Usable(a) ==
    /\ a # None /\ InSubnet(a, subnet)
    /\ a # subnet.base /\ a # subnet.base + subnet.size - 1

\* _find_next_docker_offset_locked
FindNextOffset ==
    LET offsets == {natIp[e] - subnet.base :
                        e \in {f \in existing : InSubnet(natIp[f], subnet)}}
    IN  1 + Max(offsets \cup {1})

\* The offset allocate_next_docker_nat_ip hands out next.
NextOffset ==
    Max({2, IF nextOffset = 0 THEN FindNextOffset ELSE nextOffset})

-----------------------------------------------------------------------------
\* AppContext.start syncs the endpoints one by one before requests are served.
BootSync(e) ==
    /\ at[Boot] = "idle" /\ e \in todo
    /\ todo' = todo \ {e}
    /\ Enter(Boot, "sync", e, natIp[e])
    /\ UNCHANGED <<subnet, existing, fresh, natIp, files, nextOffset>>

Serving(t) == t \in Threads /\ todo = {} /\ at[Boot] = "idle" /\ at[t] = "idle"

WrongCreate(t, e) ==        \* an id may be given out again
    /\ Serving(t) /\ e \in fresh
    /\ existing' = existing \cup {e}
    /\ Enter(t, "sync", e, None)
    /\ UNCHANGED <<subnet, fresh, natIp, files, nextOffset, todo>>

\* create_endpoint: insert the row, read it back, sync it.
Create(t, e) ==
    /\ Serving(t) /\ e \in fresh
    /\ existing' = existing \cup {e}
    /\ fresh' = fresh \ {e}
    /\ Enter(t, "sync", e, None)
    /\ UNCHANGED <<subnet, natIp, files, nextOffset, todo>>

\* update_endpoint: write the row, read it back, sync it.
Update(t, e) ==
    /\ Serving(t) /\ e \in existing
    /\ Enter(t, "sync", e, natIp[e])
    /\ UNCHANGED <<subnet, existing, fresh, natIp, files, nextOffset, todo>>

\* delete_endpoint: remove the files, then the row.
DeleteFiles(t, e) ==
    /\ Serving(t) /\ e \in existing
    /\ files' = [files EXCEPT ![e] = None]
    /\ Enter(t, "delete", e, None)
    /\ UNCHANGED <<subnet, existing, fresh, natIp, nextOffset, todo>>

DeleteRow(t) ==
    /\ at[t] = "delete"
    /\ existing' = existing \ {on[t]}
    /\ natIp' = [natIp EXCEPT ![on[t]] = None]
    /\ Return(t)
    /\ UNCHANGED <<subnet, fresh, files, nextOffset, todo, history>>

WrongKeepIp(t) ==           \* takes the files of a known address for written
    /\ at[t] = "sync"
    /\ Usable(ip[t])
    /\ Goto(t, "metadata", on[t], ip[t])
    /\ UNCHANGED <<subnet, existing, fresh, natIp, files, nextOffset, todo, history>>

\* sync_endpoint: keep the address that was read if it fits the subnet.
KeepIp(t) ==
    /\ at[t] = "sync"
    /\ Usable(ip[t])
    /\ Goto(t, "files", on[t], ip[t])
    /\ UNCHANGED <<subnet, existing, fresh, natIp, files, nextOffset, todo, history>>

WrongAllocate(t) ==         \* reads the offset and forgets to store the next
    /\ at[t] = "sync"
    /\ ~Usable(ip[t])
    /\ NextOffset <= subnet.size - 2
    /\ Goto(t, "files", on[t], subnet.base + NextOffset)
    /\ UNCHANGED <<subnet, existing, fresh, natIp, files, nextOffset, todo, history>>

WrongLastOffset(t) ==       \* hands out the broadcast address as well
    /\ at[t] = "sync"
    /\ ~Usable(ip[t])
    /\ NextOffset <= subnet.size - 1
    /\ nextOffset' = NextOffset + 1
    /\ Goto(t, "files", on[t], subnet.base + NextOffset)
    /\ UNCHANGED <<subnet, existing, fresh, natIp, files, todo, history>>

\* Otherwise allocate the next one, in one transaction; an exhausted subnet
\* raises and ends the call.
Allocate(t) ==
    /\ at[t] = "sync"
    /\ ~Usable(ip[t])
    /\ IF NextOffset <= subnet.size - 2
       THEN /\ nextOffset' = NextOffset + 1
            /\ Goto(t, "files", on[t], subnet.base + NextOffset)
       ELSE Return(t) /\ UNCHANGED nextOffset
    /\ UNCHANGED <<subnet, existing, fresh, natIp, files, todo, history>>

\* Both files are written, in place.
WriteFiles(t) ==
    /\ at[t] = "files"
    /\ files' = [files EXCEPT ![on[t]] = ip[t]]
    /\ Goto(t, "metadata", on[t], ip[t])
    /\ UNCHANGED <<subnet, existing, fresh, natIp, nextOffset, todo, history>>

\* update_endpoint_docker_metadata: no row, no effect; the reload then raises.
WriteMetadata(t) ==
    /\ at[t] = "metadata"
    /\ natIp' = IF on[t] \in existing
                THEN [natIp EXCEPT ![on[t]] = ip[t]] ELSE natIp
    /\ Return(t)
    /\ UNCHANGED <<subnet, existing, fresh, files, nextOffset, todo, history>>

\* The write to the disk or to the database that t is at raises (the disk is
\* full, a delete has removed the directory): the request ends, the start of
\* the server logs it and goes on.  write_text truncates first: the old text,
\* none that can be used or the new one is left.
Raise(t) ==
    /\ at[t] # "idle" /\ ~(at[t] = "sync" /\ Usable(ip[t]))
    /\ \E left \in IF at[t] = "files" THEN {files[on[t]], None, ip[t]} ELSE {files[on[t]]} :
            files' = [files EXCEPT ![on[t]] = left]
    /\ failed' = IF at[t] \in {"files", "delete"} THEN failed \cup {on[t]} ELSE failed
    /\ Return(t)
    /\ UNCHANGED <<subnet, existing, fresh, natIp, nextOffset, todo, overlapped>>

\* delete_endpoint when rmtree raises: the request ends, the row is kept and
\* the files are still there, or not.
DeleteFails(t, e) ==
    /\ Serving(t) /\ e \in existing
    /\ \E left \in {files[e], None} : files' = [files EXCEPT ![e] = left]
    /\ Begin(e)
    /\ failed' = failed \cup {e}
    /\ UNCHANGED <<subnet, existing, fresh, natIp, nextOffset, todo, threadVars>>

\* The server stops or crashes at any point, which may leave a file that is
\* being written without its text, and starts with the same or another subnet
\* in its configuration.
Restart ==
    /\ subnet' \in Subnets
    /\ \E torn \in SUBSET {on[t] : t \in {u \in Workers : at[u] = "files"}} :
        files' = [e \in Endpoints |-> IF e \in torn THEN None ELSE files[e]]
    /\ todo' = existing
    /\ at' = [t \in Workers |-> "idle"]
    /\ on' = [t \in Workers |-> NoEndpoint]
    /\ ip' = [t \in Workers |-> None]
    /\ overlapped' = {} /\ failed' = {}
    /\ UNCHANGED <<existing, fresh, natIp, nextOffset>>

SyncStep(t) == KeepIp(t) \/ Allocate(t) \/ WriteFiles(t) \/ WriteMetadata(t)

Next ==
    \/ \E e \in Endpoints : BootSync(e)
    \/ \E t \in Threads, e \in Endpoints :
        Create(t, e) \/ Update(t, e) \/ DeleteFiles(t, e) \/ DeleteFails(t, e)
    \/ \E t \in Threads : DeleteRow(t)
    \/ \E t \in Workers : SyncStep(t) \/ Raise(t)
    \/ Restart

Spec == Init /\ [][Next]_vars

-----------------------------------------------------------------------------
\* Properties.

TypeOK ==
    /\ subnet \in Subnets
    /\ existing \subseteq Endpoints
    /\ fresh \subseteq Endpoints \ existing
    /\ natIp \in [Endpoints -> Nat]
    /\ files \in [Endpoints -> Nat]
    /\ nextOffset \in Nat
    /\ todo \subseteq Endpoints
    /\ at \in [Workers -> {"idle", "sync", "files", "metadata", "delete"}]
    /\ on \in [Workers -> Endpoints \cup {NoEndpoint}]
    /\ ip \in [Workers -> Nat]
    /\ overlapped \subseteq Endpoints /\ failed \subseteq Endpoints
    /\ \A t \in Workers : at[t] # "idle" => on[t] \in Endpoints

\* No two endpoints share an address, neither in the database nor in the
\* files their containers are started from, whatever requests run at the same
\* time, fail half-way or are cut off by a restart.
UniqueIps ==
    \A e, f \in existing :
        /\ natIp[e] = natIp[f] /\ natIp[e] # None => e = f
        /\ files[e] = files[f] /\ files[e] # None => e = f
        /\ natIp[e] = files[f] /\ natIp[e] # None => e = f

\* An address that is handed out is one a host may have.
IpsAreHosts ==
    \A e \in existing : natIp[e] # None => \E s \in Subnets : natIp[e] \in Hosts(s)

\* When nobody is syncing or deleting, the compose file of an endpoint holds
\* the address that is stored for it, also after a crash in the middle of a
\* sync and whatever requests on other endpoints overlap or fail: it is enough
\* that the latest operation on this one, or its sync when the server started,
\* had it for itself and wrote its files, which makes up for earlier ones that
\* raised and left a file cut off.
FilesAgree ==
    (todo = {} /\ \A t \in Workers : at[t] = "idle") =>
        \A e \in existing \ (overlapped \cup failed) : natIp[e] # None => files[e] = natIp[e]

\* The readme promises an endpoint one fixed address: once stored it is kept
\* for as long as the endpoint exists, but for requests on it that overlap.
IpIsFixed ==
    [][\A e \in (existing \cap existing') \ overlapped :
            natIp[e] # None => natIp'[e] = natIp[e]]_vars
=============================================================================
