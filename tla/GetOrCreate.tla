----------------------------- MODULE GetOrCreate -----------------------------
(***************************************************************************)
(* The SDK's check-then-create helpers: get_or_create_organization         *)
(* (python_scripts/organizations.py) and get_or_create_user               *)
(* (lib/users.py, the users of one organization).  Each lists the objects  *)
(* (find_organization_by_name, find_user_by_name), returns the first one   *)
(* with the name asked for, and otherwise POSTs a create.  Scripts call    *)
(* them with clients of their own, so calls of several callers            *)
(* interleave on the appliance.                                            *)
(*                                                                         *)
(* Every POST is a call of RemoteCall, whose actions are used here: the    *)
(* appliance performs it at most once, possibly after the caller's         *)
(* timeout has made it raise.  A caller whose helper raised may call it    *)
(* again with the same name (a script's retry; not code of this            *)
(* repository).  The appliance creates a new object for every create it    *)
(* performs, as modelled in PritunlOrganization.                           *)
(***************************************************************************)
EXTENDS Naturals, FiniteSets

CONSTANTS
    Callers,      \* scripts calling the helpers
    Names,        \* names asked for
    Ids,          \* appliance object ids, allocated in increasing order
    MaxRetries,   \* calls of a helper again after it raised
    MaxFailures,  \* failed list calls and timed-out creates, in all
    Asked,        \* the kinds of object the scripts ask for
    Free          \* an id no object has

Kinds == {"organization", "user"}
ASSUME Asked \subseteq Kinds /\ Asked # {}
Object == [kind: Kinds, name: Names]
\* The POSTs: a caller's create in its first call of the helper, or in a
\* retry.
Calls == Callers \X (0..MaxRetries)

VARIABLES
    obj,       \* obj[i]: the appliance object with id i, or Free
    pc,        \* where each caller is in the helper
    want,      \* want[c]: the kind and name caller c asks for
    tries,     \* tries[c]: calls of the helper caller c made after the first
    body,      \* body[k]: the object POST k creates
    cst,       \* RemoteCall's status of each POST
    capplied,  \* RemoteCall's applied flag of each POST
    failures

vars == <<obj, pc, want, tries, body, cst, capplied, failures>>

RC == INSTANCE RemoteCall WITH status <- cst, applied <- capplied

TypeOK ==
    /\ obj \in [Ids -> Object \cup {Free}]
    /\ pc \in [Callers -> {"idle", "find", "create", "wait", "done", "failed"}]
    /\ want \in [Callers -> Object]
    /\ tries \in [Callers -> 0..MaxRetries]
    /\ body \in [Calls -> Object]
    /\ RC!TypeOK
    /\ failures \in 0..MaxFailures

Init ==
    /\ obj = [i \in Ids |-> Free]
    /\ pc = [c \in Callers |-> "idle"]
    /\ want \in [Callers -> [kind: Asked, name: Names]]
    /\ tries = [c \in Callers |-> 0]
    /\ body = [k \in Calls |-> CHOOSE o \in Object : TRUE]
    /\ RC!Init
    /\ failures = 0

Call(c) == <<c, tries[c]>>

-----------------------------------------------------------------------------
(* The helpers.                                                            *)

\* find_organization_by_name(): list_organizations, then the first with the
\* name; find_user_by_name(): list_users(org_id), then the first with the
\* name.  The ids of the objects a list shows with that name.
FindOrganizationByName(n) == {i \in Ids : obj[i] = [kind |-> "organization", name |-> n]}
FindUserByName(n) == {i \in Ids : obj[i] = [kind |-> "user", name |-> n]}

FindByName(o) ==
    IF o.kind = "organization" THEN FindOrganizationByName(o.name) ELSE FindUserByName(o.name)

\* get_or_create_organization(name) / get_or_create_user(org_id, name):
\* a caller calls the helper.
GetOrCreateOrganization(c) ==
    /\ pc[c] = "idle" /\ want[c].kind = "organization"
    /\ pc' = [pc EXCEPT ![c] = "find"]
    /\ UNCHANGED <<obj, want, tries, body, cst, capplied, failures>>

GetOrCreateUser(c) ==
    /\ pc[c] = "idle" /\ want[c].kind = "user"
    /\ pc' = [pc EXCEPT ![c] = "find"]
    /\ UNCHANGED <<obj, want, tries, body, cst, capplied, failures>>

\* The find: the helper returns what it found, goes on to the create, or
\* raises the list call's error.
Find(c) ==
    /\ pc[c] = "find"
    /\ \/ pc' = [pc EXCEPT ![c] = IF FindByName(want[c]) # {} THEN "done" ELSE "create"]
          /\ UNCHANGED failures
       \/ failures < MaxFailures /\ failures' = failures + 1
          /\ pc' = [pc EXCEPT ![c] = "failed"]
    /\ UNCHANGED <<obj, want, tries, body, cst, capplied>>

\* create_organization(name) / create_user(org_id, name): the POST is sent.
Create(c) ==
    /\ pc[c] = "create"
    /\ RC!Issue(Call(c))
    /\ body' = [body EXCEPT ![Call(c)] = want[c]]
    /\ pc' = [pc EXCEPT ![c] = "wait"]
    /\ UNCHANGED <<obj, want, tries, failures>>

\* The appliance performs a POST: a new object with the lowest free id.
FreeIds == {i \in Ids : obj[i] = Free}

Perform(k) ==
    /\ FreeIds # {}
    /\ RC!Apply(k)
    /\ obj' = [obj EXCEPT ![CHOOSE i \in FreeIds : \A j \in FreeIds : i <= j] = body[k]]
    /\ UNCHANGED <<pc, want, tries, body, failures>>

\* The answer arrives: the helper returns the created object.
Created(c) ==
    /\ pc[c] = "wait"
    /\ RC!Return(Call(c))
    /\ pc' = [pc EXCEPT ![c] = "done"]
    /\ UNCHANGED <<obj, want, tries, body, failures>>

\* The client's timeout fires first: requests raises, and so does the
\* helper, whether or not the appliance has performed (or will perform)
\* the create.
TimedOut(c) ==
    /\ pc[c] = "wait" /\ failures < MaxFailures
    /\ RC!Raise(Call(c))
    /\ failures' = failures + 1
    /\ pc' = [pc EXCEPT ![c] = "failed"]
    /\ UNCHANGED <<obj, want, tries, body>>

\* The script calls the helper again with the same name.
Retry(c) ==
    /\ pc[c] = "failed" /\ tries[c] < MaxRetries
    /\ tries' = [tries EXCEPT ![c] = @ + 1]
    /\ pc' = [pc EXCEPT ![c] = "find"]
    /\ UNCHANGED <<obj, want, body, cst, capplied, failures>>

Next ==
    \/ \E c \in Callers :
         \/ GetOrCreateOrganization(c) \/ GetOrCreateUser(c)
         \/ Find(c) \/ Create(c) \/ Created(c) \/ TimedOut(c) \/ Retry(c)
    \/ \E k \in Calls : Perform(k)

Spec == Init /\ [][Next]_vars

-----------------------------------------------------------------------------
(* Properties.                                                             *)

\* The helpers' promise, "get an existing organization (user) by name, or
\* create it if it doesn't exist": the appliance never holds two
\* organizations, or two users of the organization, with one name.
NoDuplicateName ==
    \A i, j \in Ids : (i # j /\ obj[i] # Free) => obj[i] # obj[j]

=============================================================================
