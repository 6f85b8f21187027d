-------------------------- MODULE MCGroupMembership --------------------------
(***************************************************************************)
(* Two small instances of GroupMembership, of which the initial state      *)
(* chooses one: requests that come one at a time, of every endpoint, on    *)
(* one user, all groups and with calls that fail; or requests that overlap *)
(* and add, remove and list the members of one group, without failures.    *)
(***************************************************************************)
EXTENDS GroupMembership, TLC

VARIABLE only   \* the user (one request at a time) or the group (overlapping)

Alone == only \in Users

MCInit ==
    /\ Init
    /\ only \in Users \cup Groups
    /\ member \subseteq (IF Alone THEN {only} \X Groups ELSE Users \X {only})
    /\ ~Alone => groups \subseteq {only}

\* The requests of both instances.
MCStart(r) ==
    \/ /\ Alone /\ Quiescent
       /\ Start(r)
       /\ {req'[r].by, req'[r].u} \subseteq {only, Admin, None}
    \/ /\ ~Alone
       /\ \E by \in Users \cup {Admin} :
            \/ listUsersByGroup(r, by, only)
            \/ \E u \in Users : addUserToGroup(r, by, u, only) \/ removeUserFromGroup(r, by, u, only)

MCNext ==
    /\ Expire \/ \E r \in Requests : MCStart(r) \/ Proceed(r)
    /\ Alone \/ UNCHANGED faults
    /\ UNCHANGED only

MCSpec == MCInit /\ [][MCNext]_<<vars, only>>

Symmetry == Permutations(Requests) \cup Permutations(Users) \cup Permutations(Groups)

\* Requests that come one at a time leave the memberships and their caches in
\* agreement with one another and with the users and groups there are, whatever
\* was stored before (addUserToGroup, removeUserFromGroup, removeUser, removeGroup).
MembershipsAgreeAlone == Alone => MembershipsAgree
=============================================================================
