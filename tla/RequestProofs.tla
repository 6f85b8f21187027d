--------------------------- MODULE RequestProofs ---------------------------
(***************************************************************************)
(* Proofs about requests: the client's commands, the server's routes and   *)
(* its handlers (Client, Server, Handlers).  For every choice of the facts *)
(* of the world they show that nothing is changed before all that it       *)
(* requires was asked (EffectsAuthorized), that a refused request and a    *)
(* command that stops without an error have changed nothing (NothingHalf-  *)
(* way), and that a success that the client reports was carried out        *)
(* (SuccessMeansDone).                                                     *)
(*                                                                         *)
(* The argument has four layers.                                           *)
(*  1. Pieces.  A handler is a concatenation of pieces; a piece Asks,      *)
(*     Acts, is Guarded (asks first, then acts) or Delivers (makes what it *)
(*     promises unless it ends with an error).  How these join is proved   *)
(*     once; then each handler is classified, piece by piece.              *)
(*  2. The server.  ServerInv relates known, done and status to the steps  *)
(*     of the handler already taken; with layer 1 it gives what each       *)
(*     change was authorized by.                                           *)
(*  3. Routes.  The handlers that a request with a given method and path   *)
(*     can reach, table by table, method by method.                        *)
(*  4. The client.  Each command's script is settled (it only looks around *)
(*     up to some step and does not give up after it) and keeps its        *)
(*     promise; ClientInv ties the request under way to the script.        *)
(***************************************************************************)
EXTENDS Client, FiniteSetTheorems, WellFoundedInduction, NaturalsInduction, TLAPS

-----------------------------------------------------------------------------
(* Handling a request.  What follows about single handlers is put together *)
(* from what is true of the pieces they are made of.                       *)

IsPiece(s) == s \in Seq({s[i] : i \in 1..Len(s)})

(* A question about the facts of needed is among the first n steps.        *)
Required(s, n, needed) == \E i \in 1..n : s[i].facts = needed

(* A question; and a step that no longer refuses and changes at most what  *)
(* is in effects.                                                          *)
Question(it) == it.kind = "need" /\ it.code \in 200..599
Change(it, effects) ==
  /\ it.kind # "try" => it.code \in {200} \cup 500..599
  /\ it.kind # "need" => it.effect \in effects

(* A piece that only asks, all of needs; one of changes; and one that asks *)
(* first, all of needs, and then makes changes.                            *)
Asks(s, needs) ==
  /\ IsPiece(s) /\ \A i \in 1..Len(s) : Question(s[i]) /\ s[i].code # 200
  /\ \A needed \in needs : Required(s, Len(s), needed)
ActsFrom(s, n, effects) == \A i \in (n + 1)..Len(s) : Change(s[i], effects)
Acts(s, effects) == IsPiece(s) /\ ActsFrom(s, 0, effects)
AsksFirst(s, n, needs) ==
  /\ n \in 0..Len(s) /\ \A i \in 1..n : Question(s[i])
  /\ \A needed \in needs : Required(s, n, needed)
GuardedBy(s, n, needs, effects) == AsksFirst(s, n, needs) /\ ActsFrom(s, n, effects)
Guarded(s, needs, effects) == IsPiece(s) /\ \E n \in 0..Len(s) : GuardedBy(s, n, needs, effects)

LEMMA MoreChanges ==
  ASSUME NEW it, NEW then, NEW effects, Change(it, then), then \subseteq effects
  PROVE  Change(it, effects)
BY DEF Change

LEMMA Sequences == ASSUME NEW S, NEW s \in Seq(S) PROVE IsPiece(s)
BY DEF IsPiece

LEMMA Joined ==
  ASSUME NEW s, NEW t, IsPiece(s), IsPiece(t)
  PROVE  /\ IsPiece(s \o t) /\ Len(s) \in Nat /\ Len(t) \in Nat /\ Len(s \o t) = Len(s) + Len(t)
         /\ \A i \in 1..Len(s) : (s \o t)[i] = s[i]
         /\ \A i \in 1..Len(t) : Len(s) + i \in 1..Len(s \o t) /\ (s \o t)[Len(s) + i] = t[i]
         /\ \A i \in (Len(s) + 1)..Len(s \o t) : i - Len(s) \in 1..Len(t)
                /\ (s \o t)[i] = t[i - Len(s)]
<1> DEFINE S == {s[i] : i \in 1..Len(s)} \cup {t[i] : i \in 1..Len(t)}
<1>1. s \in Seq(S) /\ t \in Seq(S)
  BY DEF IsPiece
<1>2. /\ s \o t \in Seq(S) /\ Len(s) \in Nat /\ Len(t) \in Nat /\ Len(s \o t) = Len(s) + Len(t)
      /\ \A i \in 1..Len(s) : (s \o t)[i] = s[i]
      /\ \A i \in 1..Len(t) : Len(s) + i \in 1..Len(s \o t) /\ (s \o t)[Len(s) + i] = t[i]
      /\ \A i \in (Len(s) + 1)..Len(s \o t) : i - Len(s) \in 1..Len(t) /\ (s \o t)[i] = t[i - Len(s)]
  BY <1>1
<1>3. IsPiece(s \o t)
  BY <1>2, Sequences
<1> QED BY <1>2, <1>3

LEMMA Literals ==
  /\ IsPiece(<< >>)
  /\ \A a : IsPiece(<<a>>)
  /\ \A a, b : IsPiece(<<a, b>>)
  /\ \A a, b, c : IsPiece(<<a, b, c>>)
  /\ \A a, b, c, d : IsPiece(<<a, b, c, d>>)
  /\ \A a, b, c, d, e : IsPiece(<<a, b, c, d, e>>)
  /\ \A a, b, c, d, e, f : IsPiece(<<a, b, c, d, e, f>>)
  /\ \A a, b, c, d, e, f, g : IsPiece(<<a, b, c, d, e, f, g>>)
  /\ \A a, b, c, d, e, f, g, h : IsPiece(<<a, b, c, d, e, f, g, h>>)
BY DEF IsPiece

(* Questions before a piece are asked before what it asks.                 *)
LEMMA AskFirst ==
  ASSUME NEW s, NEW t, NEW first, NEW then, NEW needs, NEW effects, Asks(s, first),
      Guarded(t, then, effects),
         needs \subseteq first \cup then
  PROVE  Guarded(s \o t, needs, effects)
<1>1. PICK n \in 0..Len(t) : GuardedBy(t, n, then, effects)
  BY DEF Guarded
<1> DEFINE m == Len(s) + n
<1>2. /\ IsPiece(s) /\ IsPiece(t) /\ m \in 0..Len(s \o t) /\ IsPiece(s \o t)
      /\ Len(s) \in Nat /\ Len(t) \in Nat /\ Len(s \o t) = Len(s) + Len(t)
  BY Joined DEF Asks, Guarded
<1>3. ASSUME NEW i \in 1..m PROVE Question((s \o t)[i])
  <2>1. CASE i <= Len(s)
    BY <1>2, <2>1, Joined DEF Asks
  <2>2. CASE ~(i <= Len(s))
    <3>1. i - Len(s) \in 1..n /\ i \in (Len(s) + 1)..Len(s \o t)
      BY <1>2, <2>2
    <3>2. (s \o t)[i] = t[i - Len(s)]
      BY <1>2, <3>1, Joined
    <3> QED BY <1>1, <3>1, <3>2 DEF GuardedBy, AsksFirst
  <2> QED BY <2>1, <2>2
<1>4. ActsFrom(s \o t, m, effects)
  <2> SUFFICES ASSUME NEW i \in (m + 1)..Len(s \o t)
               PROVE  Change((s \o t)[i], effects)
    BY DEF ActsFrom
  <2>1. i - Len(s) \in (n + 1)..Len(t) /\ i \in (Len(s) + 1)..Len(s \o t)
    BY <1>2
  <2>2. (s \o t)[i] = t[i - Len(s)]
    BY <1>2, <2>1, Joined
  <2> QED BY <1>1, <2>1, <2>2 DEF GuardedBy, AsksFirst, ActsFrom
<1>5. ASSUME NEW needed \in needs PROVE Required(s \o t, m, needed)
  <2>1. CASE needed \in first
    <3>1. PICK i \in 1..Len(s) : s[i].facts = needed
      BY <2>1 DEF Asks, Required
    <3>2. i \in 1..m /\ (s \o t)[i] = s[i]
      BY <1>2, Joined
    <3> QED BY <3>1, <3>2 DEF Required
  <2>2. CASE needed \in then
    <3>1. PICK i \in 1..n : t[i].facts = needed
      BY <1>1, <2>2 DEF GuardedBy, AsksFirst, Required
    <3>2. i \in 1..Len(t) /\ Len(s) + i \in 1..m
      BY <1>2
    <3>3. (s \o t)[Len(s) + i] = t[i]
      BY <1>2, <3>2, Joined
    <3> QED BY <3>1, <3>2, <3>3 DEF Required
  <2> QED BY <2>1, <2>2
<1> QED BY <1>2, <1>3, <1>4, <1>5 DEF Guarded, GuardedBy, AsksFirst

(* Whoever only asks asks first.                                           *)
LEMMA OnlyAsks == ASSUME NEW s, NEW needs, Asks(s, needs) PROVE Guarded(s, {}, {})
<1>1. Len(s) \in Nat /\ IsPiece(s)
  BY DEF Asks, IsPiece
<1>2. GuardedBy(s, Len(s), {}, {})
  BY <1>1 DEF Asks, GuardedBy, AsksFirst, ActsFrom
<1> QED BY <1>1, <1>2 DEF Guarded

LEMMA OnlyActs == ASSUME NEW s, NEW effects, Acts(s, effects) PROVE Guarded(s, {}, effects)
<1>1. Len(s) \in Nat /\ IsPiece(s)
  BY DEF Acts, IsPiece
<1>2. GuardedBy(s, 0, {}, effects)
  BY <1>1 DEF Acts, GuardedBy, AsksFirst
<1> QED BY <1>1, <1>2 DEF Guarded

LEMMA AskMore ==
  ASSUME NEW s, NEW t, NEW first, NEW then, NEW needs, Asks(s, first), Asks(t, then),
         needs \subseteq first \cup then
  PROVE  Asks(s \o t, needs)
<1>1. IsPiece(s) /\ IsPiece(t)
  BY DEF Asks
<1>2. ASSUME NEW i \in 1..Len(s \o t) PROVE Question((s \o t)[i]) /\ (s \o t)[i].code # 200
  <2>1. CASE i <= Len(s)
    <3>1. i \in 1..Len(s) /\ (s \o t)[i] = s[i]
      BY <1>1, <2>1, Joined
    <3> QED BY <3>1 DEF Asks
  <2>2. CASE ~(i <= Len(s))
    <3>1. i \in (Len(s) + 1)..Len(s \o t)
      BY <1>1, <2>2, Joined
    <3>2. i - Len(s) \in 1..Len(t) /\ (s \o t)[i] = t[i - Len(s)]
      BY <1>1, <3>1, Joined
    <3> QED BY <3>2 DEF Asks
  <2> QED BY <1>1, <2>1, <2>2, Joined
<1>3. ASSUME NEW needed \in needs PROVE Required(s \o t, Len(s \o t), needed)
  <2>1. CASE needed \in first
    <3>1. PICK i \in 1..Len(s) : s[i].facts = needed
      BY <2>1 DEF Asks, Required
    <3>2. i \in 1..Len(s \o t) /\ (s \o t)[i] = s[i]
      BY <1>1, Joined
    <3> QED BY <3>1, <3>2 DEF Required
  <2>2. CASE needed \in then
    <3>1. PICK i \in 1..Len(t) : t[i].facts = needed
      BY <2>2 DEF Asks, Required
    <3>2. Len(s) + i \in 1..Len(s \o t) /\ (s \o t)[Len(s) + i] = t[i]
      BY <1>1, Joined
    <3> QED BY <3>1, <3>2 DEF Required
  <2> QED BY <2>1, <2>2
<1> QED BY <1>1, <1>2, <1>3, Joined DEF Asks

(* What is done after the questions may be followed by more.               *)
LEMMA ActMore ==
  ASSUME NEW s, NEW t, NEW needs, NEW then, NEW after, NEW effects, Guarded(s, needs, then),
      Acts(t, after),
         then \cup after \subseteq effects
  PROVE  Guarded(s \o t, needs, effects)
<1>0. IsPiece(s) /\ IsPiece(t)
  BY DEF Acts, Guarded
<1>1. PICK n \in 0..Len(s) : GuardedBy(s, n, needs, then)
  BY DEF Guarded
<1>2. /\ IsPiece(s) /\ IsPiece(t) /\ n \in 0..Len(s \o t) /\ IsPiece(s \o t)
      /\ \A i \in 1..n : (s \o t)[i] = s[i]
  BY <1>0, <1>1, Joined
<1>3. ASSUME NEW i \in (n + 1)..Len(s \o t)
      PROVE  Change((s \o t)[i], effects)
  <2>1. CASE i <= Len(s)
    <3>1. i \in (n + 1)..Len(s) /\ (s \o t)[i] = s[i]
      BY <1>2, <2>1, Joined
    <3> QED BY <1>1, <3>1, MoreChanges DEF GuardedBy, ActsFrom
  <2>2. CASE ~(i <= Len(s))
    <3>0. i \in (Len(s) + 1)..Len(s \o t)
      BY <1>2, <2>2, Joined
    <3>1. i - Len(s) \in (0 + 1)..Len(t) /\ (s \o t)[i] = t[i - Len(s)]
      BY <1>2, <3>0, Joined
    <3> QED BY <3>1, MoreChanges DEF Acts, ActsFrom
  <2> QED BY <2>1, <2>2
<1>4. \A i \in 1..n : Question((s \o t)[i])
  BY <1>1, <1>2 DEF GuardedBy, AsksFirst
<1>5. \A needed \in needs : Required(s \o t, n, needed)
  BY <1>1, <1>2 DEF GuardedBy, AsksFirst, Required
<1> QED BY <1>2, <1>3, <1>4, <1>5 DEF Guarded, GuardedBy, AsksFirst, ActsFrom

LEMMA ActsMore ==
  ASSUME NEW s, NEW t, NEW then, NEW after, NEW effects, Acts(s, then), Acts(t, after),
         then \cup after \subseteq effects
  PROVE  Acts(s \o t, effects)
<1>1. IsPiece(s) /\ IsPiece(t) /\ IsPiece(s \o t)
  BY Joined DEF Acts
<1>2. ASSUME NEW i \in (0 + 1)..Len(s \o t)
      PROVE  Change((s \o t)[i], effects)
  <2>1. CASE i <= Len(s)
    <3>1. i \in (0 + 1)..Len(s) /\ (s \o t)[i] = s[i]
      BY <1>1, <2>1, Joined
    <3> QED BY <3>1, MoreChanges DEF Acts, ActsFrom
  <2>2. CASE ~(i <= Len(s))
    <3>1. i \in (Len(s) + 1)..Len(s \o t)
      BY <1>1, <2>2, Joined
    <3>2. i - Len(s) \in (0 + 1)..Len(t) /\ (s \o t)[i] = t[i - Len(s)]
      BY <1>1, <3>1, Joined
    <3>3. \A j \in (0 + 1)..Len(t) : Change(t[j], after)
      BY DEF Acts, ActsFrom
    <3> QED BY <3>2, <3>3, MoreChanges
  <2> QED BY <1>1, <2>1, <2>2, Joined
<1> QED BY <1>1, <1>2 DEF Acts, ActsFrom

LEMMA AsksThenActs ==
  ASSUME NEW s, NEW n, NEW needs, NEW effects,
         IsPiece(s), AsksFirst(s, n, needs), ActsFrom(s, n, effects)
  PROVE  Guarded(s, needs, effects)
BY DEF Guarded, GuardedBy, AsksFirst

LEMMA JustActs ==
  ASSUME NEW s, NEW effects, IsPiece(s), ActsFrom(s, 0, effects)
  PROVE  Acts(s, effects)
BY DEF Acts

(* Whoever gets through a piece has had the changes in promised made, and  *)
(* it ends early without an error only at a question of excuses.           *)
Delivers(s, excuses, promised) ==
  /\ IsPiece(s)
  /\ \A i \in 1..Len(s) : s[i].code = 200 => s[i].kind = "need" /\ s[i].facts \in excuses
  /\ \A effect \in promised :
       \E i \in 1..Len(s) : s[i].kind = "do" /\ s[i].facts = {} /\ s[i].effect = effect

LEMMA DeliverMore ==
  ASSUME NEW s, NEW t, NEW first, NEW then, NEW promised, NEW excuses,
         Delivers(s, excuses, first), Delivers(t, excuses, then),
         promised \subseteq first \cup then
  PROVE  Delivers(s \o t, excuses, promised)
<1>1. IsPiece(s) /\ IsPiece(t)
  BY DEF Delivers
<1>2. ASSUME NEW i \in 1..Len(s \o t), (s \o t)[i].code = 200
      PROVE  (s \o t)[i].kind = "need" /\ (s \o t)[i].facts \in excuses
  <2>1. CASE i <= Len(s)
    <3>1. i \in 1..Len(s) /\ (s \o t)[i] = s[i]
      BY <1>1, <2>1, Joined
    <3> QED BY <1>2, <3>1 DEF Delivers
  <2>2. CASE ~(i <= Len(s))
    <3>1. i \in (Len(s) + 1)..Len(s \o t)
      BY <1>1, <2>2, Joined
    <3>2. i - Len(s) \in 1..Len(t) /\ (s \o t)[i] = t[i - Len(s)]
      BY <1>1, <3>1, Joined
    <3> QED BY <1>2, <3>2 DEF Delivers
  <2> QED BY <1>1, <2>1, <2>2, Joined
<1>3. ASSUME NEW effect \in promised
      PROVE  \E i \in 1..Len(s \o t) :
               (s \o t)[i].kind = "do" /\ (s \o t)[i].facts = {} /\ (s \o t)[i].effect = effect
  <2>1. CASE effect \in first
    <3>1. PICK i \in 1..Len(s) : s[i].kind = "do" /\ s[i].facts = {} /\ s[i].effect = effect
      BY <2>1 DEF Delivers
    <3>2. i \in 1..Len(s \o t) /\ (s \o t)[i] = s[i]
      BY <1>1, Joined
    <3> QED BY <3>1, <3>2
  <2>2. CASE effect \in then
    <3>1. PICK i \in 1..Len(t) : t[i].kind = "do" /\ t[i].facts = {} /\ t[i].effect = effect
      BY <2>2 DEF Delivers
    <3>2. Len(s) + i \in 1..Len(s \o t) /\ (s \o t)[Len(s) + i] = t[i]
      BY <1>1, Joined
    <3> QED BY <3>1, <3>2
  <2> QED BY <2>1, <2>2
<1> QED BY <1>1, <1>2, <1>3, Joined DEF Delivers

LEMMA AskThenDeliver ==
  ASSUME NEW s, NEW t, NEW first, NEW promised, NEW excuses, Asks(s, first),
         Delivers(t, excuses, promised)
  PROVE  Delivers(s \o t, excuses, promised)
<1>1. Delivers(s, excuses, {})
  BY DEF Asks, Question, Delivers
<1> QED BY <1>1, DeliverMore

-----------------------------------------------------------------------------
(* The pieces that several handlers have in common.                        *)
LEMMA AskedBySeveral ==
  /\ Asks(Code!authenticateUser, {{"user"}})
  /\ Asks(Code!onlyAdmins, {{"user"}, {"admin"}})
  /\ Asks(Code!selfOrAdmin, {{"user"}, {"admin", "self"}})
  /\ Asks(Code!parseBody, {})
  /\ Asks(Code!checkGroupBody, {})
  /\ \A unless : Asks(Code!normalizeScienceField(unless), {})
  /\ Asks(Code!checkClusterBody, {})
  /\ Asks(Code!atCluster, {{"user"}})
  /\ Asks(Code!mayDeleteCluster, {{"user"}, {"hosts", "admin"}})
  /\ Asks(Code!byHost, {{"user"}, {"admin", "hosts"}})
  /\ Asks(Code!fetchFromCatalogue, {})
  /\ Asks(Code!checkInstallBody, {})
  /\ Asks(Code!mayInstall, {{"member"}, {"owns", "access"}})
  /\ Asks(Code!extractChartName, {})
  /\ Asks(Code!atInstance, {{"user"}, {"admin", "member"}})
  /\ Asks(Code!checkSecretBody, {})
  /\ Asks(Code!mayDeploy, {{"member"}, {"owns", "access"}})
  /\ Asks(Code!encryptSecret, {})
  /\ Asks(Code!atSecret, {{"user"}, {"member"}})
  /\ Asks(Code!atVolume, {{"user"}, {"admin", "member"}})
  /\ Asks(Code!checkVolumeBody, {})
  /\ Asks(Code!checkVolumeModes, {})
<1> USE DEF Code!Need, Code!NeedElse, Code!Do, Code!DoElse, Code!DoUnless, Code!Try,
            Code!Step
<1>1. Asks(Code!authenticateUser, {{"user"}})
  BY Literals, SMTT(20) DEF Asks, Question, Required, Code!authenticateUser
<1>2. Asks(Code!onlyAdmins, {{"user"}, {"admin"}})
  <2> DEFINE questions == <<Code!Need({"admin"}, 403)>>
  <2>1. Asks(questions, {{"admin"}})
    BY Literals, SMTT(20) DEF Asks, Question, Required
  <2>2. Code!onlyAdmins = Code!authenticateUser \o questions
    BY DEF Code!onlyAdmins
  <2> HIDE DEF questions
  <2> QED BY <1>1, <2>1, AskMore, <2>2
<1>3. Asks(Code!selfOrAdmin, {{"user"}, {"admin", "self"}})
  <2> DEFINE questions == <<Code!Need({"admin", "self"}, 403)>>
  <2>1. Asks(questions, {{"admin", "self"}})
    BY Literals, SMTT(20) DEF Asks, Question, Required
  <2>2. Code!selfOrAdmin = Code!authenticateUser \o questions
    BY DEF Code!selfOrAdmin
  <2> HIDE DEF questions
  <2> QED BY <1>1, <2>1, AskMore, <2>2
<1>4. Asks(Code!parseBody, {})
  BY Literals, SMTT(20) DEF Asks, Question, Required, Code!parseBody
<1>5. Asks(Code!checkGroupBody, {})
  <2> DEFINE questions == <<Code!Need({"name"}, 400), Code!Need({"free"}, 400)>>
  <2>1. Asks(questions, {})
    BY Literals, SMTT(20) DEF Asks, Question, Required
  <2>2. Code!checkGroupBody = Code!parseBody \o questions
    BY DEF Code!checkGroupBody
  <2> HIDE DEF questions
  <2> QED BY <1>4, <2>1, AskMore, <2>2
<1>6. \A unless : Asks(Code!normalizeScienceField(unless), {})
  BY Literals, SMTT(20) DEF Asks, Question, Required, Code!normalizeScienceField
<1>7. Asks(Code!checkClusterBody, {})
  <2> DEFINE questions == <<Code!Need({"kubeconfig"}, 400)>>
  <2>1. Asks(questions, {})
    BY Literals, SMTT(20) DEF Asks, Question, Required
  <2>2. Code!checkClusterBody = Code!parseBody \o questions
    BY DEF Code!checkClusterBody
  <2> HIDE DEF questions
  <2> QED BY <1>4, <2>1, AskMore, <2>2
<1>8. Asks(Code!atCluster, {{"user"}})
  <2> DEFINE questions == <<Code!Need({"cluster"}, 404)>>
  <2>1. Asks(questions, {})
    BY Literals, SMTT(20) DEF Asks, Question, Required
  <2>2. Code!atCluster = Code!authenticateUser \o questions
    BY DEF Code!atCluster
  <2> HIDE DEF questions
  <2> QED BY <1>1, <2>1, AskMore, <2>2
<1>9. Asks(Code!mayDeleteCluster, {{"user"}, {"hosts", "admin"}})
  <2> DEFINE questions == <<Code!Need({"hosts", "force"}, 403),
                            Code!Need({"hosts", "admin"}, 403)>>
  <2>1. Asks(questions, {{"hosts", "admin"}})
    BY Literals, SMTT(20) DEF Asks, Question, Required
  <2>2. Code!mayDeleteCluster = Code!atCluster \o questions
    BY DEF Code!mayDeleteCluster
  <2> HIDE DEF questions
  <2> QED BY <1>8, <2>1, AskMore, <2>2
<1>10. Asks(Code!byHost, {{"user"}, {"admin", "hosts"}})
  <2> DEFINE questions == <<Code!Need({"admin", "hosts"}, 403)>>
  <2>1. Asks(questions, {{"admin", "hosts"}})
    BY Literals, SMTT(20) DEF Asks, Question, Required
  <2>2. Code!byHost = Code!atCluster \o questions
    BY DEF Code!byHost
  <2> HIDE DEF questions
  <2> QED BY <1>8, <2>1, AskMore, <2>2
<1>11. Asks(Code!fetchFromCatalogue, {})
  BY Literals, SMTT(20) DEF Asks, Question, Required, Code!fetchFromCatalogue
<1>12. Asks(Code!checkInstallBody, {})
  BY Literals, SMTT(20) DEF Asks, Question, Required, Code!checkInstallBody
<1>13. Asks(Code!mayInstall, {{"member"}, {"owns", "access"}})
  BY Literals, SMTT(20) DEF Asks, Question, Required, Code!mayInstall
<1>14. Asks(Code!extractChartName, {})
  BY Literals, SMTT(20) DEF Asks, Question, Required, Code!extractChartName
<1>15. Asks(Code!atInstance, {{"user"}, {"admin", "member"}})
  <2> DEFINE questions == <<Code!Need({"target"}, 404),
                            Code!Need({"admin", "member"}, 403)>>
  <2>1. Asks(questions, {{"admin", "member"}})
    BY Literals, SMTT(20) DEF Asks, Question, Required
  <2>2. Code!atInstance = Code!authenticateUser \o questions
    BY DEF Code!atInstance
  <2> HIDE DEF questions
  <2> QED BY <1>1, <2>1, AskMore, <2>2
<1>16. Asks(Code!checkSecretBody, {})
  <2> DEFINE questions == <<Code!Need({"contents"}, 400)>>
  <2>1. Asks(questions, {})
    BY Literals, SMTT(20) DEF Asks, Question, Required
  <2>2. Code!checkSecretBody = Code!parseBody \o questions
    BY DEF Code!checkSecretBody
  <2> HIDE DEF questions
  <2> QED BY <1>4, <2>1, AskMore, <2>2
<1>17. Asks(Code!mayDeploy, {{"member"}, {"owns", "access"}})
  <2>1. IsPiece(Code!mayDeploy)
    BY Literals DEF Code!mayDeploy
  <2>2. \A i \in 1..Len(Code!mayDeploy) : /\ Question(Code!mayDeploy[i])
                                         /\ Code!mayDeploy[i].code # 200
    BY DEF Question, Code!mayDeploy
  <2>3. /\ Len(Code!mayDeploy) = 6
        /\ Code!mayDeploy[3].facts = {"member"} /\ Code!mayDeploy[5].facts = {"owns", "access"}
    BY DEF Code!mayDeploy
  <2> QED BY <2>1, <2>2, <2>3 DEF Asks, Required
<1>18. Asks(Code!encryptSecret, {})
  BY Literals, SMTT(20) DEF Asks, Question, Required, Code!encryptSecret
<1>19. Asks(Code!atSecret, {{"user"}, {"member"}})
  <2> DEFINE questions == <<Code!Need({"target"}, 404), Code!Need({"member"}, 403)>>
  <2>1. Asks(questions, {{"member"}})
    BY Literals, SMTT(20) DEF Asks, Question, Required
  <2>2. Code!atSecret = Code!authenticateUser \o questions
    BY DEF Code!atSecret
  <2> HIDE DEF questions
  <2> QED BY <1>1, <2>1, AskMore, <2>2
<1>20. Asks(Code!atVolume, {{"user"}, {"admin", "member"}})
  <2> DEFINE questions == <<Code!Need({"target"}, 404),
                            Code!Need({"admin", "member"}, 403)>>
  <2>1. Asks(questions, {{"admin", "member"}})
    BY Literals, SMTT(20) DEF Asks, Question, Required
  <2>2. Code!atVolume = Code!authenticateUser \o questions
    BY DEF Code!atVolume
  <2> HIDE DEF questions
  <2> QED BY <1>1, <2>1, AskMore, <2>2
<1>21. Asks(Code!checkVolumeBody, {})
  BY <1>4 DEF Code!checkVolumeBody
<1>22. Asks(Code!checkVolumeModes, {})
  BY Literals, SMTT(20) DEF Asks, Question, Required, Code!checkVolumeModes
<1> QED BY <1>1, <1>2, <1>3, <1>4, <1>5, <1>6, <1>7, <1>8, <1>9, <1>10, <1>11, <1>12,
           <1>13, <1>14, <1>15, <1>16, <1>17, <1>18, <1>19, <1>20, <1>21, <1>22

(* What they do once they have been let through.                           *)
LEMMA ActedBySeveral ==
  /\ \A autodelete : /\ Acts(Code!ensureClusterSetup(autodelete), {"clusters", "dns"})
                     /\ Delivers(Code!ensureClusterSetup(autodelete), {}, {})
  /\ Guarded(Code!setClusterDNSRecord, {}, {"dns"})
  /\ Acts(Code!deleteDependents, {"instances", "reachability", "volumes", "secrets",
                                  "objects", "dns", "credentials"})
  /\ Delivers(Code!deleteDependents, {}, {})
  /\ Guarded(Code!stopInstance, {}, {"objects"}) /\ Delivers(Code!stopInstance, {}, {"objects"})
  /\ Acts(Code!startInstance, {"namespace", "objects"})
  /\ Delivers(Code!startInstance, {}, {"namespace", "objects"})
<1> USE DEF Code!Need, Code!NeedElse, Code!Do, Code!DoElse, Code!DoUnless, Code!Try,
            Code!Step
<1>1. /\ \A autodelete : IsPiece(Code!contactCluster(autodelete))
      /\ IsPiece(Code!installTiller) /\ IsPiece(Code!setClusterDNSRecord)
      /\ IsPiece(Code!deleteDependents)
      /\ IsPiece(Code!stopInstance) /\ IsPiece(Code!startInstance)
  BY Literals DEF Code!contactCluster, Code!installTiller, Code!setClusterDNSRecord,
                  Code!deleteDependents, Code!stopInstance, Code!startInstance
<1>2. ASSUME NEW autodelete
      PROVE  /\ Acts(Code!contactCluster(autodelete), {"clusters"})
             /\ Delivers(Code!contactCluster(autodelete), {}, {})
  <2>1. ActsFrom(Code!contactCluster(autodelete), 0, {"clusters"})
    BY DEF ActsFrom, Change, Code!contactCluster
  <2>2. Delivers(Code!contactCluster(autodelete), {}, {})
    BY <1>1 DEF Delivers, Code!contactCluster
  <2> QED BY <1>1, <2>1, <2>2, JustActs
<1>3. Acts(Code!installTiller, {}) /\ Delivers(Code!installTiller, {}, {})
  <2>1. ActsFrom(Code!installTiller, 0, {})
    BY DEF ActsFrom, Change, Code!installTiller
  <2>2. Delivers(Code!installTiller, {}, {})
    BY <1>1 DEF Delivers, Code!installTiller
  <2> QED BY <1>1, <2>1, <2>2, JustActs
<1>4. Acts(Code!setClusterDNSRecord, {"dns"}) /\ Delivers(Code!setClusterDNSRecord, {}, {})
  <2>1. ActsFrom(Code!setClusterDNSRecord, 0, {"dns"})
    BY DEF ActsFrom, Change, Code!setClusterDNSRecord
  <2>2. Delivers(Code!setClusterDNSRecord, {}, {})
    BY <1>1 DEF Delivers, Code!setClusterDNSRecord
  <2> QED BY <1>1, <2>1, <2>2, JustActs
<1>5. ASSUME NEW autodelete
      PROVE  /\ Acts(Code!ensureClusterSetup(autodelete), {"clusters", "dns"})
             /\ Delivers(Code!ensureClusterSetup(autodelete), {}, {})
  <2>1. /\ Acts(Code!contactCluster(autodelete) \o Code!installTiller, {"clusters"})
        /\ Delivers(Code!contactCluster(autodelete) \o Code!installTiller, {}, {})
    BY <1>2, <1>3, ActsMore, DeliverMore
  <2> QED BY <2>1, <1>4, ActsMore, DeliverMore DEF Code!ensureClusterSetup
<1>6. ActsFrom(Code!deleteDependents, 0, {"instances", "reachability", "volumes", "secrets",
                                          "objects", "dns", "credentials"})
  BY DEF ActsFrom, Change, Code!deleteDependents
<1>7. Delivers(Code!deleteDependents, {}, {})
  BY <1>1 DEF Delivers, Code!deleteDependents
<1>8. ActsFrom(Code!stopInstance, 0, {"objects"})
  BY DEF ActsFrom, Change, Code!stopInstance
<1>9. Delivers(Code!stopInstance, {}, {"objects"})
  BY <1>1 DEF Delivers, Code!stopInstance
<1>10. ActsFrom(Code!startInstance, 0, {"namespace", "objects"})
  BY DEF ActsFrom, Change, Code!startInstance
<1>11. Delivers(Code!startInstance, {}, {"namespace", "objects"})
  BY <1>1 DEF Delivers, Code!startInstance
<1> HIDE DEF Acts
<1> QED BY <1>1, <1>4, <1>5, <1>6, <1>7, <1>8, <1>9, <1>10, <1>11, JustActs, OnlyActs

(* What two handlers share altogether.                                     *)
LEMMA GuardedBySeveral ==
  /\ Guarded(Code!setPermission, {{"user"}, {"admin", "hosts"}}, {"permissions"})
  /\ Delivers(Code!setPermission, {}, {"permissions"})
  /\ Guarded(Code!installApplicationImpl, {{"member"}, {"owns", "access"}},
       {"instances", "namespace", "objects"})
  /\ Delivers(Code!installApplicationImpl, {}, {"instances", "namespace", "objects"})
<1> USE DEF Code!Need, Code!NeedElse, Code!Do, Code!DoElse, Code!DoUnless, Code!Try,
            Code!Step
<1>1. /\ Guarded(Code!setPermission, {{"user"}, {"admin", "hosts"}}, {"permissions"})
      /\ Delivers(Code!setPermission, {}, {"permissions"})
  <2> DEFINE changes == <<Code!Need({"group"}, 404),
                          Code!Need({"admin", "hosts"}, 403),
                          Code!Do("permissions", 500)>>
  <2>1. IsPiece(changes)
    BY Literals
  <2>2. ActsFrom(changes, 2, {"permissions"})
    BY DEF ActsFrom, Change
  <2>3. AsksFirst(changes, 2, {{"admin", "hosts"}})
    BY DEF AsksFirst, Question, Required
  <2>4. Delivers(changes, {}, {"permissions"})
    BY Literals, SMTT(20) DEF Delivers
  <2>5. Guarded(changes, {{"admin", "hosts"}}, {"permissions"})
    BY <2>1, <2>2, <2>3, AsksThenActs
  <2>6. Code!setPermission = Code!atCluster \o changes
    BY DEF Code!setPermission
  <2> HIDE DEF changes
  <2> QED BY AskedBySeveral, <2>5, <2>4, AskFirst, AskThenDeliver, <2>6
<1>2. /\ Guarded(Code!installApplicationImpl, {{"member"}, {"owns", "access"}},
           {"instances", "namespace", "objects"})
      /\ Delivers(Code!installApplicationImpl, {},
           {"instances", "namespace", "objects"})
  <2> DEFINE changes == <<Code!Need({"nameFits"}, 400), Code!Need({"free"}, 400),
                          Code!Need({"file"}, 500), Code!Do("instances", 500),
                          Code!DoElse("namespace", 500, {"instances"}),
                          Code!DoElse("objects", 500, {"instances"}),
                          Code!Need({"listed"}, 500)>>
  <2>1. IsPiece(changes)
    BY Literals
  <2>2. ActsFrom(changes, 3, {"instances", "namespace", "objects"})
    BY DEF ActsFrom, Change
  <2>3. AsksFirst(changes, 3, {})
    BY DEF AsksFirst, Question, Required
  <2>4. Delivers(changes, {}, {"instances", "namespace", "objects"})
    BY Literals, SMTT(20) DEF Delivers
  <2>5. Guarded(changes, {}, {"instances", "namespace", "objects"})
    BY <2>1, <2>2, <2>3, AsksThenActs
  <2>6. Code!installApplicationImpl = Code!checkInstallBody \o Code!mayInstall
          \o changes
    BY DEF Code!installApplicationImpl
  <2> HIDE DEF changes
  <2>7. Asks(Code!checkInstallBody \o Code!mayInstall, {{"member"}, {"owns", "access"}})
    BY AskedBySeveral, AskMore
  <2> QED BY <2>7, <2>5, <2>4, AskFirst, AskThenDeliver, <2>6
<1> QED BY <1>1, <1>2

(* The handlers of src/UserCommands.cpp.                                   *)
LEMMA UserHandlers ==
  /\ Guarded(Code!listUsers, {}, {})
  /\ Guarded(Code!createUser, {{"user"}, {"admin"}}, {"users"})
  /\ Delivers(Code!createUser, {}, {"users"})
  /\ Guarded(Code!getUserInfo, {}, {})
  /\ Guarded(Code!whoAreThey, {}, {})
  /\ Guarded(Code!updateUser, {{"user"}, {"admin", "self"}}, {"users"})
  /\ Delivers(Code!updateUser, {}, {"users"})
  /\ Guarded(Code!deleteUser, {{"user"}, {"admin", "self"}},
       {"memberships", "users", "email"})
  /\ Delivers(Code!deleteUser, {}, {"users"})
  /\ Guarded(Code!listUsergroups, {}, {})
  /\ Guarded(Code!addUserToGroup, {{"user"}, {"admin", "member"}}, {"memberships"})
  /\ Delivers(Code!addUserToGroup, {}, {"memberships"})
  /\ Guarded(Code!removeUserFromGroup, {{"user"}, {"admin", "member"}}, {"memberships"})
  /\ Delivers(Code!removeUserFromGroup, {}, {"memberships"})
  /\ Guarded(Code!findUser, {}, {})
  /\ Guarded(Code!replaceUserToken, {{"user"}, {"admin", "self"}}, {"users", "email"})
  /\ Delivers(Code!replaceUserToken, {}, {"users"})
<1> USE DEF Code!Need, Code!NeedElse, Code!Do, Code!DoElse, Code!DoUnless, Code!Try,
            Code!Step
<1>1. Guarded(Code!listUsers, {}, {})
  BY AskedBySeveral, OnlyAsks DEF Code!listUsers
<1>2. /\ Guarded(Code!createUser, {{"user"}, {"admin"}}, {"users"})
      /\ Delivers(Code!createUser, {}, {"users"})
  <2> DEFINE changes == <<Code!Need({"free"}, 400), Code!Do("users", 500)>>
  <2>1. IsPiece(changes)
    BY Literals
  <2>2. ActsFrom(changes, 1, {"users"})
    BY DEF ActsFrom, Change
  <2>3. AsksFirst(changes, 1, {})
    BY DEF AsksFirst, Question, Required
  <2>4. Delivers(changes, {}, {"users"})
    BY Literals, SMTT(20) DEF Delivers
  <2>5. Guarded(changes, {}, {"users"})
    BY <2>1, <2>2, <2>3, AsksThenActs
  <2>6. Code!createUser = Code!onlyAdmins \o Code!parseBody \o changes
    BY DEF Code!createUser
  <2> HIDE DEF changes
  <2>7. Asks(Code!onlyAdmins \o Code!parseBody, {{"user"}, {"admin"}})
    BY AskedBySeveral, AskMore
  <2> QED BY <2>7, <2>5, <2>4, AskFirst, AskThenDeliver, <2>6
<1>3. Guarded(Code!getUserInfo, {}, {})
  <2> DEFINE questions == <<Code!Need({"target"}, 404)>>
  <2>1. Asks(questions, {})
    BY Literals, SMTT(20) DEF Asks, Question, Required
  <2>2. Code!getUserInfo = Code!selfOrAdmin \o questions
    BY DEF Code!getUserInfo
  <2> HIDE DEF questions
  <2>3. Asks(Code!selfOrAdmin \o questions, {{"user"}, {"admin", "self"}})
    BY AskedBySeveral, <2>1, AskMore
  <2> QED BY <2>3, OnlyAsks, <2>2
<1>4. Guarded(Code!whoAreThey, {}, {})
  BY AskedBySeveral, OnlyAsks DEF Code!whoAreThey
<1>5. /\ Guarded(Code!updateUser, {{"user"}, {"admin", "self"}}, {"users"})
      /\ Delivers(Code!updateUser, {}, {"users"})
  <2> DEFINE questions == <<Code!Need({"target"}, 404)>>
             changes == <<Code!Need({"admin", "keepsRank"}, 403),
                          Code!Do("users", 500)>>
  <2>1. Asks(questions, {})
    BY Literals, SMTT(20) DEF Asks, Question, Required
  <2>2. IsPiece(changes)
    BY Literals
  <2>3. ActsFrom(changes, 1, {"users"})
    BY DEF ActsFrom, Change
  <2>4. AsksFirst(changes, 1, {})
    BY DEF AsksFirst, Question, Required
  <2>5. Delivers(changes, {}, {"users"})
    BY Literals, SMTT(20) DEF Delivers
  <2>6. Guarded(changes, {}, {"users"})
    BY <2>2, <2>3, <2>4, AsksThenActs
  <2>7. Code!updateUser = Code!selfOrAdmin \o questions \o Code!parseBody \o changes
    BY DEF Code!updateUser
  <2> HIDE DEF questions, changes
  <2>8. Asks(Code!selfOrAdmin \o questions, {{"user"}, {"admin", "self"}})
    BY AskedBySeveral, <2>1, AskMore
  <2>9. Asks(Code!selfOrAdmin \o questions \o Code!parseBody,
          {{"user"}, {"admin", "self"}})
    BY <2>8, AskedBySeveral, AskMore
  <2> QED BY <2>9, <2>6, <2>5, AskFirst, AskThenDeliver, <2>7
<1>6. /\ Guarded(Code!deleteUser, {{"user"}, {"admin", "self"}},
           {"memberships", "users", "email"})
      /\ Delivers(Code!deleteUser, {}, {"users"})
  <2> DEFINE changes == <<Code!Need({"self", "target"}, 404), Code!Try("memberships"),
                          Code!Do("users", 500), Code!Try("email")>>
  <2>1. IsPiece(changes)
    BY Literals
  <2>2. ActsFrom(changes, 1, {"memberships", "users", "email"})
    BY DEF ActsFrom, Change
  <2>3. AsksFirst(changes, 1, {})
    BY DEF AsksFirst, Question, Required
  <2>4. Delivers(changes, {}, {"users"})
    BY Literals, SMTT(20) DEF Delivers
  <2>5. Guarded(changes, {}, {"memberships", "users", "email"})
    BY <2>1, <2>2, <2>3, AsksThenActs
  <2>6. Code!deleteUser = Code!selfOrAdmin \o changes
    BY DEF Code!deleteUser
  <2> HIDE DEF changes
  <2> QED BY AskedBySeveral, <2>5, <2>4, AskFirst, AskThenDeliver, <2>6
<1>7. Guarded(Code!listUsergroups, {}, {})
  <2> DEFINE questions == <<Code!Need({"self", "target"}, 404)>>
  <2>1. Asks(questions, {})
    BY Literals, SMTT(20) DEF Asks, Question, Required
  <2>2. Code!listUsergroups = Code!authenticateUser \o questions
    BY DEF Code!listUsergroups
  <2> HIDE DEF questions
  <2>3. Asks(Code!authenticateUser \o questions, {{"user"}})
    BY AskedBySeveral, <2>1, AskMore
  <2> QED BY <2>3, OnlyAsks, <2>2
<1>8. /\ Guarded(Code!addUserToGroup, {{"user"}, {"admin", "member"}}, {"memberships"})
      /\ Delivers(Code!addUserToGroup, {}, {"memberships"})
  <2> DEFINE changes == <<Code!Need({"target"}, 404), Code!Need({"group"}, 404),
                          Code!Need({"admin", "member"}, 403),
                          Code!Do("memberships", 500)>>
  <2>1. IsPiece(changes)
    BY Literals
  <2>2. ActsFrom(changes, 3, {"memberships"})
    BY DEF ActsFrom, Change
  <2>3. AsksFirst(changes, 3, {{"admin", "member"}})
    BY DEF AsksFirst, Question, Required
  <2>4. Delivers(changes, {}, {"memberships"})
    BY Literals, SMTT(20) DEF Delivers
  <2>5. Guarded(changes, {{"admin", "member"}}, {"memberships"})
    BY <2>1, <2>2, <2>3, AsksThenActs
  <2>6. Code!addUserToGroup = Code!authenticateUser \o changes
    BY DEF Code!addUserToGroup
  <2> HIDE DEF changes
  <2> QED BY AskedBySeveral, <2>5, <2>4, AskFirst, AskThenDeliver, <2>6
<1>9. /\ Guarded(Code!removeUserFromGroup, {{"user"}, {"admin", "member"}},
           {"memberships"})
      /\ Delivers(Code!removeUserFromGroup, {}, {"memberships"})
  <2> DEFINE changes == <<Code!Need({"target"}, 404),
                          Code!Need({"admin", "member"}, 403),
                          Code!Do("memberships", 500)>>
  <2>1. IsPiece(changes)
    BY Literals
  <2>2. ActsFrom(changes, 2, {"memberships"})
    BY DEF ActsFrom, Change
  <2>3. AsksFirst(changes, 2, {{"admin", "member"}})
    BY DEF AsksFirst, Question, Required
  <2>4. Delivers(changes, {}, {"memberships"})
    BY Literals, SMTT(20) DEF Delivers
  <2>5. Guarded(changes, {{"admin", "member"}}, {"memberships"})
    BY <2>1, <2>2, <2>3, AsksThenActs
  <2>6. Code!removeUserFromGroup = Code!authenticateUser \o changes
    BY DEF Code!removeUserFromGroup
  <2> HIDE DEF changes
  <2> QED BY AskedBySeveral, <2>5, <2>4, AskFirst, AskThenDeliver, <2>6
<1>10. Guarded(Code!findUser, {}, {})
  <2> DEFINE questions == <<Code!Need({"parameter"}, 400), Code!Need({"target"}, 404)>>
  <2>1. Asks(questions, {})
    BY Literals, SMTT(20) DEF Asks, Question, Required
  <2>2. Code!findUser = Code!onlyAdmins \o questions
    BY DEF Code!findUser
  <2> HIDE DEF questions
  <2>3. Asks(Code!onlyAdmins \o questions, {{"user"}, {"admin"}})
    BY AskedBySeveral, <2>1, AskMore
  <2> QED BY <2>3, OnlyAsks, <2>2
<1>11. /\ Guarded(Code!replaceUserToken, {{"user"}, {"admin", "self"}},
            {"users", "email"})
       /\ Delivers(Code!replaceUserToken, {}, {"users"})
  <2> DEFINE changes == <<Code!Need({"target"}, 404), Code!Do("users", 500),
                          Code!Try("email")>>
  <2>1. IsPiece(changes)
    BY Literals
  <2>2. ActsFrom(changes, 1, {"users", "email"})
    BY DEF ActsFrom, Change
  <2>3. AsksFirst(changes, 1, {})
    BY DEF AsksFirst, Question, Required
  <2>4. Delivers(changes, {}, {"users"})
    BY Literals, SMTT(20) DEF Delivers
  <2>5. Guarded(changes, {}, {"users", "email"})
    BY <2>1, <2>2, <2>3, AsksThenActs
  <2>6. Code!replaceUserToken = Code!selfOrAdmin \o changes
    BY DEF Code!replaceUserToken
  <2> HIDE DEF changes
  <2> QED BY AskedBySeveral, <2>5, <2>4, AskFirst, AskThenDeliver, <2>6
<1> QED BY <1>1, <1>2, <1>3, <1>4, <1>5, <1>6, <1>7, <1>8, <1>9, <1>10, <1>11

(* The handlers of src/GroupCommands.cpp.                                  *)
LEMMA GroupHandlers ==
  /\ Guarded(Code!listGroups, {}, {})
  /\ Guarded(Code!createGroup, {{"user"}}, {"groups", "memberships"})
  /\ Delivers(Code!createGroup, {}, {"groups", "memberships"})
  /\ Guarded(Code!getGroupInfo, {}, {})
  /\ Guarded(Code!updateGroup, {{"user"}, {"admin", "member"}}, {"groups"})
  /\ Delivers(Code!updateGroup, {{"changes"}}, {"groups"})
  /\ Guarded(Code!deleteGroup, {{"user"}, {"admin", "member"}},
       {"groups", "instances", "secrets", "objects", "clusters"})
  /\ Delivers(Code!deleteGroup, {}, {"groups"})
  /\ Guarded(Code!listGroupMembers, {}, {})
  /\ Guarded(Code!listGroupClusters, {}, {})
<1> USE DEF Code!Need, Code!NeedElse, Code!Do, Code!DoElse, Code!DoUnless, Code!Try,
            Code!Step
<1>1. Guarded(Code!listGroups, {}, {})
  BY AskedBySeveral, OnlyAsks DEF Code!listGroups
<1>2. /\ Guarded(Code!createGroup, {{"user"}}, {"groups", "memberships"})
      /\ Delivers(Code!createGroup, {}, {"groups", "memberships"})
  <2> DEFINE changes == <<Code!Do("groups", 500), Code!Do("memberships", 500)>>
  <2>1. IsPiece(changes)
    BY Literals
  <2>2. ActsFrom(changes, 0, {"groups", "memberships"})
    BY DEF ActsFrom, Change
  <2>3. AsksFirst(changes, 0, {})
    BY DEF AsksFirst, Question, Required
  <2>4. Delivers(changes, {}, {"groups", "memberships"})
    BY Literals, SMTT(20) DEF Delivers
  <2>5. Guarded(changes, {}, {"groups", "memberships"})
    BY <2>1, <2>2, <2>3, AsksThenActs
  <2>6. Code!createGroup = Code!authenticateUser \o Code!checkGroupBody
          \o Code!normalizeScienceField({}) \o changes
    BY DEF Code!createGroup
  <2> HIDE DEF changes
  <2>7. Asks(Code!authenticateUser \o Code!checkGroupBody, {{"user"}})
    BY AskedBySeveral, AskMore
  <2>8. Asks(Code!authenticateUser \o Code!checkGroupBody
          \o Code!normalizeScienceField({}), {{"user"}})
    BY <2>7, AskedBySeveral, AskMore
  <2> QED BY <2>8, <2>5, <2>4, AskFirst, AskThenDeliver, <2>6
<1>3. Guarded(Code!getGroupInfo, {}, {})
  <2> DEFINE questions == <<Code!Need({"group"}, 404)>>
  <2>1. Asks(questions, {})
    BY Literals, SMTT(20) DEF Asks, Question, Required
  <2>2. Code!getGroupInfo = Code!authenticateUser \o questions
    BY DEF Code!getGroupInfo
  <2> HIDE DEF questions
  <2>3. Asks(Code!authenticateUser \o questions, {{"user"}})
    BY AskedBySeveral, <2>1, AskMore
  <2> QED BY <2>3, OnlyAsks, <2>2
<1>4. /\ Guarded(Code!updateGroup, {{"user"}, {"admin", "member"}}, {"groups"})
      /\ Delivers(Code!updateGroup, {{"changes"}}, {"groups"})
  <2> DEFINE questions == <<Code!Need({"admin", "member"}, 403),
                            Code!Need({"group"}, 404)>>
             changes == <<Code!Need({"changes"}, 200), Code!Do("groups", 500)>>
  <2>1. Asks(questions, {{"admin", "member"}})
    BY Literals, SMTT(20) DEF Asks, Question, Required
  <2>2. IsPiece(changes)
    BY Literals
  <2>3. ActsFrom(changes, 1, {"groups"})
    BY DEF ActsFrom, Change
  <2>4. AsksFirst(changes, 1, {})
    BY DEF AsksFirst, Question, Required
  <2>5. Delivers(changes, {{"changes"}}, {"groups"})
    BY Literals, SMTT(20) DEF Delivers
  <2>6. Guarded(changes, {}, {"groups"})
    BY <2>2, <2>3, <2>4, AsksThenActs
  <2>7. Code!updateGroup = Code!authenticateUser \o questions \o Code!parseBody
          \o Code!normalizeScienceField({"sameField"}) \o changes
    BY DEF Code!updateGroup
  <2> HIDE DEF questions, changes
  <2>8. Asks(Code!authenticateUser \o questions, {{"user"}, {"admin", "member"}})
    BY AskedBySeveral, <2>1, AskMore
  <2>9. Asks(Code!authenticateUser \o questions \o Code!parseBody,
          {{"user"}, {"admin", "member"}})
    BY <2>8, AskedBySeveral, AskMore
  <2>10. Asks(Code!authenticateUser \o questions \o Code!parseBody
           \o Code!normalizeScienceField({"sameField"}),
           {{"user"}, {"admin", "member"}})
    BY <2>9, AskedBySeveral, AskMore
  <2> QED BY <2>10, <2>6, <2>5, AskFirst, AskThenDeliver, <2>7
<1>5. /\ Guarded(Code!deleteGroup, {{"user"}, {"admin", "member"}},
           {"groups", "instances", "secrets", "objects", "clusters"})
      /\ Delivers(Code!deleteGroup, {}, {"groups"})
  <2> DEFINE changes == <<Code!Need({"group"}, 404),
                          Code!Need({"admin", "member"}, 403), Code!Do("groups", 500),
                          Code!Try("instances"), Code!Try("secrets"),
                          Code!Try("objects"), Code!Try("clusters")>>
  <2>1. IsPiece(changes)
    BY Literals
  <2>2. ActsFrom(changes, 2, {"groups", "instances", "secrets", "objects", "clusters"})
    BY DEF ActsFrom, Change
  <2>3. AsksFirst(changes, 2, {{"admin", "member"}})
    BY DEF AsksFirst, Question, Required
  <2>4. Delivers(changes, {}, {"groups"})
    BY Literals, SMTT(20) DEF Delivers
  <2>5. Guarded(changes, {{"admin", "member"}},
          {"groups", "instances", "secrets", "objects", "clusters"})
    BY <2>1, <2>2, <2>3, AsksThenActs
  <2>6. Code!deleteGroup = Code!authenticateUser \o changes
    BY DEF Code!deleteGroup
  <2> HIDE DEF changes
  <2> QED BY AskedBySeveral, <2>5, <2>4, AskFirst, AskThenDeliver, <2>6
<1>6. Guarded(Code!listGroupMembers, {}, {})
  <2> DEFINE questions == <<Code!Need({"group"}, 404),
                            Code!Need({"admin", "member"}, 403)>>
  <2>1. Asks(questions, {{"admin", "member"}})
    BY Literals, SMTT(20) DEF Asks, Question, Required
  <2>2. Code!listGroupMembers = Code!authenticateUser \o questions
    BY DEF Code!listGroupMembers
  <2> HIDE DEF questions
  <2>3. Asks(Code!authenticateUser \o questions, {{"user"}, {"admin", "member"}})
    BY AskedBySeveral, <2>1, AskMore
  <2> QED BY <2>3, OnlyAsks, <2>2
<1>7. Guarded(Code!listGroupClusters, {}, {})
  <2> DEFINE questions == <<Code!Need({"group"}, 404)>>
  <2>1. Asks(questions, {})
    BY Literals, SMTT(20) DEF Asks, Question, Required
  <2>2. Code!listGroupClusters = Code!authenticateUser \o questions
    BY DEF Code!listGroupClusters
  <2> HIDE DEF questions
  <2>3. Asks(Code!authenticateUser \o questions, {{"user"}})
    BY AskedBySeveral, <2>1, AskMore
  <2> QED BY <2>3, OnlyAsks, <2>2
<1> QED BY <1>1, <1>2, <1>3, <1>4, <1>5, <1>6, <1>7

(* The handlers of src/MonitoringCredentialCommands.cpp.                   *)
LEMMA CredentialHandlers ==
  /\ Guarded(Code!listMonitoringCredentials, {}, {})
  /\ Guarded(Code!addMonitoringCredential, {{"user"}, {"admin"}}, {"credentials"})
  /\ Guarded(Code!revokeMonitoringCredential, {{"user"}, {"admin"}},
       {"clusters", "credentials"})
  /\ Guarded(Code!deleteMonitoringCredential, {{"user"}, {"admin"}}, {"credentials"})
  /\ Guarded(Code!getClusterMonitoringCredential, {{"user"}, {"admin", "hosts"}},
       {"credentials", "clusters", "email"})
  /\ Guarded(Code!removeClusterMonitoringCredential, {{"user"}, {"admin", "hosts"}},
       {"clusters", "credentials"})
<1> USE DEF Code!Need, Code!NeedElse, Code!Do, Code!DoElse, Code!DoUnless, Code!Try,
            Code!Step
<1>1. Guarded(Code!listMonitoringCredentials, {}, {})
  BY AskedBySeveral, OnlyAsks DEF Code!listMonitoringCredentials
<1>2. Guarded(Code!addMonitoringCredential, {{"user"}, {"admin"}}, {"credentials"})
  <2> DEFINE changes == <<Code!Do("credentials", 500)>>
  <2>1. IsPiece(changes)
    BY Literals
  <2>2. ActsFrom(changes, 0, {"credentials"})
    BY DEF ActsFrom, Change
  <2>3. AsksFirst(changes, 0, {})
    BY DEF AsksFirst, Question, Required
  <2>4. Guarded(changes, {}, {"credentials"})
    BY <2>1, <2>2, <2>3, AsksThenActs
  <2>5. Code!addMonitoringCredential = Code!onlyAdmins \o Code!parseBody \o changes
    BY DEF Code!addMonitoringCredential
  <2> HIDE DEF changes
  <2>6. Asks(Code!onlyAdmins \o Code!parseBody, {{"user"}, {"admin"}})
    BY AskedBySeveral, AskMore
  <2> QED BY <2>6, <2>4, AskFirst, <2>5
<1>3. Guarded(Code!revokeMonitoringCredential, {{"user"}, {"admin"}},
        {"clusters", "credentials"})
  <2> DEFINE changes == <<Code!Need({"credential"}, 404),
                          Code!DoUnless({"unmonitored"}, "clusters", 500),
                          Code!Do("credentials", 500)>>
  <2>1. IsPiece(changes)
    BY Literals
  <2>2. ActsFrom(changes, 1, {"clusters", "credentials"})
    BY DEF ActsFrom, Change
  <2>3. AsksFirst(changes, 1, {})
    BY DEF AsksFirst, Question, Required
  <2>4. Guarded(changes, {}, {"clusters", "credentials"})
    BY <2>1, <2>2, <2>3, AsksThenActs
  <2>5. Code!revokeMonitoringCredential = Code!onlyAdmins \o changes
    BY DEF Code!revokeMonitoringCredential
  <2> HIDE DEF changes
  <2> QED BY AskedBySeveral, <2>4, AskFirst, <2>5
<1>4. Guarded(Code!deleteMonitoringCredential, {{"user"}, {"admin"}}, {"credentials"})
  <2> DEFINE changes == <<Code!Need({"credential"}, 404), Code!Do("credentials", 500)>>
  <2>1. IsPiece(changes)
    BY Literals
  <2>2. ActsFrom(changes, 1, {"credentials"})
    BY DEF ActsFrom, Change
  <2>3. AsksFirst(changes, 1, {})
    BY DEF AsksFirst, Question, Required
  <2>4. Guarded(changes, {}, {"credentials"})
    BY <2>1, <2>2, <2>3, AsksThenActs
  <2>5. Code!deleteMonitoringCredential = Code!onlyAdmins \o changes
    BY DEF Code!deleteMonitoringCredential
  <2> HIDE DEF changes
  <2> QED BY AskedBySeveral, <2>4, AskFirst, <2>5
<1>5. Guarded(Code!getClusterMonitoringCredential, {{"user"}, {"admin", "hosts"}},
        {"credentials", "clusters", "email"})
  <2> DEFINE changes == <<Code!Need({"unmonitored"}, 200), Code!Do("credentials", 500),
                          Code!Do("clusters", 500), Code!Try("email")>>
  <2>1. IsPiece(changes)
    BY Literals
  <2>2. ActsFrom(changes, 1, {"credentials", "clusters", "email"})
    BY DEF ActsFrom, Change
  <2>3. AsksFirst(changes, 1, {})
    BY DEF AsksFirst, Question, Required
  <2>4. Guarded(changes, {}, {"credentials", "clusters", "email"})
    BY <2>1, <2>2, <2>3, AsksThenActs
  <2>5. Code!getClusterMonitoringCredential = Code!byHost \o changes
    BY DEF Code!getClusterMonitoringCredential
  <2> HIDE DEF changes
  <2> QED BY AskedBySeveral, <2>4, AskFirst, <2>5
<1>6. Guarded(Code!removeClusterMonitoringCredential, {{"user"}, {"admin", "hosts"}},
        {"clusters", "credentials"})
  <2> DEFINE changes == <<Code!Need({"monitored"}, 200), Code!Do("clusters", 500),
                          Code!Try("credentials")>>
  <2>1. IsPiece(changes)
    BY Literals
  <2>2. ActsFrom(changes, 1, {"clusters", "credentials"})
    BY DEF ActsFrom, Change
  <2>3. AsksFirst(changes, 1, {})
    BY DEF AsksFirst, Question, Required
  <2>4. Guarded(changes, {}, {"clusters", "credentials"})
    BY <2>1, <2>2, <2>3, AsksThenActs
  <2>5. Code!removeClusterMonitoringCredential = Code!byHost \o changes
    BY DEF Code!removeClusterMonitoringCredential
  <2> HIDE DEF changes
  <2> QED BY AskedBySeveral, <2>4, AskFirst, <2>5
<1> QED BY <1>1, <1>2, <1>3, <1>4, <1>5, <1>6

(* The handlers of src/ClusterCommands.cpp.                                *)
LEMMA ClusterHandlers ==
  /\ Guarded(Code!listClusters, {}, {})
  /\ Guarded(Code!createCluster, {{"user"}, {"member"}}, {"clusters", "dns"})
  /\ Delivers(Code!createCluster, {}, {"clusters"})
  /\ Guarded(Code!getClusterInfo, {}, {})
  /\ Guarded(Code!deleteCluster, {{"user"}, {"hosts", "admin"}},
       {"reachability", "instances", "volumes", "secrets", "objects", "dns",
       "credentials", "clusters", "email"})
  /\ Delivers(Code!deleteCluster, {}, {"clusters"})
  /\ Guarded(Code!updateCluster, {{"user"}, {"admin", "hosts"}}, {"dns", "clusters"})
  /\ Guarded(Code!pingCluster, {{"user"}}, {"reachability"})
  /\ Guarded(Code!verifyCluster, {}, {})
<1> USE DEF Code!Need, Code!NeedElse, Code!Do, Code!DoElse, Code!DoUnless, Code!Try,
            Code!Step
<1>1. Guarded(Code!listClusters, {}, {})
  BY AskedBySeveral, OnlyAsks DEF Code!listClusters
<1>2. /\ Guarded(Code!createCluster, {{"user"}, {"member"}}, {"clusters", "dns"})
      /\ Delivers(Code!createCluster, {}, {"clusters"})
  <2> DEFINE changes == <<Code!Need({"group"}, 403), Code!Need({"member"}, 403),
                          Code!Need({"name"}, 400), Code!Need({"free"}, 400),
                          Code!Do("clusters", 500)>>
  <2>1. IsPiece(changes)
    BY Literals
  <2>2. ActsFrom(changes, 4, {"clusters"})
    BY DEF ActsFrom, Change
  <2>3. AsksFirst(changes, 4, {{"member"}})
    BY DEF AsksFirst, Question, Required
  <2>4. Delivers(changes, {}, {"clusters"})
    BY Literals, SMTT(20) DEF Delivers
  <2>5. Guarded(changes, {{"member"}}, {"clusters"})
    BY <2>1, <2>2, <2>3, AsksThenActs
  <2>6. Code!createCluster = Code!authenticateUser \o Code!checkClusterBody \o changes
          \o Code!ensureClusterSetup(TRUE)
    BY DEF Code!createCluster
  <2> HIDE DEF changes
  <2>7. Asks(Code!authenticateUser \o Code!checkClusterBody, {{"user"}})
    BY AskedBySeveral, AskMore
  <2>8. /\ Guarded(Code!authenticateUser \o Code!checkClusterBody \o changes,
             {{"user"}, {"member"}}, {"clusters"})
        /\ Delivers(Code!authenticateUser \o Code!checkClusterBody \o changes, {},
             {"clusters"})
    BY <2>7, <2>5, <2>4, AskFirst, AskThenDeliver
  <2>9. /\ Acts(Code!ensureClusterSetup(TRUE), {"clusters", "dns"})
        /\ Delivers(Code!ensureClusterSetup(TRUE), {}, {})
    BY ActedBySeveral
  <2> DEFINE setup == Code!ensureClusterSetup(TRUE)
             create == Code!authenticateUser \o Code!checkClusterBody \o changes
  <2>10. Guarded(create, {{"user"}, {"member"}}, {"clusters"}) /\ Delivers(create, {}, {"clusters"})
    BY <2>8
  <2>11. Acts(setup, {"clusters", "dns"}) /\ Delivers(setup, {}, {})
             /\ Code!createCluster = create \o setup
    BY <2>9, <2>6
  <2> HIDE DEF setup, create, Code!Need, Code!Do
  <2>12. {"clusters"} \cup {"clusters", "dns"} \subseteq {"clusters", "dns"}
             /\ {"clusters"} \subseteq {"clusters"} \cup {}
    OBVIOUS
  <2>13. Guarded(create \o setup, {{"user"}, {"member"}}, {"clusters", "dns"})
    BY <2>10, <2>11, <2>12, ActMore
  <2>14. Delivers(create \o setup, {}, {"clusters"})
    BY <2>10, <2>11, <2>12, DeliverMore
  <2> QED BY <2>11, <2>13, <2>14
<1>3. Guarded(Code!getClusterInfo, {}, {})
  BY AskedBySeveral, OnlyAsks DEF Code!getClusterInfo
<1>4. /\ Guarded(Code!deleteCluster, {{"user"}, {"hosts", "admin"}},
           {"reachability", "instances", "volumes", "secrets", "objects", "dns",
           "credentials", "clusters", "email"})
      /\ Delivers(Code!deleteCluster, {}, {"clusters"})
  <2> DEFINE changes == <<Code!Try("reachability"),
                          Code!Need({"reachable", "force"}, 500)>>
             then == <<Code!Do("clusters", 500), Code!Try("email")>>
  <2>1. IsPiece(changes)
    BY Literals
  <2>2. ActsFrom(changes, 0, {"reachability"})
    BY DEF ActsFrom, Change
  <2>3. AsksFirst(changes, 0, {})
    BY DEF AsksFirst, Question, Required
  <2>4. Delivers(changes, {}, {})
    BY Literals, SMTT(20) DEF Delivers
  <2>5. Guarded(changes, {}, {"reachability"})
    BY <2>1, <2>2, <2>3, AsksThenActs
  <2>6. IsPiece(then)
    BY Literals
  <2>7. ActsFrom(then, 0, {"clusters", "email"})
    BY DEF ActsFrom, Change
  <2>8. Delivers(then, {}, {"clusters"})
    BY Literals, SMTT(20) DEF Delivers
  <2>9. Acts(then, {"clusters", "email"})
    BY <2>6, <2>7, JustActs
  <2>10. Code!deleteCluster = Code!mayDeleteCluster \o changes \o Code!deleteDependents
           \o then
    BY DEF Code!deleteCluster
  <2> HIDE DEF changes, then
  <2>11. /\ Guarded(Code!mayDeleteCluster \o changes, {{"user"}, {"hosts", "admin"}},
              {"reachability"})
         /\ Delivers(Code!mayDeleteCluster \o changes, {}, {})
    BY AskedBySeveral, <2>5, <2>4, AskFirst, AskThenDeliver
  <2>12. /\ Guarded(Code!mayDeleteCluster \o changes \o Code!deleteDependents,
              {{"user"}, {"hosts", "admin"}},
              {"reachability", "instances", "volumes", "secrets", "objects", "dns",
              "credentials"})
         /\ Delivers(Code!mayDeleteCluster \o changes \o Code!deleteDependents, {}, {})
    BY <2>11, ActedBySeveral, ActMore, DeliverMore
  <2> QED BY <2>12, <2>9, <2>8, ActMore, DeliverMore, <2>10
<1>5. Guarded(Code!updateCluster, {{"user"}, {"admin", "hosts"}}, {"dns", "clusters"})
  <2> DEFINE then == <<Code!Need({"changes"}, 200), Code!Do("clusters", 500),
                       Code!Need({"kubeconfig"}, 200)>>
  <2>1. IsPiece(then)
    BY Literals
  <2>2. ActsFrom(then, 0, {"clusters"})
    BY DEF ActsFrom, Change
  <2>3. Acts(then, {"clusters"})
    BY <2>1, <2>2, JustActs
  <2>4. Code!updateCluster = Code!byHost \o Code!parseBody \o Code!setClusterDNSRecord
          \o then \o Code!ensureClusterSetup(FALSE)
    BY DEF Code!updateCluster
  <2> HIDE DEF then
  <2>5. Asks(Code!byHost \o Code!parseBody, {{"user"}, {"admin", "hosts"}})
    BY AskedBySeveral, AskMore
  <2>6. Guarded(Code!byHost \o Code!parseBody \o Code!setClusterDNSRecord,
          {{"user"}, {"admin", "hosts"}}, {"dns"})
    BY <2>5, ActedBySeveral, AskFirst
  <2>7. Guarded(Code!byHost \o Code!parseBody \o Code!setClusterDNSRecord \o then,
          {{"user"}, {"admin", "hosts"}}, {"dns", "clusters"})
    BY <2>6, <2>3, ActMore
  <2> QED BY <2>7, ActedBySeveral, ActMore, <2>4
<1>6. Guarded(Code!pingCluster, {{"user"}}, {"reachability"})
  <2> DEFINE changes == <<Code!Try("reachability")>>
  <2>1. IsPiece(changes)
    BY Literals
  <2>2. ActsFrom(changes, 0, {"reachability"})
    BY DEF ActsFrom, Change
  <2>3. AsksFirst(changes, 0, {})
    BY DEF AsksFirst, Question, Required
  <2>4. Guarded(changes, {}, {"reachability"})
    BY <2>1, <2>2, <2>3, AsksThenActs
  <2>5. Code!pingCluster = Code!atCluster \o changes
    BY DEF Code!pingCluster
  <2> HIDE DEF changes
  <2> QED BY AskedBySeveral, <2>4, AskFirst, <2>5
<1>7. Guarded(Code!verifyCluster, {}, {})
  BY AskedBySeveral, OnlyAsks DEF Code!verifyCluster
<1> QED BY <1>1, <1>2, <1>3, <1>4, <1>5, <1>6, <1>7

(* The handlers of src/ClusterCommands.cpp.                                *)
LEMMA AccessHandlers ==
  /\ Guarded(Code!listClusterAllowedgroups, {}, {})
  /\ Guarded(Code!checkGroupClusterAccess, {}, {})
  /\ Guarded(Code!grantGroupClusterAccess, {{"user"}, {"admin", "hosts"}}, {"access"})
  /\ Guarded(Code!revokeGroupClusterAccess, {{"user"}, {"admin", "hosts"}}, {"access"})
  /\ Delivers(Code!revokeGroupClusterAccess, {}, {"access"})
  /\ Guarded(Code!listClusterGroupAllowedApplications, {}, {})
  /\ Guarded(Code!allowGroupUseOfApplication, {{"user"}, {"admin", "hosts"}},
       {"permissions"})
  /\ Delivers(Code!allowGroupUseOfApplication, {}, {"permissions"})
  /\ Guarded(Code!denyGroupUseOfApplication, {{"user"}, {"admin", "hosts"}},
       {"permissions"})
  /\ Delivers(Code!denyGroupUseOfApplication, {}, {"permissions"})
<1> USE DEF Code!Need, Code!NeedElse, Code!Do, Code!DoElse, Code!DoUnless, Code!Try,
            Code!Step
<1>1. Guarded(Code!listClusterAllowedgroups, {}, {})
  BY AskedBySeveral, OnlyAsks DEF Code!listClusterAllowedgroups
<1>2. Guarded(Code!checkGroupClusterAccess, {}, {})
  <2> DEFINE questions == <<Code!Need({"wildcard", "group"}, 404)>>
  <2>1. Asks(questions, {})
    BY Literals, SMTT(20) DEF Asks, Question, Required
  <2>2. Code!checkGroupClusterAccess = Code!atCluster \o questions
    BY DEF Code!checkGroupClusterAccess
  <2> HIDE DEF questions
  <2>3. Asks(Code!atCluster \o questions, {{"user"}})
    BY AskedBySeveral, <2>1, AskMore
  <2> QED BY <2>3, OnlyAsks, <2>2
<1>3. Guarded(Code!grantGroupClusterAccess, {{"user"}, {"admin", "hosts"}}, {"access"})
  <2> DEFINE changes == <<Code!Need({"wildcard", "group"}, 404),
                          Code!Need({"wildcard", "guest"}, 200),
                          Code!Do("access", 500)>>
  <2>1. IsPiece(changes)
    BY Literals
  <2>2. ActsFrom(changes, 2, {"access"})
    BY DEF ActsFrom, Change
  <2>3. AsksFirst(changes, 2, {})
    BY DEF AsksFirst, Question, Required
  <2>4. Guarded(changes, {}, {"access"})
    BY <2>1, <2>2, <2>3, AsksThenActs
  <2>5. Code!grantGroupClusterAccess = Code!byHost \o changes
    BY DEF Code!grantGroupClusterAccess
  <2> HIDE DEF changes
  <2> QED BY AskedBySeveral, <2>4, AskFirst, <2>5
<1>4. /\ Guarded(Code!revokeGroupClusterAccess, {{"user"}, {"admin", "hosts"}},
           {"access"})
      /\ Delivers(Code!revokeGroupClusterAccess, {}, {"access"})
  <2> DEFINE changes == <<Code!Need({"wildcard", "group"}, 404),
                          Code!Need({"wildcard", "guest"}, 400),
                          Code!Do("access", 500)>>
  <2>1. IsPiece(changes)
    BY Literals
  <2>2. ActsFrom(changes, 2, {"access"})
    BY DEF ActsFrom, Change
  <2>3. AsksFirst(changes, 2, {})
    BY DEF AsksFirst, Question, Required
  <2>4. Delivers(changes, {}, {"access"})
    BY Literals, SMTT(20) DEF Delivers
  <2>5. Guarded(changes, {}, {"access"})
    BY <2>1, <2>2, <2>3, AsksThenActs
  <2>6. Code!revokeGroupClusterAccess = Code!byHost \o changes
    BY DEF Code!revokeGroupClusterAccess
  <2> HIDE DEF changes
  <2> QED BY AskedBySeveral, <2>5, <2>4, AskFirst, AskThenDeliver, <2>6
<1>5. Guarded(Code!listClusterGroupAllowedApplications, {}, {})
  <2> DEFINE questions == <<Code!Need({"group"}, 404),
                            Code!Need({"admin", "hosts", "member"}, 403)>>
  <2>1. Asks(questions, {})
    BY Literals, SMTT(20) DEF Asks, Question, Required
  <2>2. Code!listClusterGroupAllowedApplications = Code!atCluster \o questions
    BY DEF Code!listClusterGroupAllowedApplications
  <2> HIDE DEF questions
  <2>3. Asks(Code!atCluster \o questions, {{"user"}})
    BY AskedBySeveral, <2>1, AskMore
  <2> QED BY <2>3, OnlyAsks, <2>2
<1>6. /\ Guarded(Code!allowGroupUseOfApplication, {{"user"}, {"admin", "hosts"}},
           {"permissions"})
      /\ Delivers(Code!allowGroupUseOfApplication, {}, {"permissions"})
  BY GuardedBySeveral DEF Code!allowGroupUseOfApplication
<1>7. /\ Guarded(Code!denyGroupUseOfApplication, {{"user"}, {"admin", "hosts"}},
           {"permissions"})
      /\ Delivers(Code!denyGroupUseOfApplication, {}, {"permissions"})
  BY GuardedBySeveral DEF Code!denyGroupUseOfApplication
<1> QED BY <1>1, <1>2, <1>3, <1>4, <1>5, <1>6, <1>7

(* The handlers of src/ApplicationCommands.cpp.                            *)
LEMMA ApplicationHandlers ==
  /\ Guarded(Code!listApplications, {}, {})
  /\ Guarded(Code!fetchApplicationConfig, {}, {})
  /\ Guarded(Code!fetchApplicationVersions, {}, {})
  /\ Guarded(Code!fetchApplicationDocumentation, {}, {})
  /\ Guarded(Code!installApplication, {{"user"}, {"member"}, {"owns", "access"}},
       {"instances", "namespace", "objects"})
  /\ Delivers(Code!installApplication, {}, {"instances", "namespace", "objects"})
  /\ Guarded(Code!installAdHocApplication, {{"user"}, {"member"}, {"owns", "access"}},
       {"instances", "namespace", "objects"})
  /\ Delivers(Code!installAdHocApplication, {}, {"instances", "namespace", "objects"})
  /\ Guarded(Code!updateCatalog, {{"user"}}, {"catalogue"})
<1> USE DEF Code!Need, Code!NeedElse, Code!Do, Code!DoElse, Code!DoUnless, Code!Try,
            Code!Step
<1>1. Guarded(Code!listApplications, {}, {})
  <2>1. Asks(Code!listApplications, {})
    BY Literals, SMTT(20) DEF Asks, Question, Required, Code!listApplications
  <2> QED BY <2>1, OnlyAsks
<1>2. Guarded(Code!fetchApplicationConfig, {}, {})
  BY AskedBySeveral, OnlyAsks DEF Code!fetchApplicationConfig
<1>3. Guarded(Code!fetchApplicationVersions, {}, {})
  BY AskedBySeveral, OnlyAsks DEF Code!fetchApplicationVersions
<1>4. Guarded(Code!fetchApplicationDocumentation, {}, {})
  BY AskedBySeveral, OnlyAsks DEF Code!fetchApplicationDocumentation
<1>5. /\ Guarded(Code!installApplication, {{"user"}, {"member"}, {"owns", "access"}},
           {"instances", "namespace", "objects"})
      /\ Delivers(Code!installApplication, {}, {"instances", "namespace", "objects"})
  <2> DEFINE questions == <<Code!Need({"unquoted"}, 400), Code!Need({"json"}, 400),
                            Code!Need({"object"}, 500), Code!Need({"catalogue"}, 500),
                            Code!Need({"target"}, 404)>>
  <2>1. Asks(questions, {})
    BY Literals, SMTT(20) DEF Asks, Question, Required
  <2>2. Code!installApplication = Code!authenticateUser \o questions
          \o Code!installApplicationImpl
    BY DEF Code!installApplication
  <2> HIDE DEF questions
  <2>3. Asks(Code!authenticateUser \o questions, {{"user"}})
    BY AskedBySeveral, <2>1, AskMore
  <2> QED BY <2>3, GuardedBySeveral, AskFirst, AskThenDeliver, <2>2
<1>6. /\ Guarded(Code!installAdHocApplication,
           {{"user"}, {"member"}, {"owns", "access"}},
           {"instances", "namespace", "objects"})
      /\ Delivers(Code!installAdHocApplication, {},
           {"instances", "namespace", "objects"})
  <2> DEFINE questions == <<Code!Need({"adHocAllowed"}, 400)>>
             checks == <<Code!Need({"unpacked"}, 500)>>
  <2>1. Asks(questions, {})
    BY Literals, SMTT(20) DEF Asks, Question, Required
  <2>2. Asks(checks, {})
    BY Literals, SMTT(20) DEF Asks, Question, Required
  <2>3. Code!installAdHocApplication = questions \o Code!authenticateUser
          \o Code!parseBody \o checks \o Code!extractChartName
          \o Code!installApplicationImpl
    BY DEF Code!installAdHocApplication
  <2> HIDE DEF questions, checks
  <2>4. Asks(questions \o Code!authenticateUser, {{"user"}})
    BY <2>1, AskedBySeveral, AskMore
  <2>5. Asks(questions \o Code!authenticateUser \o Code!parseBody, {{"user"}})
    BY <2>4, AskedBySeveral, AskMore
  <2>6. Asks(questions \o Code!authenticateUser \o Code!parseBody \o checks, {{"user"}})
    BY <2>5, <2>2, AskMore
  <2>7. Asks(questions \o Code!authenticateUser \o Code!parseBody \o checks
          \o Code!extractChartName, {{"user"}})
    BY <2>6, AskedBySeveral, AskMore
  <2> QED BY <2>7, GuardedBySeveral, AskFirst, AskThenDeliver, <2>3
<1>7. Guarded(Code!updateCatalog, {{"user"}}, {"catalogue"})
  <2> DEFINE changes == <<Code!Do("catalogue", 500)>>
  <2>1. IsPiece(changes)
    BY Literals
  <2>2. ActsFrom(changes, 0, {"catalogue"})
    BY DEF ActsFrom, Change
  <2>3. AsksFirst(changes, 0, {})
    BY DEF AsksFirst, Question, Required
  <2>4. Guarded(changes, {}, {"catalogue"})
    BY <2>1, <2>2, <2>3, AsksThenActs
  <2>5. Code!updateCatalog = Code!authenticateUser \o changes
    BY DEF Code!updateCatalog
  <2> HIDE DEF changes
  <2> QED BY AskedBySeveral, <2>4, AskFirst, <2>5
<1> QED BY <1>1, <1>2, <1>3, <1>4, <1>5, <1>6, <1>7

(* The handlers of src/ApplicationInstanceCommands.cpp.                    *)
LEMMA InstanceHandlers ==
  /\ Guarded(Code!listApplicationInstances, {}, {})
  /\ Guarded(Code!fetchApplicationInstanceInfo, {}, {})
  /\ Guarded(Code!deleteApplicationInstance, {{"user"}, {"admin", "member"}},
       {"objects", "instances"})
  /\ Delivers(Code!deleteApplicationInstance, {}, {"instances"})
  /\ Guarded(Code!updateApplicationInstance, {{"user"}, {"admin", "member"}},
       {"objects", "namespace", "instances"})
  /\ Delivers(Code!updateApplicationInstance, {}, {"objects", "namespace"})
  /\ Guarded(Code!restartApplicationInstance, {{"user"}, {"admin", "member"}},
       {"objects", "namespace"})
  /\ Delivers(Code!restartApplicationInstance, {}, {"objects", "namespace"})
  /\ Guarded(Code!getApplicationInstanceScale, {}, {})
  /\ Guarded(Code!scaleApplicationInstance, {{"user"}, {"admin", "member"}},
       {"objects"})
  /\ Guarded(Code!getApplicationInstanceLogs, {}, {})
<1> USE DEF Code!Need, Code!NeedElse, Code!Do, Code!DoElse, Code!DoUnless, Code!Try,
            Code!Step
<1>1. Guarded(Code!listApplicationInstances, {}, {})
  BY AskedBySeveral, OnlyAsks DEF Code!listApplicationInstances
<1>2. Guarded(Code!fetchApplicationInstanceInfo, {}, {})
  <2> DEFINE questions == <<Code!Need({"group"}, 500), Code!Need({"cluster"}, 500)>>
  <2>1. Asks(questions, {})
    BY Literals, SMTT(20) DEF Asks, Question, Required
  <2>2. Code!fetchApplicationInstanceInfo = Code!atInstance \o questions
    BY DEF Code!fetchApplicationInstanceInfo
  <2> HIDE DEF questions
  <2>3. Asks(Code!atInstance \o questions, {{"user"}, {"admin", "member"}})
    BY AskedBySeveral, <2>1, AskMore
  <2> QED BY <2>3, OnlyAsks, <2>2
<1>3. /\ Guarded(Code!deleteApplicationInstance, {{"user"}, {"admin", "member"}},
           {"objects", "instances"})
      /\ Delivers(Code!deleteApplicationInstance, {}, {"instances"})
  <2> DEFINE changes == <<Code!DoUnless({"force"}, "objects", 500),
                          Code!Do("instances", 500)>>
  <2>1. IsPiece(changes)
    BY Literals
  <2>2. ActsFrom(changes, 0, {"objects", "instances"})
    BY DEF ActsFrom, Change
  <2>3. AsksFirst(changes, 0, {})
    BY DEF AsksFirst, Question, Required
  <2>4. Delivers(changes, {}, {"instances"})
    BY Literals, SMTT(20) DEF Delivers
  <2>5. Guarded(changes, {}, {"objects", "instances"})
    BY <2>1, <2>2, <2>3, AsksThenActs
  <2>6. Code!deleteApplicationInstance = Code!atInstance \o changes
    BY DEF Code!deleteApplicationInstance
  <2> HIDE DEF changes
  <2> QED BY AskedBySeveral, <2>5, <2>4, AskFirst, AskThenDeliver, <2>6
<1>4. /\ Guarded(Code!updateApplicationInstance, {{"user"}, {"admin", "member"}},
           {"objects", "namespace", "instances"})
      /\ Delivers(Code!updateApplicationInstance, {}, {"objects", "namespace"})
  <2> DEFINE questions == <<Code!Need({"group"}, 500), Code!Need({"cluster"}, 500)>>
             checks == <<Code!Need({"version"}, 500)>>
             then == <<Code!Try("instances")>>
  <2>1. Asks(questions, {})
    BY Literals, SMTT(20) DEF Asks, Question, Required
  <2>2. Asks(checks, {})
    BY Literals, SMTT(20) DEF Asks, Question, Required
  <2>3. IsPiece(then)
    BY Literals
  <2>4. ActsFrom(then, 0, {"instances"})
    BY DEF ActsFrom, Change
  <2>5. Delivers(then, {}, {})
    BY Literals, SMTT(20) DEF Delivers
  <2>6. Acts(then, {"instances"})
    BY <2>3, <2>4, JustActs
  <2>7. Code!updateApplicationInstance = Code!atInstance \o questions \o Code!parseBody
          \o checks \o Code!stopInstance \o Code!startInstance \o then
    BY DEF Code!updateApplicationInstance
  <2> HIDE DEF questions, checks, then
  <2>8. Asks(Code!atInstance \o questions, {{"user"}, {"admin", "member"}})
    BY AskedBySeveral, <2>1, AskMore
  <2>9. Asks(Code!atInstance \o questions \o Code!parseBody,
          {{"user"}, {"admin", "member"}})
    BY <2>8, AskedBySeveral, AskMore
  <2>10. Asks(Code!atInstance \o questions \o Code!parseBody \o checks,
           {{"user"}, {"admin", "member"}})
    BY <2>9, <2>2, AskMore
  <2>11. /\ Guarded(Code!atInstance \o questions \o Code!parseBody \o checks
              \o Code!stopInstance, {{"user"}, {"admin", "member"}}, {"objects"})
         /\ Delivers(Code!atInstance \o questions \o Code!parseBody \o checks
              \o Code!stopInstance, {}, {"objects"})
    BY <2>10, ActedBySeveral, AskFirst, AskThenDeliver
  <2>12. /\ Guarded(Code!atInstance \o questions \o Code!parseBody \o checks
              \o Code!stopInstance \o Code!startInstance,
              {{"user"}, {"admin", "member"}}, {"objects", "namespace"})
         /\ Delivers(Code!atInstance \o questions \o Code!parseBody \o checks
              \o Code!stopInstance \o Code!startInstance, {}, {"objects", "namespace"})
    BY <2>11, ActedBySeveral, ActMore, DeliverMore
  <2> QED BY <2>12, <2>6, <2>5, ActMore, DeliverMore, <2>7
<1>5. /\ Guarded(Code!restartApplicationInstance, {{"user"}, {"admin", "member"}},
           {"objects", "namespace"})
      /\ Delivers(Code!restartApplicationInstance, {}, {"objects", "namespace"})
  <2> DEFINE questions == <<Code!Need({"group"}, 500), Code!Need({"cluster"}, 500)>>
  <2>1. Asks(questions, {})
    BY Literals, SMTT(20) DEF Asks, Question, Required
  <2>2. Code!restartApplicationInstance = Code!atInstance \o questions
          \o Code!stopInstance \o Code!startInstance
    BY DEF Code!restartApplicationInstance
  <2> HIDE DEF questions
  <2>3. Asks(Code!atInstance \o questions, {{"user"}, {"admin", "member"}})
    BY AskedBySeveral, <2>1, AskMore
  <2>4. /\ Guarded(Code!atInstance \o questions \o Code!stopInstance,
             {{"user"}, {"admin", "member"}}, {"objects"})
        /\ Delivers(Code!atInstance \o questions \o Code!stopInstance, {}, {"objects"})
    BY <2>3, ActedBySeveral, AskFirst, AskThenDeliver
  <2> QED BY <2>4, ActedBySeveral, ActMore, DeliverMore, <2>2
<1>6. Guarded(Code!getApplicationInstanceScale, {}, {})
  <2> DEFINE questions == <<Code!Need({"target"}, 400),
                            Code!Need({"admin", "member"}, 403),
                            Code!Need({"deployments"}, 400),
                            Code!Need({"deployment"}, 400)>>
  <2>1. Asks(questions, {{"admin", "member"}})
    BY Literals, SMTT(20) DEF Asks, Question, Required
  <2>2. Code!getApplicationInstanceScale = Code!authenticateUser \o questions
    BY DEF Code!getApplicationInstanceScale
  <2> HIDE DEF questions
  <2>3. Asks(Code!authenticateUser \o questions, {{"user"}, {"admin", "member"}})
    BY AskedBySeveral, <2>1, AskMore
  <2> QED BY <2>3, OnlyAsks, <2>2
<1>7. Guarded(Code!scaleApplicationInstance, {{"user"}, {"admin", "member"}},
        {"objects"})
  <2> DEFINE changes == <<Code!Need({"parameter"}, 400),
                          Code!Need({"deployments"}, 400),
                          Code!Need({"deployment"}, 404), Code!Do("objects", 500)>>
  <2>1. IsPiece(changes)
    BY Literals
  <2>2. ActsFrom(changes, 3, {"objects"})
    BY DEF ActsFrom, Change
  <2>3. AsksFirst(changes, 3, {})
    BY DEF AsksFirst, Question, Required
  <2>4. Guarded(changes, {}, {"objects"})
    BY <2>1, <2>2, <2>3, AsksThenActs
  <2>5. Code!scaleApplicationInstance = Code!atInstance \o changes
    BY DEF Code!scaleApplicationInstance
  <2> HIDE DEF changes
  <2> QED BY AskedBySeveral, <2>4, AskFirst, <2>5
<1>8. Guarded(Code!getApplicationInstanceLogs, {}, {})
  <2> DEFINE questions == <<Code!Need({"pods"}, 500), Code!Need({"container"}, 400)>>
  <2>1. Asks(questions, {})
    BY Literals, SMTT(20) DEF Asks, Question, Required
  <2>2. Code!getApplicationInstanceLogs = Code!atInstance \o questions
    BY DEF Code!getApplicationInstanceLogs
  <2> HIDE DEF questions
  <2>3. Asks(Code!atInstance \o questions, {{"user"}, {"admin", "member"}})
    BY AskedBySeveral, <2>1, AskMore
  <2> QED BY <2>3, OnlyAsks, <2>2
<1> QED BY <1>1, <1>2, <1>3, <1>4, <1>5, <1>6, <1>7, <1>8

(* The handlers of src/SecretCommands.cpp.                                 *)
LEMMA SecretHandlers ==
  /\ Guarded(Code!listSecrets, {}, {})
  /\ Guarded(Code!createSecret, {{"user"}, {"member"}, {"owns", "access"}},
       {"secrets", "namespace", "objects"})
  /\ Delivers(Code!createSecret, {}, {"secrets", "namespace", "objects"})
  /\ Guarded(Code!deleteSecret, {{"user"}, {"member"}}, {"objects", "secrets"})
  /\ Delivers(Code!deleteSecret, {}, {"secrets"})
  /\ Guarded(Code!getSecret, {}, {})
<1> USE DEF Code!Need, Code!NeedElse, Code!Do, Code!DoElse, Code!DoUnless, Code!Try,
            Code!Step
<1>1. Guarded(Code!listSecrets, {}, {})
  <2> DEFINE questions == <<Code!Need({"parameter"}, 400), Code!Need({"group"}, 404),
                            Code!Need({"admin", "member"}, 403)>>
  <2>1. Asks(questions, {{"admin", "member"}})
    BY Literals, SMTT(20) DEF Asks, Question, Required
  <2>2. Code!listSecrets = Code!authenticateUser \o questions
    BY DEF Code!listSecrets
  <2> HIDE DEF questions
  <2>3. Asks(Code!authenticateUser \o questions, {{"user"}, {"admin", "member"}})
    BY AskedBySeveral, <2>1, AskMore
  <2> QED BY <2>3, OnlyAsks, <2>2
<1>2. /\ Guarded(Code!createSecret, {{"user"}, {"member"}, {"owns", "access"}},
           {"secrets", "namespace", "objects"})
      /\ Delivers(Code!createSecret, {}, {"secrets", "namespace", "objects"})
  <2> DEFINE questions == <<Code!Need({"given", "source"}, 404),
                            Code!Need({"given", "sourceMember"}, 403)>>
             changes == <<Code!Do("secrets", 500),
                          Code!DoElse("namespace", 500, {"secrets"}),
                          Code!Need({"file"}, 500),
                          Code!DoElse("objects", 500, {"secrets"})>>
  <2>1. Asks(questions, {})
    BY Literals, SMTT(20) DEF Asks, Question, Required
  <2>2. IsPiece(changes)
    BY Literals
  <2>3. ActsFrom(changes, 0, {"secrets", "namespace", "objects"})
    BY DEF ActsFrom, Change
  <2>4. AsksFirst(changes, 0, {})
    BY DEF AsksFirst, Question, Required
  <2>5. Delivers(changes, {}, {"secrets", "namespace", "objects"})
    BY Literals, SMTT(20) DEF Delivers
  <2>6. Guarded(changes, {}, {"secrets", "namespace", "objects"})
    BY <2>2, <2>3, <2>4, AsksThenActs
  <2>7. Code!createSecret = Code!authenticateUser \o Code!checkSecretBody
          \o Code!mayDeploy \o questions \o Code!encryptSecret \o changes
    BY DEF Code!createSecret
  <2> HIDE DEF questions, changes
  <2>8. Asks(Code!authenticateUser \o Code!checkSecretBody, {{"user"}})
    BY AskedBySeveral, AskMore
  <2>9. Asks(Code!authenticateUser \o Code!checkSecretBody \o Code!mayDeploy,
          {{"user"}, {"member"}, {"owns", "access"}})
    BY <2>8, AskedBySeveral, AskMore
  <2>10. Asks(Code!authenticateUser \o Code!checkSecretBody \o Code!mayDeploy
           \o questions, {{"user"}, {"member"}, {"owns", "access"}})
    BY <2>9, <2>1, AskMore
  <2>11. Asks(Code!authenticateUser \o Code!checkSecretBody \o Code!mayDeploy
           \o questions \o Code!encryptSecret,
           {{"user"}, {"member"}, {"owns", "access"}})
    BY <2>10, AskedBySeveral, AskMore
  <2> QED BY <2>11, <2>6, <2>5, AskFirst, AskThenDeliver, <2>7
<1>3. /\ Guarded(Code!deleteSecret, {{"user"}, {"member"}}, {"objects", "secrets"})
      /\ Delivers(Code!deleteSecret, {}, {"secrets"})
  <2> DEFINE changes == <<Code!DoUnless({"force"}, "objects", 500),
                          Code!Do("secrets", 500)>>
  <2>1. IsPiece(changes)
    BY Literals
  <2>2. ActsFrom(changes, 0, {"objects", "secrets"})
    BY DEF ActsFrom, Change
  <2>3. AsksFirst(changes, 0, {})
    BY DEF AsksFirst, Question, Required
  <2>4. Delivers(changes, {}, {"secrets"})
    BY Literals, SMTT(20) DEF Delivers
  <2>5. Guarded(changes, {}, {"objects", "secrets"})
    BY <2>1, <2>2, <2>3, AsksThenActs
  <2>6. Code!deleteSecret = Code!atSecret \o changes
    BY DEF Code!deleteSecret
  <2> HIDE DEF changes
  <2> QED BY AskedBySeveral, <2>5, <2>4, AskFirst, AskThenDeliver, <2>6
<1>4. Guarded(Code!getSecret, {}, {})
  <2> DEFINE questions == <<Code!Need({"decrypted"}, 500)>>
  <2>1. Asks(questions, {})
    BY Literals, SMTT(20) DEF Asks, Question, Required
  <2>2. Code!getSecret = Code!atSecret \o questions
    BY DEF Code!getSecret
  <2> HIDE DEF questions
  <2>3. Asks(Code!atSecret \o questions, {{"user"}, {"member"}})
    BY AskedBySeveral, <2>1, AskMore
  <2> QED BY <2>3, OnlyAsks, <2>2
<1> QED BY <1>1, <1>2, <1>3, <1>4

(* The handlers of src/VolumeClaimCommands.cpp.                            *)
LEMMA VolumeHandlers ==
  /\ Guarded(Code!listVolumeClaims, {}, {})
  /\ Guarded(Code!fetchVolumeClaimInfo, {}, {})
  /\ Guarded(Code!createVolumeClaim, {{"user"}, {"member"}, {"owns", "access"}},
       {"volumes", "namespace", "objects"})
  /\ Delivers(Code!createVolumeClaim, {}, {"volumes", "namespace", "objects"})
  /\ Guarded(Code!deleteVolumeClaim, {{"user"}, {"admin", "member"}},
       {"objects", "volumes"})
  /\ Delivers(Code!deleteVolumeClaim, {}, {"volumes"})
<1> USE DEF Code!Need, Code!NeedElse, Code!Do, Code!DoElse, Code!DoUnless, Code!Try,
            Code!Step
<1>1. Guarded(Code!listVolumeClaims, {}, {})
  BY AskedBySeveral, OnlyAsks DEF Code!listVolumeClaims
<1>2. Guarded(Code!fetchVolumeClaimInfo, {}, {})
  <2> DEFINE questions == <<Code!Need({"cluster"}, 500)>>
  <2>1. Asks(questions, {})
    BY Literals, SMTT(20) DEF Asks, Question, Required
  <2>2. Code!fetchVolumeClaimInfo = Code!atVolume \o questions
    BY DEF Code!fetchVolumeClaimInfo
  <2> HIDE DEF questions
  <2>3. Asks(Code!atVolume \o questions, {{"user"}, {"admin", "member"}})
    BY AskedBySeveral, <2>1, AskMore
  <2> QED BY <2>3, OnlyAsks, <2>2
<1>3. /\ Guarded(Code!createVolumeClaim, {{"user"}, {"member"}, {"owns", "access"}},
           {"volumes", "namespace", "objects"})
      /\ Delivers(Code!createVolumeClaim, {}, {"volumes", "namespace", "objects"})
  <2> DEFINE changes == <<Code!Do("volumes", 500),
                          Code!DoElse("namespace", 500, {"volumes"}),
                          Code!DoElse("objects", 500, {"volumes"})>>
  <2>1. IsPiece(changes)
    BY Literals
  <2>2. ActsFrom(changes, 0, {"volumes", "namespace", "objects"})
    BY DEF ActsFrom, Change
  <2>3. AsksFirst(changes, 0, {})
    BY DEF AsksFirst, Question, Required
  <2>4. Delivers(changes, {}, {"volumes", "namespace", "objects"})
    BY Literals, SMTT(20) DEF Delivers
  <2>5. Guarded(changes, {}, {"volumes", "namespace", "objects"})
    BY <2>1, <2>2, <2>3, AsksThenActs
  <2>6. Code!createVolumeClaim = Code!authenticateUser \o Code!checkVolumeBody
          \o Code!checkVolumeModes \o Code!mayDeploy \o changes
    BY DEF Code!createVolumeClaim
  <2> HIDE DEF changes
  <2>7. Asks(Code!authenticateUser \o Code!checkVolumeBody, {{"user"}})
    BY AskedBySeveral, AskMore
  <2>8. Asks(Code!authenticateUser \o Code!checkVolumeBody \o Code!checkVolumeModes,
          {{"user"}})
    BY <2>7, AskedBySeveral, AskMore
  <2>9. Asks(Code!authenticateUser \o Code!checkVolumeBody \o Code!checkVolumeModes
          \o Code!mayDeploy, {{"user"}, {"member"}, {"owns", "access"}})
    BY <2>8, AskedBySeveral, AskMore
  <2> QED BY <2>9, <2>5, <2>4, AskFirst, AskThenDeliver, <2>6
<1>4. /\ Guarded(Code!deleteVolumeClaim, {{"user"}, {"admin", "member"}},
           {"objects", "volumes"})
      /\ Delivers(Code!deleteVolumeClaim, {}, {"volumes"})
  <2> DEFINE changes == <<Code!Need({"unmounted"}, 500),
                          Code!DoUnless({"force"}, "objects", 500),
                          Code!Do("volumes", 500)>>
  <2>1. IsPiece(changes)
    BY Literals
  <2>2. ActsFrom(changes, 1, {"objects", "volumes"})
    BY DEF ActsFrom, Change
  <2>3. AsksFirst(changes, 1, {})
    BY DEF AsksFirst, Question, Required
  <2>4. Delivers(changes, {}, {"volumes"})
    BY Literals, SMTT(20) DEF Delivers
  <2>5. Guarded(changes, {}, {"objects", "volumes"})
    BY <2>1, <2>2, <2>3, AsksThenActs
  <2>6. Code!deleteVolumeClaim = Code!atVolume \o changes
    BY DEF Code!deleteVolumeClaim
  <2> HIDE DEF changes
  <2> QED BY AskedBySeveral, <2>5, <2>4, AskFirst, AskThenDeliver, <2>6
<1> QED BY <1>1, <1>2, <1>3, <1>4

(* The handlers of src/slate_service.cpp.                                  *)
LEMMA OtherHandlers ==
  /\ Guarded(Code!multiplex, {{"user"}}, {"requests"})
  /\ Guarded(Code!getStatistics, {}, {})
  /\ Guarded(Code!serverVersionInfo, {}, {})
  /\ Guarded(Code!unsupported, {}, {})
<1> USE DEF Code!Need, Code!NeedElse, Code!Do, Code!DoElse, Code!DoUnless, Code!Try,
            Code!Step
<1>1. Guarded(Code!multiplex, {{"user"}}, {"requests"})
  <2> DEFINE changes == <<Code!Need({"json"}, 400), Code!Need({"object"}, 400),
                          Code!Need({"fields"}, 400), Code!Need({"stringBody"}, 500),
                          Code!Try("requests")>>
  <2>1. IsPiece(changes)
    BY Literals
  <2>2. ActsFrom(changes, 4, {"requests"})
    BY DEF ActsFrom, Change
  <2>3. AsksFirst(changes, 4, {})
    BY DEF AsksFirst, Question, Required
  <2>4. Guarded(changes, {}, {"requests"})
    BY <2>1, <2>2, <2>3, AsksThenActs
  <2>5. Code!multiplex = Code!authenticateUser \o changes
    BY DEF Code!multiplex
  <2> HIDE DEF changes
  <2> QED BY AskedBySeveral, <2>4, AskFirst, <2>5
<1>2. Guarded(Code!getStatistics, {}, {})
  <2>1. Asks(Code!getStatistics, {})
    BY Literals, SMTT(20) DEF Asks, Question, Required, Code!getStatistics
  <2> QED BY <2>1, OnlyAsks
<1>3. Guarded(Code!serverVersionInfo, {}, {})
  <2>1. Asks(Code!serverVersionInfo, {})
    BY Literals, SMTT(20) DEF Asks, Question, Required, Code!serverVersionInfo
  <2> QED BY <2>1, OnlyAsks
<1>4. Guarded(Code!unsupported, {}, {})
  <2>1. Asks(Code!unsupported, {})
    BY Literals, SMTT(20) DEF Asks, Question, Required, Code!unsupported
  <2> QED BY <2>1, OnlyAsks
<1> QED BY <1>1, <1>2, <1>3, <1>4

-----------------------------------------------------------------------------
(* Every handler is of this kind.                                          *)
LEMMA Codes ==
  ASSUME NEW s, NEW needs, NEW effects, Guarded(s, needs, effects)
  PROVE  \A i \in 1..Len(s) : s[i].kind # "try" => s[i].code \in 200..599
<1> SUFFICES ASSUME NEW i \in 1..Len(s), s[i].kind # "try" PROVE s[i].code \in 200..599
  OBVIOUS
<1>1. PICK n \in 0..Len(s) : GuardedBy(s, n, needs, effects)
  BY DEF Guarded
<1>2. CASE i <= n
  <2>1. i \in 1..n
    BY <1>2
  <2> QED BY <1>1, <2>1 DEF GuardedBy, AsksFirst, Question
<1>3. CASE ~(i <= n)
  <2>1. i \in (n + 1)..Len(s)
    BY <1>3
  <2> QED BY <1>1, <2>1 DEF GuardedBy, ActsFrom, Change
<1> QED BY <1>2, <1>3

IsGuarded(s) == \E needs, effects : Guarded(s, needs, effects)

LEMMA NamesOfHandlers ==
  DOMAIN Handler = {"listUsers", "createUser", "getUserInfo", "updateUser",
    "deleteUser", "listUsergroups", "addUserToGroup", "removeUserFromGroup",
    "replaceUserToken", "findUser", "whoAreThey", "listClusters", "createCluster",
    "getClusterInfo", "deleteCluster", "updateCluster", "pingCluster", "verifyCluster",
    "listClusterAllowedgroups", "checkGroupClusterAccess", "grantGroupClusterAccess",
    "revokeGroupClusterAccess", "listClusterGroupAllowedApplications",
    "allowGroupUseOfApplication", "denyGroupUseOfApplication",
    "getClusterMonitoringCredential", "removeClusterMonitoringCredential",
    "listMonitoringCredentials", "addMonitoringCredential",
    "revokeMonitoringCredential", "deleteMonitoringCredential", "listGroups",
    "createGroup", "getGroupInfo", "updateGroup", "deleteGroup", "listGroupMembers",
    "listGroupClusters", "listApplications", "fetchApplicationConfig",
    "fetchApplicationDocumentation", "fetchApplicationVersions",
    "installAdHocApplication", "installApplication", "updateCatalog",
    "listApplicationInstances", "fetchApplicationInstanceInfo",
    "deleteApplicationInstance", "restartApplicationInstance",
    "getApplicationInstanceLogs", "getApplicationInstanceScale",
    "scaleApplicationInstance", "updateApplicationInstance", "listSecrets",
    "createSecret", "getSecret", "deleteSecret", "getStatistics", "listVolumeClaims",
    "createVolumeClaim", "fetchVolumeClaimInfo", "deleteVolumeClaim",
    "serverVersionInfo", "multiplex", "unsupported"}
BY DEF Handler

LEMMA Handlers == \A h \in DOMAIN Handler : IsGuarded(Handler[h])
<1>1. \A h \in {"listUsers", "createUser", "getUserInfo", "whoAreThey", "updateUser",
      "deleteUser", "listUsergroups", "addUserToGroup", "removeUserFromGroup",
      "findUser", "replaceUserToken"} : IsGuarded(Handler[h])
  <2>1. IsGuarded(Code!listUsers)
    BY UserHandlers DEF IsGuarded
  <2>2. IsGuarded(Code!createUser)
    BY UserHandlers DEF IsGuarded
  <2>3. IsGuarded(Code!getUserInfo)
    BY UserHandlers DEF IsGuarded
  <2>4. IsGuarded(Code!whoAreThey)
    BY UserHandlers DEF IsGuarded
  <2>5. IsGuarded(Code!updateUser)
    BY UserHandlers DEF IsGuarded
  <2>6. IsGuarded(Code!deleteUser)
    BY UserHandlers DEF IsGuarded
  <2>7. IsGuarded(Code!listUsergroups)
    BY UserHandlers DEF IsGuarded
  <2>8. IsGuarded(Code!addUserToGroup)
    BY UserHandlers DEF IsGuarded
  <2>9. IsGuarded(Code!removeUserFromGroup)
    BY UserHandlers DEF IsGuarded
  <2>10. IsGuarded(Code!findUser)
    BY UserHandlers DEF IsGuarded
  <2>11. IsGuarded(Code!replaceUserToken)
    BY UserHandlers DEF IsGuarded
  <2> QED BY <2>1, <2>2, <2>3, <2>4, <2>5, <2>6, <2>7, <2>8, <2>9, <2>10,
             <2>11 DEF Handler
<1>2. \A h \in {"listGroups", "createGroup", "getGroupInfo", "updateGroup",
      "deleteGroup", "listGroupMembers", "listGroupClusters"} : IsGuarded(Handler[h])
  <2>1. IsGuarded(Code!listGroups)
    BY GroupHandlers DEF IsGuarded
  <2>2. IsGuarded(Code!createGroup)
    BY GroupHandlers DEF IsGuarded
  <2>3. IsGuarded(Code!getGroupInfo)
    BY GroupHandlers DEF IsGuarded
  <2>4. IsGuarded(Code!updateGroup)
    BY GroupHandlers DEF IsGuarded
  <2>5. IsGuarded(Code!deleteGroup)
    BY GroupHandlers DEF IsGuarded
  <2>6. IsGuarded(Code!listGroupMembers)
    BY GroupHandlers DEF IsGuarded
  <2>7. IsGuarded(Code!listGroupClusters)
    BY GroupHandlers DEF IsGuarded
  <2> QED BY <2>1, <2>2, <2>3, <2>4, <2>5, <2>6, <2>7 DEF Handler
<1>3. \A h \in {"listMonitoringCredentials", "addMonitoringCredential",
      "revokeMonitoringCredential", "deleteMonitoringCredential",
      "getClusterMonitoringCredential",
      "removeClusterMonitoringCredential"} : IsGuarded(Handler[h])
  <2>1. IsGuarded(Code!listMonitoringCredentials)
    BY CredentialHandlers DEF IsGuarded
  <2>2. IsGuarded(Code!addMonitoringCredential)
    BY CredentialHandlers DEF IsGuarded
  <2>3. IsGuarded(Code!revokeMonitoringCredential)
    BY CredentialHandlers DEF IsGuarded
  <2>4. IsGuarded(Code!deleteMonitoringCredential)
    BY CredentialHandlers DEF IsGuarded
  <2>5. IsGuarded(Code!getClusterMonitoringCredential)
    BY CredentialHandlers DEF IsGuarded
  <2>6. IsGuarded(Code!removeClusterMonitoringCredential)
    BY CredentialHandlers DEF IsGuarded
  <2> QED BY <2>1, <2>2, <2>3, <2>4, <2>5, <2>6 DEF Handler
<1>4. \A h \in {"listClusters", "createCluster", "getClusterInfo", "deleteCluster",
      "updateCluster", "pingCluster", "verifyCluster"} : IsGuarded(Handler[h])
  <2>1. IsGuarded(Code!listClusters)
    BY ClusterHandlers DEF IsGuarded
  <2>2. IsGuarded(Code!createCluster)
    BY ClusterHandlers DEF IsGuarded
  <2>3. IsGuarded(Code!getClusterInfo)
    BY ClusterHandlers DEF IsGuarded
  <2>4. IsGuarded(Code!deleteCluster)
    BY ClusterHandlers DEF IsGuarded
  <2>5. IsGuarded(Code!updateCluster)
    BY ClusterHandlers DEF IsGuarded
  <2>6. IsGuarded(Code!pingCluster)
    BY ClusterHandlers DEF IsGuarded
  <2>7. IsGuarded(Code!verifyCluster)
    BY ClusterHandlers DEF IsGuarded
  <2> QED BY <2>1, <2>2, <2>3, <2>4, <2>5, <2>6, <2>7 DEF Handler
<1>5. \A h \in {"listClusterAllowedgroups", "checkGroupClusterAccess",
      "grantGroupClusterAccess", "revokeGroupClusterAccess",
      "listClusterGroupAllowedApplications", "allowGroupUseOfApplication",
      "denyGroupUseOfApplication"} : IsGuarded(Handler[h])
  <2>1. IsGuarded(Code!listClusterAllowedgroups)
    BY AccessHandlers DEF IsGuarded
  <2>2. IsGuarded(Code!checkGroupClusterAccess)
    BY AccessHandlers DEF IsGuarded
  <2>3. IsGuarded(Code!grantGroupClusterAccess)
    BY AccessHandlers DEF IsGuarded
  <2>4. IsGuarded(Code!revokeGroupClusterAccess)
    BY AccessHandlers DEF IsGuarded
  <2>5. IsGuarded(Code!listClusterGroupAllowedApplications)
    BY AccessHandlers DEF IsGuarded
  <2>6. IsGuarded(Code!allowGroupUseOfApplication)
    BY AccessHandlers DEF IsGuarded
  <2>7. IsGuarded(Code!denyGroupUseOfApplication)
    BY AccessHandlers DEF IsGuarded
  <2> QED BY <2>1, <2>2, <2>3, <2>4, <2>5, <2>6, <2>7 DEF Handler
<1>6. \A h \in {"listApplications", "fetchApplicationConfig",
      "fetchApplicationVersions", "fetchApplicationDocumentation",
      "installApplication", "installAdHocApplication",
      "updateCatalog"} : IsGuarded(Handler[h])
  <2>1. IsGuarded(Code!listApplications)
    BY ApplicationHandlers DEF IsGuarded
  <2>2. IsGuarded(Code!fetchApplicationConfig)
    BY ApplicationHandlers DEF IsGuarded
  <2>3. IsGuarded(Code!fetchApplicationVersions)
    BY ApplicationHandlers DEF IsGuarded
  <2>4. IsGuarded(Code!fetchApplicationDocumentation)
    BY ApplicationHandlers DEF IsGuarded
  <2>5. IsGuarded(Code!installApplication)
    BY ApplicationHandlers DEF IsGuarded
  <2>6. IsGuarded(Code!installAdHocApplication)
    BY ApplicationHandlers DEF IsGuarded
  <2>7. IsGuarded(Code!updateCatalog)
    BY ApplicationHandlers DEF IsGuarded
  <2> QED BY <2>1, <2>2, <2>3, <2>4, <2>5, <2>6, <2>7 DEF Handler
<1>7. \A h \in {"listApplicationInstances", "fetchApplicationInstanceInfo",
      "deleteApplicationInstance", "updateApplicationInstance",
      "restartApplicationInstance", "getApplicationInstanceScale",
      "scaleApplicationInstance", "getApplicationInstanceLogs"} : IsGuarded(Handler[h])
  <2>1. IsGuarded(Code!listApplicationInstances)
    BY InstanceHandlers DEF IsGuarded
  <2>2. IsGuarded(Code!fetchApplicationInstanceInfo)
    BY InstanceHandlers DEF IsGuarded
  <2>3. IsGuarded(Code!deleteApplicationInstance)
    BY InstanceHandlers DEF IsGuarded
  <2>4. IsGuarded(Code!updateApplicationInstance)
    BY InstanceHandlers DEF IsGuarded
  <2>5. IsGuarded(Code!restartApplicationInstance)
    BY InstanceHandlers DEF IsGuarded
  <2>6. IsGuarded(Code!getApplicationInstanceScale)
    BY InstanceHandlers DEF IsGuarded
  <2>7. IsGuarded(Code!scaleApplicationInstance)
    BY InstanceHandlers DEF IsGuarded
  <2>8. IsGuarded(Code!getApplicationInstanceLogs)
    BY InstanceHandlers DEF IsGuarded
  <2> QED BY <2>1, <2>2, <2>3, <2>4, <2>5, <2>6, <2>7, <2>8 DEF Handler
<1>8. \A h \in {"listSecrets", "createSecret", "deleteSecret",
      "getSecret"} : IsGuarded(Handler[h])
  <2>1. IsGuarded(Code!listSecrets)
    BY SecretHandlers DEF IsGuarded
  <2>2. IsGuarded(Code!createSecret)
    BY SecretHandlers DEF IsGuarded
  <2>3. IsGuarded(Code!deleteSecret)
    BY SecretHandlers DEF IsGuarded
  <2>4. IsGuarded(Code!getSecret)
    BY SecretHandlers DEF IsGuarded
  <2> QED BY <2>1, <2>2, <2>3, <2>4 DEF Handler
<1>9. \A h \in {"listVolumeClaims", "fetchVolumeClaimInfo", "createVolumeClaim",
      "deleteVolumeClaim"} : IsGuarded(Handler[h])
  <2>1. IsGuarded(Code!listVolumeClaims)
    BY VolumeHandlers DEF IsGuarded
  <2>2. IsGuarded(Code!fetchVolumeClaimInfo)
    BY VolumeHandlers DEF IsGuarded
  <2>3. IsGuarded(Code!createVolumeClaim)
    BY VolumeHandlers DEF IsGuarded
  <2>4. IsGuarded(Code!deleteVolumeClaim)
    BY VolumeHandlers DEF IsGuarded
  <2> QED BY <2>1, <2>2, <2>3, <2>4 DEF Handler
<1>10. \A h \in {"multiplex", "getStatistics", "serverVersionInfo",
      "unsupported"} : IsGuarded(Handler[h])
  <2>1. IsGuarded(Code!multiplex)
    BY OtherHandlers DEF IsGuarded
  <2>2. IsGuarded(Code!getStatistics)
    BY OtherHandlers DEF IsGuarded
  <2>3. IsGuarded(Code!serverVersionInfo)
    BY OtherHandlers DEF IsGuarded
  <2>4. IsGuarded(Code!unsupported)
    BY OtherHandlers DEF IsGuarded
  <2> QED BY <2>1, <2>2, <2>3, <2>4 DEF Handler
<1> QED BY <1>1, <1>2, <1>3, <1>4, <1>5, <1>6, <1>7, <1>8, <1>9, <1>10, NamesOfHandlers


-----------------------------------------------------------------------------
(* A request under way.  The handler has come as far as step at: whatever  *)
(* it asked before that was granted, what is changed was changed by one of *)
(* these steps, its plain changes are all made unless it was stopped, and  *)
(* it is stopped by a step that was not granted.                           *)
Granted(step1, answers) == \E fact \in step1.facts : fact \in DOMAIN answers /\ answers[fact]

HandledTo(s, at, answers, changed, code) ==
  /\ at \in 1..(Len(s) + 1)
  /\ \A i \in 1..Len(s) : i < at /\ s[i].kind = "need" => Granted(s[i], answers)
  /\ \A effect \in changed :
       \E i \in 1..Len(s) : /\ i <= at /\ (code = 0 => i < at)
                            /\ s[i].kind # "need" /\ s[i].effect = effect
  /\ code # 0 => \/ code = 200 /\ at = Len(s) + 1
                 \/ /\ at \in 1..Len(s) /\ s[at].kind # "try" /\ code = s[at].code
                    /\ ~Granted(s[at], answers)
  /\ code = 0 \/ at = Len(s) + 1 =>
       \A i \in 1..Len(s) : i < at /\ s[i].kind = "do" /\ s[i].facts = {} => s[i].effect \in changed

ServerInv ==
  /\ endpoint \in DOMAIN Handler \cup {NoHandler}
  /\ known \in [DOMAIN known -> BOOLEAN]
  /\ endpoint = NoHandler => done = {}
  /\ endpoint # NoHandler => HandledTo(Handler[endpoint], step, known, done, status)

(* A fact that was asked for keeps its answer.                             *)
LEMMA AnswersKept ==
  ASSUME NEW answers \in Answers, known \in [DOMAIN known -> BOOLEAN]
  PROVE  /\ answers \in [DOMAIN answers -> BOOLEAN]
         /\ DOMAIN answers = DOMAIN known \cup Now.facts
         /\ \A fact \in DOMAIN known : answers[fact] = known[fact]
         /\ \A step1 : Granted(step1, known) => Granted(step1, answers)
         /\ Holds(answers) <=> Granted(Now, answers)
<1>1. PICK new \in [Now.facts \ DOMAIN known -> BOOLEAN] :
        answers = [f \in DOMAIN known \cup Now.facts |-> IF f \in DOMAIN known THEN known[f] ELSE new[f]]
  BY DEF Answers
<1> HIDE DEF Now
<1>2. /\ DOMAIN answers = DOMAIN known \cup Now.facts
      /\ \A fact \in DOMAIN known : answers[fact] = known[fact]
      /\ \A fact \in DOMAIN answers : answers[fact] \in BOOLEAN
  BY <1>1
<1>3. answers \in [DOMAIN answers -> BOOLEAN]
  BY <1>1, <1>2
<1> QED BY <1>2, <1>3 DEF Granted, Holds

(* One step further, unless it is stopped here.                            *)
LEMMA GoneOn ==
  ASSUME NEW s, NEW at, NEW answers, NEW changed, NEW answers1, NEW changed1,
         IsPiece(s), HandledTo(s, at, answers, changed, 0), at <= Len(s),
         \A step1 : Granted(step1, answers) => Granted(step1, answers1),
         s[at].kind = "need" => Granted(s[at], answers1) /\ changed1 = changed,
         changed \subseteq changed1, changed1 \subseteq changed \cup {s[at].effect},
         s[at].kind = "do" /\ s[at].facts = {} => s[at].effect \in changed1
  PROVE  HandledTo(s, at + 1, answers1, changed1, 0)
<1>1. Len(s) \in Nat /\ at \in 1..Len(s)
  BY DEF IsPiece, HandledTo
<1>2. ASSUME NEW i \in 1..Len(s), i < at + 1, s[i].kind = "need" PROVE Granted(s[i], answers1)
  <2>1. CASE i = at
    BY <1>2, <2>1
  <2>2. CASE i # at
    BY <1>1, <1>2, <2>2 DEF HandledTo
  <2> QED BY <2>1, <2>2
<1>3. ASSUME NEW effect \in changed1
      PROVE  \E i \in 1..Len(s) : /\ i <= at + 1 /\ (0 = 0 => i < at + 1)
                                  /\ s[i].kind # "need" /\ s[i].effect = effect
  <2>1. CASE effect \in changed
    BY <1>1, <2>1 DEF HandledTo
  <2>2. CASE effect \notin changed
    BY <1>1, <1>3, <2>2
  <2> QED BY <2>1, <2>2
<1>4. ASSUME NEW i \in 1..Len(s), i < at + 1, s[i].kind = "do", s[i].facts = {}
      PROVE  s[i].effect \in changed1
  <2>1. CASE i = at
    BY <1>4, <2>1
  <2>2. CASE i # at
    BY <1>1, <1>4, <2>2 DEF HandledTo
  <2> QED BY <2>1, <2>2
<1>5. at + 1 \in 1..(Len(s) + 1)
  BY <1>1
<1> QED BY <1>2, <1>3, <1>4, <1>5 DEF HandledTo

LEMMA StoppedHere ==
  ASSUME NEW s, NEW at, NEW answers, NEW changed, NEW answers1, NEW changed1,
         IsPiece(s), HandledTo(s, at, answers, changed, 0), at <= Len(s),
         \A step1 : Granted(step1, answers) => Granted(step1, answers1),
         s[at].kind # "try", s[at].code # 0, ~Granted(s[at], answers1),
         changed1 \subseteq changed \cup {s[at].effect}, s[at].kind = "need"
             => changed1 \subseteq changed
  PROVE  HandledTo(s, at, answers1, changed1, s[at].code)
<1>1. Len(s) \in Nat /\ at \in 1..Len(s)
  BY DEF IsPiece, HandledTo
<1>2. ASSUME NEW i \in 1..Len(s), i < at, s[i].kind = "need" PROVE Granted(s[i], answers1)
  BY <1>1, <1>2 DEF HandledTo
<1>3. ASSUME NEW effect \in changed1
      PROVE  \E i \in 1..Len(s) : i <= at /\ s[i].kind # "need" /\ s[i].effect = effect
  <2>1. CASE effect \in changed
    BY <1>1, <2>1 DEF HandledTo
  <2>2. CASE effect \notin changed
    BY <1>1, <1>3, <2>2
  <2> QED BY <2>1, <2>2
<1> QED BY <1>1, <1>2, <1>3 DEF HandledTo

LEMMA ServerStep == ASSUME ServerInv, ServerNext PROVE ServerInv'
<1> DEFINE s == Handler[endpoint]
<1>1. Running
  BY DEF ServerNext, askQuestions, makeChange, failChange, tryChange, succeed, AtStep
<1>2. /\ endpoint \in DOMAIN Handler /\ HandledTo(s, step, known, done, 0)
      /\ known \in [DOMAIN known -> BOOLEAN] /\ status = 0
  BY <1>1 DEF ServerInv, Running
<1>3. IsGuarded(s)
  BY <1>2, Handlers
<1> HIDE DEF s
<1>4. /\ IsPiece(s) /\ Len(s) \in Nat /\ step \in 1..(Len(s) + 1)
      /\ step <= Len(s) => step \in 1..Len(s)
  BY <1>3, <1>2 DEF IsGuarded, Guarded, IsPiece, HandledTo
<1>5. ASSUME step <= Len(s), s[step].kind # "try" PROVE s[step].code # 0
  <2>1. \A i \in 1..Len(s) : s[i].kind # "try" => s[i].code \in 200..599
    BY <1>3, Codes DEF IsGuarded
  <2>2. step \in 1..Len(s)
    BY <1>4, <1>5
  <2>3. s[step].code \in 200..599
    BY <1>5, <2>1, <2>2
  <2> QED BY <2>3
<1>6. endpoint' = endpoint
  BY DEF ServerNext, askQuestions, makeChange, failChange, tryChange, succeed
<1> SUFFICES known' \in [DOMAIN known' -> BOOLEAN] /\ HandledTo(s, step', known', done', status')
  BY <1>2, <1>6, NamesOfHandlers DEF ServerInv, NoHandler, s
<1>7. CASE askQuestions
  <2>1. step <= Len(s) /\ s[step].kind = "need" /\ Now = s[step] /\ known' \in Answers
    BY <1>7 DEF askQuestions, AtStep, Now, s
  <2>2. /\ known' \in [DOMAIN known' -> BOOLEAN]
        /\ Holds(known') <=> Granted(s[step], known')
        /\ \A step1 : Granted(step1, known) => Granted(step1, known')
    BY <1>2, <2>1, AnswersKept
  <2>3. CASE Holds(known')
    <3>1. step' = step + 1 /\ status' = 0 /\ done' = done
      BY <1>7, <2>3 DEF askQuestions, proceed
    <3> QED BY <1>2, <1>4, <2>1, <2>2, <2>3, <3>1, GoneOn
  <2>4. CASE ~Holds(known')
    <3>1. step' = step /\ status' = s[step].code /\ done' \subseteq done
      BY <1>7, <2>1, <2>4 DEF askQuestions, answer
    <3>2. s[step].code # 0
      BY <1>5, <2>1
    <3> QED BY <1>2, <1>4, <2>1, <2>2, <2>4, <3>1, <3>2, StoppedHere
  <2> QED BY <2>3, <2>4
<1>8. CASE makeChange
  <2>1. /\ step <= Len(s) /\ s[step].kind = "do" /\ known' = known
        /\ step' = step + 1 /\ status' = 0 /\ done' = done \cup {s[step].effect}
    BY <1>8 DEF makeChange, AtStep, Now, proceed, s
  <2> QED BY <1>2, <1>4, <2>1, GoneOn
<1>9. CASE failChange
  <2>1. step <= Len(s) /\ s[step].kind = "do" /\ Now = s[step] /\ known' \in Answers
    BY <1>9 DEF failChange, AtStep, Now, s
  <2>2. /\ known' \in [DOMAIN known' -> BOOLEAN]
        /\ Holds(known') <=> Granted(s[step], known')
        /\ \A step1 : Granted(step1, known) => Granted(step1, known')
    BY <1>2, <2>1, AnswersKept
  <2>3. CASE Holds(known')
    <3>1. /\ step' = step + 1 /\ status' = 0 /\ done \subseteq done'
          /\ done' \subseteq done \cup {s[step].effect}
      BY <1>9, <2>1, <2>3 DEF failChange, proceed
    <3>2. s[step].facts # {}
      BY <2>2, <2>3 DEF Granted
    <3> QED BY <1>2, <1>4, <2>1, <2>2, <3>1, <3>2, GoneOn
  <2>4. CASE ~Holds(known')
    <3>1. /\ step' = step /\ status' = s[step].code
          /\ done' \subseteq done \cup {s[step].effect}
      BY <1>9, <2>1, <2>4 DEF failChange, answer
    <3>2. s[step].code # 0
      BY <1>5, <2>1
    <3> QED BY <1>2, <1>4, <2>1, <2>2, <2>4, <3>1, <3>2, StoppedHere
  <2> QED BY <2>3, <2>4
<1>10. CASE tryChange
  <2>1. /\ step <= Len(s) /\ s[step].kind = "try" /\ known' = known
        /\ step' = step + 1 /\ status' = 0 /\ done \subseteq done'
        /\ done' \subseteq done \cup {s[step].effect}
    BY <1>10 DEF tryChange, AtStep, Now, proceed, s
  <2> QED BY <1>2, <1>4, <2>1, GoneOn
<1>11. CASE succeed
  <2>1. /\ step > Len(s) /\ known' = known /\ done' = done /\ step' = step /\ status' = 200
    BY <1>11 DEF succeed, answer, s
  <2>2. step = Len(s) + 1
    BY <1>4, <2>1
  <2> QED BY <1>2, <1>4, <2>1, <2>2 DEF HandledTo
<1> QED BY <1>7, <1>8, <1>9, <1>10, <1>11 DEF ServerNext

(* The server takes the first of the routes that match.                    *)
LEMMA Least == ASSUME NEW S \in SUBSET Nat, S # {} PROVE Min(S) \in S
<1>1. PICK m \in S : \A n \in S : m <= n
  <2>1. PICK first \in S : \A n \in S : ~(<<n, first>> \in OpToRel(<, Nat))
    BY NatLessThanWellFounded, WFMin
  <2>2. \A n \in S : ~(n < first)
    BY <2>1, Zenon DEF OpToRel
  <2> QED BY <2>2
<1> QED BY <1>1 DEF Min

RoutesAreOf(routes, handlers) ==
  IsPiece(routes) /\ \A i \in 1..Len(routes) : routes[i].handler \in handlers

LEMMA RoutesJoined ==
  ASSUME NEW s, NEW t, NEW handlers, RoutesAreOf(s, handlers), RoutesAreOf(t, handlers)
  PROVE  RoutesAreOf(s \o t, handlers)
<1>1. IsPiece(s) /\ IsPiece(t)
  BY DEF RoutesAreOf
<1>2. ASSUME NEW i \in 1..Len(s \o t) PROVE (s \o t)[i].handler \in handlers
  <2>1. CASE i <= Len(s)
    BY <1>1, <2>1, Joined DEF RoutesAreOf
  <2>2. CASE ~(i <= Len(s))
    <3>1. i - Len(s) \in 1..Len(t) /\ (s \o t)[i] = t[i - Len(s)]
      BY <1>1, <2>2, Joined
    <3> QED BY <3>1 DEF RoutesAreOf
  <2> QED BY <2>1, <2>2
<1> QED BY <1>1, <1>2, Joined DEF RoutesAreOf

LEMMA RoutesLead == RoutesAreOf(Routes, DOMAIN Handler)
<1>1. RoutesAreOf(userRoutes, DOMAIN Handler)
  BY NamesOfHandlers DEF RoutesAreOf, IsPiece, userRoutes, Route
<1>2. RoutesAreOf(clusterRoutes, DOMAIN Handler)
  BY NamesOfHandlers DEF RoutesAreOf, IsPiece, clusterRoutes, Route
<1>3. RoutesAreOf(credentialRoutes, DOMAIN Handler)
  BY NamesOfHandlers DEF RoutesAreOf, IsPiece, credentialRoutes, Route
<1>4. RoutesAreOf(groupRoutes, DOMAIN Handler)
  BY NamesOfHandlers DEF RoutesAreOf, IsPiece, groupRoutes, Route
<1>5. RoutesAreOf(applicationRoutes, DOMAIN Handler)
  BY NamesOfHandlers DEF RoutesAreOf, IsPiece, applicationRoutes, Route
<1>6. RoutesAreOf(instanceRoutes, DOMAIN Handler)
  BY NamesOfHandlers DEF RoutesAreOf, IsPiece, instanceRoutes, Route
<1>7. RoutesAreOf(otherRoutes, DOMAIN Handler)
  BY NamesOfHandlers DEF RoutesAreOf, IsPiece, otherRoutes, Route
<1>8. RoutesAreOf(userRoutes \o clusterRoutes \o credentialRoutes, DOMAIN Handler)
  BY <1>1, <1>2, <1>3, RoutesJoined
<1>9. RoutesAreOf(userRoutes \o clusterRoutes \o credentialRoutes \o groupRoutes
                    \o applicationRoutes, DOMAIN Handler)
  BY <1>4, <1>5, <1>8, RoutesJoined
<1> QED BY <1>6, <1>7, <1>9, RoutesJoined DEF Routes

LEMMA Dispatched ==
  ASSUME NEW method, NEW path, Found(method, path) # {}
  PROVE  \E i \in 1..Len(Routes) : /\ Matches(Routes[i], method, path)
                                   /\ Dispatch(method, path) = Routes[i].handler
                                   /\ Routes[i].handler \in DOMAIN Handler
<1>1. DOMAIN Routes = 1..Len(Routes) /\ Len(Routes) \in Nat
  BY RoutesLead DEF RoutesAreOf, IsPiece
<1>2. Found(method, path) \in SUBSET Nat
  BY <1>1 DEF Found
<1>3. Min(Found(method, path)) \in Found(method, path)
  BY <1>2, Least
<1> QED BY <1>1, <1>3, RoutesLead DEF Found, Dispatch, RoutesAreOf

LEMMA Accepted ==
  ASSUME NEW method, NEW path, NEW given, accept(method, path, given) PROVE ServerInv'
<1>1. known' \in [DOMAIN known' -> BOOLEAN]
  BY DEF accept
<1>2. CASE Found(method, path) = {}
  BY <1>1, <1>2, NamesOfHandlers DEF accept, ServerInv, NoHandler
<1>3. CASE Found(method, path) # {}
  <2>1. /\ endpoint' \in DOMAIN Handler /\ status' = 0 /\ step' = 1 /\ done' = {}
    BY <1>3, Dispatched DEF accept
  <2>2. Len(Handler[endpoint']) \in Nat
    BY <2>1, Handlers DEF IsGuarded, Guarded, IsPiece
  <2>3. HandledTo(Handler[endpoint'], step', known', done', status')
    BY <2>1, <2>2 DEF HandledTo
  <2> QED BY <1>1, <2>1, <2>3, NamesOfHandlers DEF ServerInv, NoHandler
<1> QED BY <1>2, <1>3

(* Whatever has been done, its handler has been granted what it asks first. *)
OnlyIfGranted(needs, effects) ==
  \A effect \in done : /\ effect \in effects
                        /\ \A needed \in needs : \E fact \in needed : Admitted(fact)

LEMMA Authorized ==
  ASSUME ServerInv, endpoint # NoHandler, NEW needs, NEW effects,
         Guarded(Handler[endpoint], needs, effects)
  PROVE  OnlyIfGranted(needs, effects) /\ RefusedUnchanged
<1> SUFFICES ASSUME NEW effect \in done
             PROVE  /\ effect \in effects /\ status \notin 400..499
                    /\ \A needed \in needs : \E fact \in needed : Admitted(fact)
  BY DEF OnlyIfGranted, RefusedUnchanged
<1> DEFINE s == Handler[endpoint]
<1>1. HandledTo(s, step, known, done, status)
  BY DEF ServerInv
<1>2. PICK n \in 0..Len(s) : GuardedBy(s, n, needs, effects)
  BY DEF Guarded
<1>3. Len(s) \in Nat /\ step \in 1..(Len(s) + 1)
  BY <1>1 DEF Guarded, IsPiece, HandledTo
<1> HIDE DEF s
<1>4. PICK i \in 1..Len(s) : i <= step /\ s[i].kind # "need" /\ s[i].effect = effect
  BY <1>1 DEF HandledTo
<1>5. i \in (n + 1)..Len(s)
  BY <1>2, <1>3, <1>4 DEF GuardedBy, AsksFirst, Question
<1>6. effect \in effects
  BY <1>2, <1>4, <1>5 DEF GuardedBy, ActsFrom, Change
<1>7. ASSUME NEW needed \in needs PROVE \E fact \in needed : Admitted(fact)
  <2>1. PICK j \in 1..n : s[j].facts = needed
    BY <1>2 DEF GuardedBy, AsksFirst, Required
  <2>2. j \in 1..Len(s) /\ j < step /\ s[j].kind = "need"
    BY <1>2, <1>3, <1>4, <1>5, <2>1 DEF GuardedBy, AsksFirst, Question
  <2> QED BY <1>1, <2>1, <2>2 DEF HandledTo, Granted, Admitted
<1>8. status \notin 400..499
  <2> SUFFICES ASSUME status \in 400..499 PROVE FALSE
    OBVIOUS
  <2>1. step \in 1..Len(s) /\ s[step].kind # "try" /\ status = s[step].code
    BY <1>1 DEF HandledTo
  <2>2. step \in (n + 1)..Len(s)
    BY <1>3, <1>4, <1>5, <2>1
  <2>3. status \in {200} \cup 500..599
    BY <1>2, <2>1, <2>2 DEF GuardedBy, ActsFrom, Change
  <2>4. status # 200 /\ status \notin 500..599
    OBVIOUS
  <2> QED BY <2>3, <2>4
<1> QED BY <1>6, <1>7, <1>8

LEMMA UserChanges ==
  ASSUME ServerInv, endpoint \in {"listUsers", "createUser", "getUserInfo",
           "whoAreThey", "updateUser", "deleteUser", "listUsergroups",
           "addUserToGroup", "removeUserFromGroup", "findUser", "replaceUserToken"}
  PROVE  EffectsAuthorized
<1>1. endpoint # NoHandler
  BY DEF NoHandler
<1>2. CASE endpoint \in {"listUsers", "getUserInfo", "whoAreThey", "listUsergroups",
      "findUser"}
  <2>1. Guarded(Handler[endpoint], {}, {})
    BY <1>2, UserHandlers DEF Handler
  <2>2. OnlyIfGranted({}, {})
    BY <1>1, <2>1, Authorized
  <2> QED BY <2>2 DEF OnlyIfGranted, EffectsAuthorized
<1>3. CASE endpoint = "createUser"
  <2>1. Guarded(Handler[endpoint], {{"user"}, {"admin"}}, {"users"})
    BY <1>3, UserHandlers DEF Handler
  <2>2. OnlyIfGranted({{"user"}, {"admin"}}, {"users"})
    BY <1>1, <2>1, Authorized
  <2>3. ASSUME NEW effect \in done PROVE Admitted("user") /\ Entitled(effect)
    <3>1. effect \in {"users"} /\ Admitted("user") /\ Admitted("admin")
      BY <2>2 DEF OnlyIfGranted
    <3> QED BY <1>3, <3>1 DEF Entitled
  <2> QED BY <2>3 DEF EffectsAuthorized
<1>4. CASE endpoint = "updateUser"
  <2>1. Guarded(Handler[endpoint], {{"user"}, {"admin", "self"}}, {"users"})
    BY <1>4, UserHandlers DEF Handler
  <2>2. OnlyIfGranted({{"user"}, {"admin", "self"}}, {"users"})
    BY <1>1, <2>1, Authorized
  <2>3. ASSUME NEW effect \in done PROVE Admitted("user") /\ Entitled(effect)
    <3>1. /\ effect \in {"users"}
          /\ Admitted("user")
          /\ (Admitted("admin") \/ Admitted("self"))
      BY <2>2 DEF OnlyIfGranted
    <3> QED BY <1>4, <3>1 DEF Entitled
  <2> QED BY <2>3 DEF EffectsAuthorized
<1>5. CASE endpoint = "deleteUser"
  <2>1. Guarded(Handler[endpoint], {{"user"}, {"admin", "self"}},
          {"memberships", "users", "email"})
    BY <1>5, UserHandlers DEF Handler
  <2>2. OnlyIfGranted({{"user"}, {"admin", "self"}}, {"memberships", "users", "email"})
    BY <1>1, <2>1, Authorized
  <2>3. ASSUME NEW effect \in done PROVE Admitted("user") /\ Entitled(effect)
    <3>1. /\ effect \in {"memberships", "users", "email"}
          /\ Admitted("user")
          /\ (Admitted("admin") \/ Admitted("self"))
      BY <2>2 DEF OnlyIfGranted
    <3> QED BY <1>5, <3>1 DEF Entitled
  <2> QED BY <2>3 DEF EffectsAuthorized
<1>6. CASE endpoint = "addUserToGroup"
  <2>1. Guarded(Handler[endpoint], {{"user"}, {"admin", "member"}}, {"memberships"})
    BY <1>6, UserHandlers DEF Handler
  <2>2. OnlyIfGranted({{"user"}, {"admin", "member"}}, {"memberships"})
    BY <1>1, <2>1, Authorized
  <2>3. ASSUME NEW effect \in done PROVE Admitted("user") /\ Entitled(effect)
    <3>1. /\ effect \in {"memberships"}
          /\ Admitted("user")
          /\ (Admitted("admin") \/ Admitted("member"))
      BY <2>2 DEF OnlyIfGranted
    <3> QED BY <1>6, <3>1 DEF Entitled
  <2> QED BY <2>3 DEF EffectsAuthorized
<1>7. CASE endpoint = "removeUserFromGroup"
  <2>1. Guarded(Handler[endpoint], {{"user"}, {"admin", "member"}}, {"memberships"})
    BY <1>7, UserHandlers DEF Handler
  <2>2. OnlyIfGranted({{"user"}, {"admin", "member"}}, {"memberships"})
    BY <1>1, <2>1, Authorized
  <2>3. ASSUME NEW effect \in done PROVE Admitted("user") /\ Entitled(effect)
    <3>1. /\ effect \in {"memberships"}
          /\ Admitted("user")
          /\ (Admitted("admin") \/ Admitted("member"))
      BY <2>2 DEF OnlyIfGranted
    <3> QED BY <1>7, <3>1 DEF Entitled
  <2> QED BY <2>3 DEF EffectsAuthorized
<1>8. CASE endpoint = "replaceUserToken"
  <2>1. Guarded(Handler[endpoint], {{"user"}, {"admin", "self"}}, {"users", "email"})
    BY <1>8, UserHandlers DEF Handler
  <2>2. OnlyIfGranted({{"user"}, {"admin", "self"}}, {"users", "email"})
    BY <1>1, <2>1, Authorized
  <2>3. ASSUME NEW effect \in done PROVE Admitted("user") /\ Entitled(effect)
    <3>1. /\ effect \in {"users", "email"}
          /\ Admitted("user")
          /\ (Admitted("admin") \/ Admitted("self"))
      BY <2>2 DEF OnlyIfGranted
    <3> QED BY <1>8, <3>1 DEF Entitled
  <2> QED BY <2>3 DEF EffectsAuthorized
<1> QED BY <1>1, <1>2, <1>3, <1>4, <1>5, <1>6, <1>7, <1>8

LEMMA GroupChanges ==
  ASSUME ServerInv, endpoint \in {"listGroups", "createGroup", "getGroupInfo",
           "updateGroup", "deleteGroup", "listGroupMembers", "listGroupClusters"}
  PROVE  EffectsAuthorized
<1>1. endpoint # NoHandler
  BY DEF NoHandler
<1>2. CASE endpoint \in {"listGroups", "getGroupInfo", "listGroupMembers",
      "listGroupClusters"}
  <2>1. Guarded(Handler[endpoint], {}, {})
    BY <1>2, GroupHandlers DEF Handler
  <2>2. OnlyIfGranted({}, {})
    BY <1>1, <2>1, Authorized
  <2> QED BY <2>2 DEF OnlyIfGranted, EffectsAuthorized
<1>3. CASE endpoint = "createGroup"
  <2>1. Guarded(Handler[endpoint], {{"user"}}, {"groups", "memberships"})
    BY <1>3, GroupHandlers DEF Handler
  <2>2. OnlyIfGranted({{"user"}}, {"groups", "memberships"})
    BY <1>1, <2>1, Authorized
  <2>3. ASSUME NEW effect \in done PROVE Admitted("user") /\ Entitled(effect)
    <3>1. effect \in {"groups", "memberships"} /\ Admitted("user")
      BY <2>2 DEF OnlyIfGranted
    <3> QED BY <1>3, <3>1 DEF Entitled
  <2> QED BY <2>3 DEF EffectsAuthorized
<1>4. CASE endpoint = "updateGroup"
  <2>1. Guarded(Handler[endpoint], {{"user"}, {"admin", "member"}}, {"groups"})
    BY <1>4, GroupHandlers DEF Handler
  <2>2. OnlyIfGranted({{"user"}, {"admin", "member"}}, {"groups"})
    BY <1>1, <2>1, Authorized
  <2>3. ASSUME NEW effect \in done PROVE Admitted("user") /\ Entitled(effect)
    <3>1. /\ effect \in {"groups"}
          /\ Admitted("user")
          /\ (Admitted("admin") \/ Admitted("member"))
      BY <2>2 DEF OnlyIfGranted
    <3> QED BY <1>4, <3>1 DEF Entitled
  <2> QED BY <2>3 DEF EffectsAuthorized
<1>5. CASE endpoint = "deleteGroup"
  <2>1. Guarded(Handler[endpoint], {{"user"}, {"admin", "member"}},
          {"groups", "instances", "secrets", "objects", "clusters"})
    BY <1>5, GroupHandlers DEF Handler
  <2>2. OnlyIfGranted({{"user"}, {"admin", "member"}},
          {"groups", "instances", "secrets", "objects", "clusters"})
    BY <1>1, <2>1, Authorized
  <2>3. ASSUME NEW effect \in done PROVE Admitted("user") /\ Entitled(effect)
    <3>1. /\ effect \in {"groups", "instances", "secrets", "objects", "clusters"}
          /\ Admitted("user")
          /\ (Admitted("admin") \/ Admitted("member"))
      BY <2>2 DEF OnlyIfGranted
    <3> QED BY <1>5, <3>1 DEF Entitled
  <2> QED BY <2>3 DEF EffectsAuthorized
<1> QED BY <1>1, <1>2, <1>3, <1>4, <1>5

LEMMA CredentialChanges ==
  ASSUME ServerInv, endpoint \in {"listMonitoringCredentials",
           "addMonitoringCredential", "revokeMonitoringCredential",
           "deleteMonitoringCredential", "getClusterMonitoringCredential",
           "removeClusterMonitoringCredential"}
  PROVE  EffectsAuthorized
<1>1. endpoint # NoHandler
  BY DEF NoHandler
<1>2. CASE endpoint \in {"listMonitoringCredentials"}
  <2>1. Guarded(Handler[endpoint], {}, {})
    BY <1>2, CredentialHandlers DEF Handler
  <2>2. OnlyIfGranted({}, {})
    BY <1>1, <2>1, Authorized
  <2> QED BY <2>2 DEF OnlyIfGranted, EffectsAuthorized
<1>3. CASE endpoint = "addMonitoringCredential"
  <2>1. Guarded(Handler[endpoint], {{"user"}, {"admin"}}, {"credentials"})
    BY <1>3, CredentialHandlers DEF Handler
  <2>2. OnlyIfGranted({{"user"}, {"admin"}}, {"credentials"})
    BY <1>1, <2>1, Authorized
  <2>3. ASSUME NEW effect \in done PROVE Admitted("user") /\ Entitled(effect)
    <3>1. effect \in {"credentials"} /\ Admitted("user") /\ Admitted("admin")
      BY <2>2 DEF OnlyIfGranted
    <3> QED BY <1>3, <3>1 DEF Entitled
  <2> QED BY <2>3 DEF EffectsAuthorized
<1>4. CASE endpoint = "revokeMonitoringCredential"
  <2>1. Guarded(Handler[endpoint], {{"user"}, {"admin"}}, {"clusters", "credentials"})
    BY <1>4, CredentialHandlers DEF Handler
  <2>2. OnlyIfGranted({{"user"}, {"admin"}}, {"clusters", "credentials"})
    BY <1>1, <2>1, Authorized
  <2>3. ASSUME NEW effect \in done PROVE Admitted("user") /\ Entitled(effect)
    <3>1. /\ effect \in {"clusters", "credentials"}
          /\ Admitted("user")
          /\ Admitted("admin")
      BY <2>2 DEF OnlyIfGranted
    <3> QED BY <1>4, <3>1 DEF Entitled
  <2> QED BY <2>3 DEF EffectsAuthorized
<1>5. CASE endpoint = "deleteMonitoringCredential"
  <2>1. Guarded(Handler[endpoint], {{"user"}, {"admin"}}, {"credentials"})
    BY <1>5, CredentialHandlers DEF Handler
  <2>2. OnlyIfGranted({{"user"}, {"admin"}}, {"credentials"})
    BY <1>1, <2>1, Authorized
  <2>3. ASSUME NEW effect \in done PROVE Admitted("user") /\ Entitled(effect)
    <3>1. effect \in {"credentials"} /\ Admitted("user") /\ Admitted("admin")
      BY <2>2 DEF OnlyIfGranted
    <3> QED BY <1>5, <3>1 DEF Entitled
  <2> QED BY <2>3 DEF EffectsAuthorized
<1>6. CASE endpoint = "getClusterMonitoringCredential"
  <2>1. Guarded(Handler[endpoint], {{"user"}, {"admin", "hosts"}},
          {"credentials", "clusters", "email"})
    BY <1>6, CredentialHandlers DEF Handler
  <2>2. OnlyIfGranted({{"user"}, {"admin", "hosts"}},
          {"credentials", "clusters", "email"})
    BY <1>1, <2>1, Authorized
  <2>3. ASSUME NEW effect \in done PROVE Admitted("user") /\ Entitled(effect)
    <3>1. /\ effect \in {"credentials", "clusters", "email"}
          /\ Admitted("user")
          /\ (Admitted("admin") \/ Admitted("hosts"))
      BY <2>2 DEF OnlyIfGranted
    <3> QED BY <1>6, <3>1 DEF Entitled
  <2> QED BY <2>3 DEF EffectsAuthorized
<1>7. CASE endpoint = "removeClusterMonitoringCredential"
  <2>1. Guarded(Handler[endpoint], {{"user"}, {"admin", "hosts"}},
          {"clusters", "credentials"})
    BY <1>7, CredentialHandlers DEF Handler
  <2>2. OnlyIfGranted({{"user"}, {"admin", "hosts"}}, {"clusters", "credentials"})
    BY <1>1, <2>1, Authorized
  <2>3. ASSUME NEW effect \in done PROVE Admitted("user") /\ Entitled(effect)
    <3>1. /\ effect \in {"clusters", "credentials"}
          /\ Admitted("user")
          /\ (Admitted("admin") \/ Admitted("hosts"))
      BY <2>2 DEF OnlyIfGranted
    <3> QED BY <1>7, <3>1 DEF Entitled
  <2> QED BY <2>3 DEF EffectsAuthorized
<1> QED BY <1>1, <1>2, <1>3, <1>4, <1>5, <1>6, <1>7

LEMMA ClusterChanges ==
  ASSUME ServerInv, endpoint \in {"listClusters", "createCluster", "getClusterInfo",
           "deleteCluster", "updateCluster", "pingCluster", "verifyCluster"}
  PROVE  EffectsAuthorized
<1>1. endpoint # NoHandler
  BY DEF NoHandler
<1>2. CASE endpoint \in {"listClusters", "getClusterInfo", "verifyCluster"}
  <2>1. Guarded(Handler[endpoint], {}, {})
    BY <1>2, ClusterHandlers DEF Handler
  <2>2. OnlyIfGranted({}, {})
    BY <1>1, <2>1, Authorized
  <2> QED BY <2>2 DEF OnlyIfGranted, EffectsAuthorized
<1>3. CASE endpoint = "createCluster"
  <2>1. Guarded(Handler[endpoint], {{"user"}, {"member"}}, {"clusters", "dns"})
    BY <1>3, ClusterHandlers DEF Handler
  <2>2. OnlyIfGranted({{"user"}, {"member"}}, {"clusters", "dns"})
    BY <1>1, <2>1, Authorized
  <2>3. ASSUME NEW effect \in done PROVE Admitted("user") /\ Entitled(effect)
    <3>1. effect \in {"clusters", "dns"} /\ Admitted("user") /\ Admitted("member")
      BY <2>2 DEF OnlyIfGranted
    <3> QED BY <1>3, <3>1 DEF Entitled
  <2> QED BY <2>3 DEF EffectsAuthorized
<1>4. CASE endpoint = "deleteCluster"
  <2>1. Guarded(Handler[endpoint], {{"user"}, {"hosts", "admin"}},
          {"reachability", "instances", "volumes", "secrets", "objects", "dns",
          "credentials", "clusters", "email"})
    BY <1>4, ClusterHandlers DEF Handler
  <2>2. OnlyIfGranted({{"user"}, {"hosts", "admin"}},
          {"reachability", "instances", "volumes", "secrets", "objects", "dns",
          "credentials", "clusters", "email"})
    BY <1>1, <2>1, Authorized
  <2>3. ASSUME NEW effect \in done PROVE Admitted("user") /\ Entitled(effect)
    <3>1. /\ effect \in {"reachability", "instances", "volumes", "secrets", "objects",
               "dns", "credentials", "clusters", "email"}
          /\ Admitted("user")
          /\ (Admitted("hosts") \/ Admitted("admin"))
      BY <2>2 DEF OnlyIfGranted
    <3> QED BY <1>4, <3>1 DEF Entitled
  <2> QED BY <2>3 DEF EffectsAuthorized
<1>5. CASE endpoint = "updateCluster"
  <2>1. Guarded(Handler[endpoint], {{"user"}, {"admin", "hosts"}}, {"dns", "clusters"})
    BY <1>5, ClusterHandlers DEF Handler
  <2>2. OnlyIfGranted({{"user"}, {"admin", "hosts"}}, {"dns", "clusters"})
    BY <1>1, <2>1, Authorized
  <2>3. ASSUME NEW effect \in done PROVE Admitted("user") /\ Entitled(effect)
    <3>1. /\ effect \in {"dns", "clusters"}
          /\ Admitted("user")
          /\ (Admitted("admin") \/ Admitted("hosts"))
      BY <2>2 DEF OnlyIfGranted
    <3> QED BY <1>5, <3>1 DEF Entitled
  <2> QED BY <2>3 DEF EffectsAuthorized
<1>6. CASE endpoint = "pingCluster"
  <2>1. Guarded(Handler[endpoint], {{"user"}}, {"reachability"})
    BY <1>6, ClusterHandlers DEF Handler
  <2>2. OnlyIfGranted({{"user"}}, {"reachability"})
    BY <1>1, <2>1, Authorized
  <2>3. ASSUME NEW effect \in done PROVE Admitted("user") /\ Entitled(effect)
    <3>1. effect \in {"reachability"} /\ Admitted("user")
      BY <2>2 DEF OnlyIfGranted
    <3> QED BY <1>6, <3>1 DEF Entitled
  <2> QED BY <2>3 DEF EffectsAuthorized
<1> QED BY <1>1, <1>2, <1>3, <1>4, <1>5, <1>6

LEMMA AccessChanges ==
  ASSUME ServerInv, endpoint \in {"listClusterAllowedgroups",
           "checkGroupClusterAccess", "grantGroupClusterAccess",
           "revokeGroupClusterAccess", "listClusterGroupAllowedApplications",
           "allowGroupUseOfApplication", "denyGroupUseOfApplication"}
  PROVE  EffectsAuthorized
<1>1. endpoint # NoHandler
  BY DEF NoHandler
<1>2. CASE endpoint \in {"listClusterAllowedgroups", "checkGroupClusterAccess",
      "listClusterGroupAllowedApplications"}
  <2>1. Guarded(Handler[endpoint], {}, {})
    BY <1>2, AccessHandlers DEF Handler
  <2>2. OnlyIfGranted({}, {})
    BY <1>1, <2>1, Authorized
  <2> QED BY <2>2 DEF OnlyIfGranted, EffectsAuthorized
<1>3. CASE endpoint = "grantGroupClusterAccess"
  <2>1. Guarded(Handler[endpoint], {{"user"}, {"admin", "hosts"}}, {"access"})
    BY <1>3, AccessHandlers DEF Handler
  <2>2. OnlyIfGranted({{"user"}, {"admin", "hosts"}}, {"access"})
    BY <1>1, <2>1, Authorized
  <2>3. ASSUME NEW effect \in done PROVE Admitted("user") /\ Entitled(effect)
    <3>1. /\ effect \in {"access"}
          /\ Admitted("user")
          /\ (Admitted("admin") \/ Admitted("hosts"))
      BY <2>2 DEF OnlyIfGranted
    <3> QED BY <1>3, <3>1 DEF Entitled
  <2> QED BY <2>3 DEF EffectsAuthorized
<1>4. CASE endpoint = "revokeGroupClusterAccess"
  <2>1. Guarded(Handler[endpoint], {{"user"}, {"admin", "hosts"}}, {"access"})
    BY <1>4, AccessHandlers DEF Handler
  <2>2. OnlyIfGranted({{"user"}, {"admin", "hosts"}}, {"access"})
    BY <1>1, <2>1, Authorized
  <2>3. ASSUME NEW effect \in done PROVE Admitted("user") /\ Entitled(effect)
    <3>1. /\ effect \in {"access"}
          /\ Admitted("user")
          /\ (Admitted("admin") \/ Admitted("hosts"))
      BY <2>2 DEF OnlyIfGranted
    <3> QED BY <1>4, <3>1 DEF Entitled
  <2> QED BY <2>3 DEF EffectsAuthorized
<1>5. CASE endpoint = "allowGroupUseOfApplication"
  <2>1. Guarded(Handler[endpoint], {{"user"}, {"admin", "hosts"}}, {"permissions"})
    BY <1>5, AccessHandlers DEF Handler
  <2>2. OnlyIfGranted({{"user"}, {"admin", "hosts"}}, {"permissions"})
    BY <1>1, <2>1, Authorized
  <2>3. ASSUME NEW effect \in done PROVE Admitted("user") /\ Entitled(effect)
    <3>1. /\ effect \in {"permissions"}
          /\ Admitted("user")
          /\ (Admitted("admin") \/ Admitted("hosts"))
      BY <2>2 DEF OnlyIfGranted
    <3> QED BY <1>5, <3>1 DEF Entitled
  <2> QED BY <2>3 DEF EffectsAuthorized
<1>6. CASE endpoint = "denyGroupUseOfApplication"
  <2>1. Guarded(Handler[endpoint], {{"user"}, {"admin", "hosts"}}, {"permissions"})
    BY <1>6, AccessHandlers DEF Handler
  <2>2. OnlyIfGranted({{"user"}, {"admin", "hosts"}}, {"permissions"})
    BY <1>1, <2>1, Authorized
  <2>3. ASSUME NEW effect \in done PROVE Admitted("user") /\ Entitled(effect)
    <3>1. /\ effect \in {"permissions"}
          /\ Admitted("user")
          /\ (Admitted("admin") \/ Admitted("hosts"))
      BY <2>2 DEF OnlyIfGranted
    <3> QED BY <1>6, <3>1 DEF Entitled
  <2> QED BY <2>3 DEF EffectsAuthorized
<1> QED BY <1>1, <1>2, <1>3, <1>4, <1>5, <1>6

LEMMA ApplicationChanges ==
  ASSUME ServerInv, endpoint \in {"listApplications", "fetchApplicationConfig",
           "fetchApplicationVersions", "fetchApplicationDocumentation",
           "installApplication", "installAdHocApplication", "updateCatalog"}
  PROVE  EffectsAuthorized
<1>1. endpoint # NoHandler
  BY DEF NoHandler
<1>2. CASE endpoint \in {"listApplications", "fetchApplicationConfig",
      "fetchApplicationVersions", "fetchApplicationDocumentation"}
  <2>1. Guarded(Handler[endpoint], {}, {})
    BY <1>2, ApplicationHandlers DEF Handler
  <2>2. OnlyIfGranted({}, {})
    BY <1>1, <2>1, Authorized
  <2> QED BY <2>2 DEF OnlyIfGranted, EffectsAuthorized
<1>3. CASE endpoint = "installApplication"
  <2>1. Guarded(Handler[endpoint], {{"user"}, {"member"}, {"owns", "access"}},
          {"instances", "namespace", "objects"})
    BY <1>3, ApplicationHandlers DEF Handler
  <2>2. OnlyIfGranted({{"user"}, {"member"}, {"owns", "access"}},
          {"instances", "namespace", "objects"})
    BY <1>1, <2>1, Authorized
  <2>3. ASSUME NEW effect \in done PROVE Admitted("user") /\ Entitled(effect)
    <3>1. /\ effect \in {"instances", "namespace", "objects"}
          /\ Admitted("user")
          /\ Admitted("member")
          /\ (Admitted("owns") \/ Admitted("access"))
      BY <2>2 DEF OnlyIfGranted
    <3> QED BY <1>3, <3>1 DEF Entitled
  <2> QED BY <2>3 DEF EffectsAuthorized
<1>4. CASE endpoint = "installAdHocApplication"
  <2>1. Guarded(Handler[endpoint], {{"user"}, {"member"}, {"owns", "access"}},
          {"instances", "namespace", "objects"})
    BY <1>4, ApplicationHandlers DEF Handler
  <2>2. OnlyIfGranted({{"user"}, {"member"}, {"owns", "access"}},
          {"instances", "namespace", "objects"})
    BY <1>1, <2>1, Authorized
  <2>3. ASSUME NEW effect \in done PROVE Admitted("user") /\ Entitled(effect)
    <3>1. /\ effect \in {"instances", "namespace", "objects"}
          /\ Admitted("user")
          /\ Admitted("member")
          /\ (Admitted("owns") \/ Admitted("access"))
      BY <2>2 DEF OnlyIfGranted
    <3> QED BY <1>4, <3>1 DEF Entitled
  <2> QED BY <2>3 DEF EffectsAuthorized
<1>5. CASE endpoint = "updateCatalog"
  <2>1. Guarded(Handler[endpoint], {{"user"}}, {"catalogue"})
    BY <1>5, ApplicationHandlers DEF Handler
  <2>2. OnlyIfGranted({{"user"}}, {"catalogue"})
    BY <1>1, <2>1, Authorized
  <2>3. ASSUME NEW effect \in done PROVE Admitted("user") /\ Entitled(effect)
    <3>1. effect \in {"catalogue"} /\ Admitted("user")
      BY <2>2 DEF OnlyIfGranted
    <3> QED BY <1>5, <3>1 DEF Entitled
  <2> QED BY <2>3 DEF EffectsAuthorized
<1> QED BY <1>1, <1>2, <1>3, <1>4, <1>5

LEMMA InstanceChanges ==
  ASSUME ServerInv, endpoint \in {"listApplicationInstances",
           "fetchApplicationInstanceInfo", "deleteApplicationInstance",
           "updateApplicationInstance", "restartApplicationInstance",
           "getApplicationInstanceScale", "scaleApplicationInstance",
           "getApplicationInstanceLogs"}
  PROVE  EffectsAuthorized
<1>1. endpoint # NoHandler
  BY DEF NoHandler
<1>2. CASE endpoint \in {"listApplicationInstances", "fetchApplicationInstanceInfo",
      "getApplicationInstanceScale", "getApplicationInstanceLogs"}
  <2>1. Guarded(Handler[endpoint], {}, {})
    BY <1>2, InstanceHandlers DEF Handler
  <2>2. OnlyIfGranted({}, {})
    BY <1>1, <2>1, Authorized
  <2> QED BY <2>2 DEF OnlyIfGranted, EffectsAuthorized
<1>3. CASE endpoint = "deleteApplicationInstance"
  <2>1. Guarded(Handler[endpoint], {{"user"}, {"admin", "member"}},
          {"objects", "instances"})
    BY <1>3, InstanceHandlers DEF Handler
  <2>2. OnlyIfGranted({{"user"}, {"admin", "member"}}, {"objects", "instances"})
    BY <1>1, <2>1, Authorized
  <2>3. ASSUME NEW effect \in done PROVE Admitted("user") /\ Entitled(effect)
    <3>1. /\ effect \in {"objects", "instances"}
          /\ Admitted("user")
          /\ (Admitted("admin") \/ Admitted("member"))
      BY <2>2 DEF OnlyIfGranted
    <3> QED BY <1>3, <3>1 DEF Entitled
  <2> QED BY <2>3 DEF EffectsAuthorized
<1>4. CASE endpoint = "updateApplicationInstance"
  <2>1. Guarded(Handler[endpoint], {{"user"}, {"admin", "member"}},
          {"objects", "namespace", "instances"})
    BY <1>4, InstanceHandlers DEF Handler
  <2>2. OnlyIfGranted({{"user"}, {"admin", "member"}},
          {"objects", "namespace", "instances"})
    BY <1>1, <2>1, Authorized
  <2>3. ASSUME NEW effect \in done PROVE Admitted("user") /\ Entitled(effect)
    <3>1. /\ effect \in {"objects", "namespace", "instances"}
          /\ Admitted("user")
          /\ (Admitted("admin") \/ Admitted("member"))
      BY <2>2 DEF OnlyIfGranted
    <3> QED BY <1>4, <3>1 DEF Entitled
  <2> QED BY <2>3 DEF EffectsAuthorized
<1>5. CASE endpoint = "restartApplicationInstance"
  <2>1. Guarded(Handler[endpoint], {{"user"}, {"admin", "member"}},
          {"objects", "namespace"})
    BY <1>5, InstanceHandlers DEF Handler
  <2>2. OnlyIfGranted({{"user"}, {"admin", "member"}}, {"objects", "namespace"})
    BY <1>1, <2>1, Authorized
  <2>3. ASSUME NEW effect \in done PROVE Admitted("user") /\ Entitled(effect)
    <3>1. /\ effect \in {"objects", "namespace"}
          /\ Admitted("user")
          /\ (Admitted("admin") \/ Admitted("member"))
      BY <2>2 DEF OnlyIfGranted
    <3> QED BY <1>5, <3>1 DEF Entitled
  <2> QED BY <2>3 DEF EffectsAuthorized
<1>6. CASE endpoint = "scaleApplicationInstance"
  <2>1. Guarded(Handler[endpoint], {{"user"}, {"admin", "member"}}, {"objects"})
    BY <1>6, InstanceHandlers DEF Handler
  <2>2. OnlyIfGranted({{"user"}, {"admin", "member"}}, {"objects"})
    BY <1>1, <2>1, Authorized
  <2>3. ASSUME NEW effect \in done PROVE Admitted("user") /\ Entitled(effect)
    <3>1. /\ effect \in {"objects"}
          /\ Admitted("user")
          /\ (Admitted("admin") \/ Admitted("member"))
      BY <2>2 DEF OnlyIfGranted
    <3> QED BY <1>6, <3>1 DEF Entitled
  <2> QED BY <2>3 DEF EffectsAuthorized
<1> QED BY <1>1, <1>2, <1>3, <1>4, <1>5, <1>6

LEMMA SecretChanges ==
  ASSUME ServerInv, endpoint \in {"listSecrets", "createSecret", "deleteSecret",
           "getSecret"}
  PROVE  EffectsAuthorized
<1>1. endpoint # NoHandler
  BY DEF NoHandler
<1>2. CASE endpoint \in {"listSecrets", "getSecret"}
  <2>1. Guarded(Handler[endpoint], {}, {})
    BY <1>2, SecretHandlers DEF Handler
  <2>2. OnlyIfGranted({}, {})
    BY <1>1, <2>1, Authorized
  <2> QED BY <2>2 DEF OnlyIfGranted, EffectsAuthorized
<1>3. CASE endpoint = "createSecret"
  <2>1. Guarded(Handler[endpoint], {{"user"}, {"member"}, {"owns", "access"}},
          {"secrets", "namespace", "objects"})
    BY <1>3, SecretHandlers DEF Handler
  <2>2. OnlyIfGranted({{"user"}, {"member"}, {"owns", "access"}},
          {"secrets", "namespace", "objects"})
    BY <1>1, <2>1, Authorized
  <2>3. ASSUME NEW effect \in done PROVE Admitted("user") /\ Entitled(effect)
    <3>1. /\ effect \in {"secrets", "namespace", "objects"}
          /\ Admitted("user")
          /\ Admitted("member")
          /\ (Admitted("owns") \/ Admitted("access"))
      BY <2>2 DEF OnlyIfGranted
    <3> QED BY <1>3, <3>1 DEF Entitled
  <2> QED BY <2>3 DEF EffectsAuthorized
<1>4. CASE endpoint = "deleteSecret"
  <2>1. Guarded(Handler[endpoint], {{"user"}, {"member"}}, {"objects", "secrets"})
    BY <1>4, SecretHandlers DEF Handler
  <2>2. OnlyIfGranted({{"user"}, {"member"}}, {"objects", "secrets"})
    BY <1>1, <2>1, Authorized
  <2>3. ASSUME NEW effect \in done PROVE Admitted("user") /\ Entitled(effect)
    <3>1. effect \in {"objects", "secrets"} /\ Admitted("user") /\ Admitted("member")
      BY <2>2 DEF OnlyIfGranted
    <3> QED BY <1>4, <3>1 DEF Entitled
  <2> QED BY <2>3 DEF EffectsAuthorized
<1> QED BY <1>1, <1>2, <1>3, <1>4

LEMMA VolumeChanges ==
  ASSUME ServerInv, endpoint \in {"listVolumeClaims", "fetchVolumeClaimInfo",
           "createVolumeClaim", "deleteVolumeClaim"}
  PROVE  EffectsAuthorized
<1>1. endpoint # NoHandler
  BY DEF NoHandler
<1>2. CASE endpoint \in {"listVolumeClaims", "fetchVolumeClaimInfo"}
  <2>1. Guarded(Handler[endpoint], {}, {})
    BY <1>2, VolumeHandlers DEF Handler
  <2>2. OnlyIfGranted({}, {})
    BY <1>1, <2>1, Authorized
  <2> QED BY <2>2 DEF OnlyIfGranted, EffectsAuthorized
<1>3. CASE endpoint = "createVolumeClaim"
  <2>1. Guarded(Handler[endpoint], {{"user"}, {"member"}, {"owns", "access"}},
          {"volumes", "namespace", "objects"})
    BY <1>3, VolumeHandlers DEF Handler
  <2>2. OnlyIfGranted({{"user"}, {"member"}, {"owns", "access"}},
          {"volumes", "namespace", "objects"})
    BY <1>1, <2>1, Authorized
  <2>3. ASSUME NEW effect \in done PROVE Admitted("user") /\ Entitled(effect)
    <3>1. /\ effect \in {"volumes", "namespace", "objects"}
          /\ Admitted("user")
          /\ Admitted("member")
          /\ (Admitted("owns") \/ Admitted("access"))
      BY <2>2 DEF OnlyIfGranted
    <3> QED BY <1>3, <3>1 DEF Entitled
  <2> QED BY <2>3 DEF EffectsAuthorized
<1>4. CASE endpoint = "deleteVolumeClaim"
  <2>1. Guarded(Handler[endpoint], {{"user"}, {"admin", "member"}},
          {"objects", "volumes"})
    BY <1>4, VolumeHandlers DEF Handler
  <2>2. OnlyIfGranted({{"user"}, {"admin", "member"}}, {"objects", "volumes"})
    BY <1>1, <2>1, Authorized
  <2>3. ASSUME NEW effect \in done PROVE Admitted("user") /\ Entitled(effect)
    <3>1. /\ effect \in {"objects", "volumes"}
          /\ Admitted("user")
          /\ (Admitted("admin") \/ Admitted("member"))
      BY <2>2 DEF OnlyIfGranted
    <3> QED BY <1>4, <3>1 DEF Entitled
  <2> QED BY <2>3 DEF EffectsAuthorized
<1> QED BY <1>1, <1>2, <1>3, <1>4

LEMMA OtherChanges ==
  ASSUME ServerInv, endpoint \in {"multiplex", "getStatistics", "serverVersionInfo",
           "unsupported"}
  PROVE  EffectsAuthorized
<1>1. endpoint # NoHandler
  BY DEF NoHandler
<1>2. CASE endpoint \in {"getStatistics", "serverVersionInfo", "unsupported"}
  <2>1. Guarded(Handler[endpoint], {}, {})
    BY <1>2, OtherHandlers DEF Handler
  <2>2. OnlyIfGranted({}, {})
    BY <1>1, <2>1, Authorized
  <2> QED BY <2>2 DEF OnlyIfGranted, EffectsAuthorized
<1>3. CASE endpoint = "multiplex"
  <2>1. Guarded(Handler[endpoint], {{"user"}}, {"requests"})
    BY <1>3, OtherHandlers DEF Handler
  <2>2. OnlyIfGranted({{"user"}}, {"requests"})
    BY <1>1, <2>1, Authorized
  <2>3. ASSUME NEW effect \in done PROVE Admitted("user") /\ Entitled(effect)
    <3>1. effect \in {"requests"} /\ Admitted("user")
      BY <2>2 DEF OnlyIfGranted
    <3> QED BY <1>3, <3>1 DEF Entitled
  <2> QED BY <2>3 DEF EffectsAuthorized
<1> QED BY <1>1, <1>2, <1>3

LEMMA Allowed == ASSUME ServerInv PROVE RefusedUnchanged /\ EffectsAuthorized
<1>1. CASE endpoint = NoHandler
  BY <1>1 DEF ServerInv, RefusedUnchanged, EffectsAuthorized
<1>2. CASE endpoint \in DOMAIN Handler
  <2>1. endpoint # NoHandler
    BY <1>2, NamesOfHandlers DEF NoHandler
  <2>2. PICK needs, effects : Guarded(Handler[endpoint], needs, effects)
    BY <1>2, Handlers DEF IsGuarded
  <2>3. RefusedUnchanged
    BY <2>1, <2>2, Authorized DEF RefusedUnchanged
  <2>4. EffectsAuthorized
    BY <1>2, NamesOfHandlers, UserChanges, GroupChanges, CredentialChanges,
       ClusterChanges, AccessChanges, ApplicationChanges, InstanceChanges,
       SecretChanges, VolumeChanges, OtherChanges
  <2> QED BY <2>3, <2>4
<1> QED BY <1>1, <1>2 DEF ServerInv

-----------------------------------------------------------------------------
(* A step of the client sends a request or leaves the server alone.        *)
LEMMA ClientSends ==
  ASSUME RequestNext
  PROVE  \/ UNCHANGED serverVars
         \/ ServerNext /\ UNCHANGED clientVars
         \/ \E method \in {"GET", "DELETE", "PUT", "POST"} :
              \E given \in {Doing.given, Doing.given \ Body} :
                /\ method \in {"PUT", "POST"} => given = Doing.given
                /\ httpRequest(method, given)
BY Zenon DEF RequestNext, checkInput, skipSteps, getEndpoint, getToken, readOrThrow, httpGet,
    httpDelete,
       httpPut, httpPost, receiveAnswer, loseConnection, startAgain, reportSuccess

LEMMA ServerStarts == ASSUME RequestInit PROVE ServerInv
<1>1. known = [i \in {} |-> TRUE] /\ DOMAIN known = {}
  BY DEF RequestInit, ServerInit
<1>2. known \in [DOMAIN known -> BOOLEAN]
  BY <1>1
<1> QED BY <1>2 DEF RequestInit, ServerInit, ServerInv

LEMMA ServerSteps == ASSUME ServerInv, [RequestNext]_requestVars PROVE ServerInv'
<1>1. CASE UNCHANGED serverVars
  BY <1>1 DEF serverVars, ServerInv
<1>2. CASE ServerNext
  BY <1>2, ServerStep
<1>3. CASE \E method, given : httpRequest(method, given)
  <2>1. PICK method, path, given : accept(method, path, given)
    BY <1>3 DEF httpRequest
  <2> QED BY <2>1, Accepted
<1> QED BY <1>1, <1>2, <1>3, ClientSends DEF requestVars

(* The server is always at a step of the handler it routed the request to, *)
(* has asked what comes before that step, and has changed only what those  *)
(* steps change: crow's dispatch and the straight run of each handler.     *)
THEOREM RequestServed == RequestSpec => []ServerInv
<1>1. RequestInit => ServerInv
  BY ServerStarts
<1>2. ServerInv /\ [RequestNext]_requestVars => ServerInv'
  BY ServerSteps
<1> QED BY <1>1, <1>2, PTL DEF RequestSpec

(* Whatever a request changes, it was asked, and answered, everything that *)
(* the change requires: authenticateUser, ownership and membership come    *)
(* before the first change in every one of the handlers.                   *)
THEOREM RequestAuthorized == RequestSpec => []EffectsAuthorized
<1>1. ServerInv => EffectsAuthorized
  BY Allowed
<1> QED BY <1>1, RequestServed, PTL

(* A request answered with a client error has changed nothing: no handler  *)
(* returns a 4xx crow::response after its first change to the store or the *)
(* cluster.                                                                *)
THEOREM RequestRefused == RequestSpec => []RefusedUnchanged
<1>1. ServerInv => RefusedUnchanged
  BY Allowed
<1> QED BY <1>1, RequestServed, PTL

-----------------------------------------------------------------------------
(* Which handlers a request may reach: the routes of each method.          *)
IsRoute(route) == \E i \in 1..Len(Routes) : route = Routes[i]
InList(route, routes) == \E i \in 1..Len(routes) : route = routes[i]

LEMMA EitherList ==
  ASSUME NEW s, NEW t, IsPiece(s), IsPiece(t), NEW route, InList(route, s \o t)
  PROVE  InList(route, s) \/ InList(route, t)
<1>1. PICK i \in 1..Len(s \o t) : route = (s \o t)[i]
  BY DEF InList
<1>2. CASE i <= Len(s)
  <2>1. i \in 1..Len(s) /\ route = s[i]
    BY <1>1, <1>2, Joined
  <2> QED BY <2>1 DEF InList
<1>3. CASE ~(i <= Len(s))
  <2>1. i - Len(s) \in 1..Len(t) /\ route = t[i - Len(s)]
    BY <1>1, <1>3, Joined
  <2> QED BY <2>1 DEF InList
<1> QED BY <1>2, <1>3

LEMMA SomeList ==
  ASSUME NEW route, IsRoute(route)
  PROVE  \/ InList(route, userRoutes) \/ InList(route, clusterRoutes)
         \/ InList(route, credentialRoutes) \/ InList(route, groupRoutes)
         \/ InList(route, applicationRoutes) \/ InList(route, instanceRoutes)
         \/ InList(route, otherRoutes)
<1>1. /\ IsPiece(userRoutes) /\ IsPiece(clusterRoutes) /\ IsPiece(credentialRoutes)
      /\ IsPiece(groupRoutes) /\ IsPiece(applicationRoutes) /\ IsPiece(instanceRoutes)
      /\ IsPiece(otherRoutes)
  <2>1. IsPiece(userRoutes)
    BY DEF IsPiece, userRoutes
  <2>2. IsPiece(clusterRoutes)
    BY DEF IsPiece, clusterRoutes
  <2>3. IsPiece(credentialRoutes)
    BY DEF IsPiece, credentialRoutes
  <2>4. IsPiece(groupRoutes)
    BY DEF IsPiece, groupRoutes
  <2>5. IsPiece(applicationRoutes)
    BY DEF IsPiece, applicationRoutes
  <2>6. IsPiece(instanceRoutes)
    BY DEF IsPiece, instanceRoutes
  <2>7. IsPiece(otherRoutes)
    BY DEF IsPiece, otherRoutes
  <2> QED BY <2>1, <2>2, <2>3, <2>4, <2>5, <2>6, <2>7
<1>2. /\ IsPiece(userRoutes \o clusterRoutes)
      /\ IsPiece(userRoutes \o clusterRoutes \o credentialRoutes)
  BY <1>1, Joined
<1>3. /\ IsPiece(userRoutes \o clusterRoutes \o credentialRoutes \o groupRoutes)
      /\ IsPiece(userRoutes \o clusterRoutes \o credentialRoutes \o groupRoutes
                   \o applicationRoutes)
  BY <1>1, <1>2, Joined
<1>4. IsPiece(userRoutes \o clusterRoutes \o credentialRoutes \o groupRoutes
               \o applicationRoutes \o instanceRoutes)
  BY <1>1, <1>3, Joined
<1>5. InList(route, userRoutes \o clusterRoutes \o credentialRoutes \o groupRoutes
                     \o applicationRoutes \o instanceRoutes \o otherRoutes)
  BY DEF IsRoute, InList, Routes
<1>6. \/ InList(route, userRoutes \o clusterRoutes \o credentialRoutes \o groupRoutes
                        \o applicationRoutes)
      \/ InList(route, instanceRoutes) \/ InList(route, otherRoutes)
  BY <1>1, <1>3, <1>4, <1>5, EitherList
<1>7. \/ InList(route, userRoutes \o clusterRoutes \o credentialRoutes)
      \/ InList(route, groupRoutes) \/ InList(route, applicationRoutes)
      \/ InList(route, instanceRoutes) \/ InList(route, otherRoutes)
  BY <1>1, <1>2, <1>3, <1>6, EitherList
<1> QED BY <1>1, <1>2, <1>7, EitherList

(* A route for pattern under the version of the interface fits the path.   *)
Fits(pattern, path) ==
  Len(pattern) = Len(path) /\ \A i \in 1..Len(path) : pattern[i] \in {path[i], "*", "**"}
Leads(route, pattern, handler) == route.path = V(pattern) /\ route.handler = handler
Reaches(handler, pattern, route, path) == route.handler = handler /\ Fits(pattern, path)

LEMMA Versioned ==
  ASSUME NEW path, IsPiece(path)
  PROVE  /\ IsPiece(V(path)) /\ Len(V(path)) = Len(path) + 1 /\ Len(path) \in Nat
         /\ \A i \in 1..Len(path) : V(path)[i + 1] = path[i]
<1>1. IsPiece(<<"v1alpha3">>) /\ Len(<<"v1alpha3">>) = 1
  BY Literals
<1> QED BY <1>1, Joined DEF V

Plain(pattern) ==
  IsPiece(pattern) /\ Len(pattern) > 0 /\ \A i \in 1..Len(pattern) : pattern[i] # "**"

LEMMA Plainly ==
  /\ \A a : a # "**" => Plain(<<a>>)
  /\ \A a, b : "**" \notin {a, b} => Plain(<<a, b>>)
  /\ \A a, b, c : "**" \notin {a, b, c} => Plain(<<a, b, c>>)
  /\ \A a, b, c, d : "**" \notin {a, b, c, d} => Plain(<<a, b, c, d>>)
  /\ \A a, b, c, d, e : "**" \notin {a, b, c, d, e} => Plain(<<a, b, c, d, e>>)
  /\ \A a, b, c, d, e, f : "**" \notin {a, b, c, d, e, f} => Plain(<<a, b, c, d, e, f>>)
BY Literals DEF Plain

LEMMA Reached ==
  ASSUME NEW route, NEW pattern, NEW path, NEW handler, NEW method, IsPiece(path),
         Plain(pattern), Leads(route, pattern, handler), Matches(route, method, V(path))
  PROVE  Reaches(handler, pattern, route, path)
<1>1. /\ Len(V(path)) = Len(path) + 1 /\ Len(V(pattern)) = Len(pattern) + 1
      /\ Len(path) \in Nat /\ Len(pattern) \in Nat /\ Len(pattern) \in 1..Len(pattern)
      /\ \A i \in 1..Len(pattern) : V(pattern)[i + 1] = pattern[i]
  BY Versioned DEF Plain
<1>2. V(pattern)[Len(pattern) + 1] # "**"
  BY <1>1 DEF Plain
<1>3. Len(V(path)) = Len(V(pattern))
  BY <1>1, <1>2 DEF Matches, Leads
<1>4. ASSUME NEW i \in 1..Len(path) PROVE pattern[i] \in {path[i], "*", "**"}
  <2>1. i + 1 \in 1..Len(V(pattern))
    BY <1>1, <1>3
  <2>2. V(pattern)[i + 1] \in {V(path)[i + 1], "*", "**"}
    BY <2>1 DEF Matches, Leads
  <2> QED BY <1>1, <1>3, <2>2, Versioned
<1> QED BY <1>1, <1>3, <1>4 DEF Leads, Reaches, Fits

LEMMA PostUserRoutes ==
  ASSUME NEW route, InList(route, userRoutes), NEW path, IsPiece(path), Len(path) > 0,
         Matches(route, "POST", V(path))
  PROVE
    \/ Reaches("multiplex", <<"multiplex">>, route, path)
    \/ Reaches("createUser", <<"users">>, route, path)
<1>1. route.method = "POST"
  BY DEF Matches
<1>2. \/ Leads(route, <<"multiplex">>, "multiplex")
      \/ Leads(route, <<"users">>, "createUser")
  BY <1>1, SMTT(20) DEF InList, userRoutes, Route, Leads
<1>3. CASE Leads(route, <<"multiplex">>, "multiplex")
  BY <1>3, Reached, Plainly
<1>4. CASE Leads(route, <<"users">>, "createUser")
  BY <1>4, Reached, Plainly
<1> QED BY <1>2, <1>3, <1>4

LEMMA PostClusterRoutes ==
  ASSUME NEW route, InList(route, clusterRoutes), NEW path, IsPiece(path), Len(path) > 0,
         Matches(route, "POST", V(path))
  PROVE
    \/ Reaches("createCluster", <<"clusters">>, route, path)
<1>1. route.method = "POST"
  BY DEF Matches
<1>2. \/ Leads(route, <<"clusters">>, "createCluster")
  BY <1>1, SMTT(20) DEF InList, clusterRoutes, Route, Leads
<1>3. CASE Leads(route, <<"clusters">>, "createCluster")
  BY <1>3, Reached, Plainly
<1> QED BY <1>2, <1>3

LEMMA PostCredentialRoutes ==
  ASSUME NEW route, InList(route, credentialRoutes), NEW path, IsPiece(path), Len(path) > 0,
         Matches(route, "POST", V(path))
  PROVE
    \/ Reaches("addMonitoringCredential", <<"monitoring_credentials">>, route, path)
<1>1. route.method = "POST"
  BY DEF Matches
<1>2. \/ Leads(route, <<"monitoring_credentials">>, "addMonitoringCredential")
  BY <1>1, SMTT(20) DEF InList, credentialRoutes, Route, Leads
<1>3. CASE Leads(route, <<"monitoring_credentials">>, "addMonitoringCredential")
  BY <1>3, Reached, Plainly
<1> QED BY <1>2, <1>3

LEMMA PostGroupRoutes ==
  ASSUME NEW route, InList(route, groupRoutes), NEW path, IsPiece(path), Len(path) > 0,
         Matches(route, "POST", V(path))
  PROVE
    \/ Reaches("createGroup", <<"groups">>, route, path)
<1>1. route.method = "POST"
  BY DEF Matches
<1>2. \/ Leads(route, <<"groups">>, "createGroup")
  BY <1>1, SMTT(20) DEF InList, groupRoutes, Route, Leads
<1>3. CASE Leads(route, <<"groups">>, "createGroup")
  BY <1>3, Reached, Plainly
<1> QED BY <1>2, <1>3

LEMMA PostApplicationRoutes ==
  ASSUME NEW route, InList(route, applicationRoutes), NEW path, IsPiece(path), Len(path) > 0,
         Matches(route, "POST", V(path))
  PROVE
    \/ Reaches("installAdHocApplication", <<"apps", "ad-hoc">>, route, path)
    \/ Reaches("installApplication", <<"apps", "*">>, route, path)
    \/ Reaches("updateCatalog", <<"update_apps">>, route, path)
<1>1. route.method = "POST"
  BY DEF Matches
<1>2. \/ Leads(route, <<"apps", "ad-hoc">>, "installAdHocApplication")
      \/ Leads(route, <<"apps", "*">>, "installApplication")
      \/ Leads(route, <<"update_apps">>, "updateCatalog")
  BY <1>1, SMTT(20) DEF InList, applicationRoutes, Route, Leads
<1>3. CASE Leads(route, <<"apps", "ad-hoc">>, "installAdHocApplication")
  BY <1>3, Reached, Plainly
<1>4. CASE Leads(route, <<"apps", "*">>, "installApplication")
  BY <1>4, Reached, Plainly
<1>5. CASE Leads(route, <<"update_apps">>, "updateCatalog")
  BY <1>5, Reached, Plainly
<1> QED BY <1>2, <1>3, <1>4, <1>5

LEMMA PostOtherRoutes ==
  ASSUME NEW route, InList(route, otherRoutes), NEW path, IsPiece(path), Len(path) > 0,
         Matches(route, "POST", V(path))
  PROVE
    \/ Reaches("createSecret", <<"secrets">>, route, path)
    \/ Reaches("createVolumeClaim", <<"volumes">>, route, path)
<1>1. route.method = "POST"
  BY DEF Matches
<1>2. \/ Leads(route, <<"secrets">>, "createSecret")
      \/ Leads(route, <<"volumes">>, "createVolumeClaim")
  BY <1>1, SMTT(20) DEF InList, otherRoutes, Route, Leads
<1>3. CASE Leads(route, <<"secrets">>, "createSecret")
  BY <1>3, Reached, Plainly
<1>4. CASE Leads(route, <<"volumes">>, "createVolumeClaim")
  BY <1>4, Reached, Plainly
<1> QED BY <1>2, <1>3, <1>4

LEMMA PutUserRoutes ==
  ASSUME NEW route, InList(route, userRoutes), NEW path, IsPiece(path), Len(path) > 0,
         Matches(route, "PUT", V(path))
  PROVE
    \/ Reaches("updateUser", <<"users", "*">>, route, path)
    \/ Reaches("addUserToGroup", <<"users", "*", "groups", "*">>, route, path)
<1>1. route.method = "PUT"
  BY DEF Matches
<1>2. \/ Leads(route, <<"users", "*">>, "updateUser")
      \/ Leads(route, <<"users", "*", "groups", "*">>, "addUserToGroup")
  BY <1>1, SMTT(20) DEF InList, userRoutes, Route, Leads
<1>3. CASE Leads(route, <<"users", "*">>, "updateUser")
  BY <1>3, Reached, Plainly
<1>4. CASE Leads(route, <<"users", "*", "groups", "*">>, "addUserToGroup")
  BY <1>4, Reached, Plainly
<1> QED BY <1>2, <1>3, <1>4

LEMMA PutClusterRoutes ==
  ASSUME NEW route, InList(route, clusterRoutes), NEW path, IsPiece(path), Len(path) > 0,
         Matches(route, "PUT", V(path))
  PROVE
    \/ Reaches("updateCluster", <<"clusters", "*">>, route, path)
    \/ Reaches("grantGroupClusterAccess", <<"clusters", "*", "allowed_groups", "*">>, route, path)
    \/ Reaches("allowGroupUseOfApplication",
           <<"clusters", "*", "allowed_groups", "*", "applications", "*">>, route, path)
<1>1. route.method = "PUT"
  BY DEF Matches
<1>2. \/ Leads(route, <<"clusters", "*">>, "updateCluster")
      \/ Leads(route, <<"clusters", "*", "allowed_groups", "*">>, "grantGroupClusterAccess")
      \/ Leads(route, <<"clusters", "*", "allowed_groups", "*", "applications", "*">>,
             "allowGroupUseOfApplication")
  BY <1>1, SMTT(20) DEF InList, clusterRoutes, Route, Leads
<1>3. CASE Leads(route, <<"clusters", "*">>, "updateCluster")
  BY <1>3, Reached, Plainly
<1>4. CASE Leads(route, <<"clusters", "*", "allowed_groups", "*">>, "grantGroupClusterAccess")
  BY <1>4, Reached, Plainly
<1>5. CASE Leads(route, <<"clusters", "*", "allowed_groups", "*", "applications", "*">>,
          "allowGroupUseOfApplication")
  BY <1>5, Reached, Plainly
<1> QED BY <1>2, <1>3, <1>4, <1>5

LEMMA PutCredentialRoutes ==
  ASSUME NEW route, InList(route, credentialRoutes), NEW path, IsPiece(path), Len(path) > 0,
         Matches(route, "PUT", V(path))
  PROVE
    \/ Reaches("revokeMonitoringCredential", <<"monitoring_credentials", "*", "revoke">>, route, path)
<1>1. route.method = "PUT"
  BY DEF Matches
<1>2. \/ Leads(route, <<"monitoring_credentials", "*", "revoke">>, "revokeMonitoringCredential")
  BY <1>1, SMTT(20) DEF InList, credentialRoutes, Route, Leads
<1>3. CASE Leads(route, <<"monitoring_credentials", "*", "revoke">>, "revokeMonitoringCredential")
  BY <1>3, Reached, Plainly
<1> QED BY <1>2, <1>3

LEMMA PutGroupRoutes ==
  ASSUME NEW route, InList(route, groupRoutes), NEW path, IsPiece(path), Len(path) > 0,
         Matches(route, "PUT", V(path))
  PROVE
    \/ Reaches("updateGroup", <<"groups", "*">>, route, path)
<1>1. route.method = "PUT"
  BY DEF Matches
<1>2. \/ Leads(route, <<"groups", "*">>, "updateGroup")
  BY <1>1, SMTT(20) DEF InList, groupRoutes, Route, Leads
<1>3. CASE Leads(route, <<"groups", "*">>, "updateGroup")
  BY <1>3, Reached, Plainly
<1> QED BY <1>2, <1>3

LEMMA PutInstanceRoutes ==
  ASSUME NEW route, InList(route, instanceRoutes), NEW path, IsPiece(path), Len(path) > 0,
         Matches(route, "PUT", V(path))
  PROVE
    \/ Reaches("restartApplicationInstance", <<"instances", "*", "restart">>, route, path)
    \/ Reaches("scaleApplicationInstance", <<"instances", "*", "scale">>, route, path)
    \/ Reaches("updateApplicationInstance", <<"instances", "*", "update">>, route, path)
<1>1. route.method = "PUT"
  BY DEF Matches
<1>2. \/ Leads(route, <<"instances", "*", "restart">>, "restartApplicationInstance")
      \/ Leads(route, <<"instances", "*", "scale">>, "scaleApplicationInstance")
      \/ Leads(route, <<"instances", "*", "update">>, "updateApplicationInstance")
  BY <1>1, SMTT(20) DEF InList, instanceRoutes, Route, Leads
<1>3. CASE Leads(route, <<"instances", "*", "restart">>, "restartApplicationInstance")
  BY <1>3, Reached, Plainly
<1>4. CASE Leads(route, <<"instances", "*", "scale">>, "scaleApplicationInstance")
  BY <1>4, Reached, Plainly
<1>5. CASE Leads(route, <<"instances", "*", "update">>, "updateApplicationInstance")
  BY <1>5, Reached, Plainly
<1> QED BY <1>2, <1>3, <1>4, <1>5

LEMMA DeleteUserRoutes ==
  ASSUME NEW route, InList(route, userRoutes), NEW path, IsPiece(path), Len(path) > 0,
         Matches(route, "DELETE", V(path))
  PROVE
    \/ Reaches("deleteUser", <<"users", "*">>, route, path)
    \/ Reaches("removeUserFromGroup", <<"users", "*", "groups", "*">>, route, path)
<1>1. route.method = "DELETE"
  BY DEF Matches
<1>2. \/ Leads(route, <<"users", "*">>, "deleteUser")
      \/ Leads(route, <<"users", "*", "groups", "*">>, "removeUserFromGroup")
  BY <1>1, SMTT(20) DEF InList, userRoutes, Route, Leads
<1>3. CASE Leads(route, <<"users", "*">>, "deleteUser")
  BY <1>3, Reached, Plainly
<1>4. CASE Leads(route, <<"users", "*", "groups", "*">>, "removeUserFromGroup")
  BY <1>4, Reached, Plainly
<1> QED BY <1>2, <1>3, <1>4

LEMMA DeleteClusterRoutes ==
  ASSUME NEW route, InList(route, clusterRoutes), NEW path, IsPiece(path), Len(path) > 0,
         Matches(route, "DELETE", V(path))
  PROVE
    \/ Reaches("deleteCluster", <<"clusters", "*">>, route, path)
    \/ Reaches("revokeGroupClusterAccess", <<"clusters", "*", "allowed_groups", "*">>, route, path)
    \/ Reaches("denyGroupUseOfApplication",
           <<"clusters", "*", "allowed_groups", "*", "applications", "*">>, route, path)
    \/ Reaches("removeClusterMonitoringCredential", <<"clusters", "*", "monitoring_credential">>,
           route, path)
<1>1. route.method = "DELETE"
  BY DEF Matches
<1>2. \/ Leads(route, <<"clusters", "*">>, "deleteCluster")
      \/ Leads(route, <<"clusters", "*", "allowed_groups", "*">>, "revokeGroupClusterAccess")
      \/ Leads(route, <<"clusters", "*", "allowed_groups", "*", "applications", "*">>,
             "denyGroupUseOfApplication")
      \/ Leads(route, <<"clusters", "*", "monitoring_credential">>,
             "removeClusterMonitoringCredential")
  BY <1>1, SMTT(20) DEF InList, clusterRoutes, Route, Leads
<1>3. CASE Leads(route, <<"clusters", "*">>, "deleteCluster")
  BY <1>3, Reached, Plainly
<1>4. CASE Leads(route, <<"clusters", "*", "allowed_groups", "*">>, "revokeGroupClusterAccess")
  BY <1>4, Reached, Plainly
<1>5. CASE Leads(route, <<"clusters", "*", "allowed_groups", "*", "applications", "*">>,
          "denyGroupUseOfApplication")
  BY <1>5, Reached, Plainly
<1>6. CASE Leads(route, <<"clusters", "*", "monitoring_credential">>,
          "removeClusterMonitoringCredential")
  BY <1>6, Reached, Plainly
<1> QED BY <1>2, <1>3, <1>4, <1>5, <1>6

LEMMA DeleteCredentialRoutes ==
  ASSUME NEW route, InList(route, credentialRoutes), NEW path, IsPiece(path), Len(path) > 0,
         Matches(route, "DELETE", V(path))
  PROVE
    \/ Reaches("deleteMonitoringCredential", <<"monitoring_credentials", "*">>, route, path)
<1>1. route.method = "DELETE"
  BY DEF Matches
<1>2. \/ Leads(route, <<"monitoring_credentials", "*">>, "deleteMonitoringCredential")
  BY <1>1, SMTT(20) DEF InList, credentialRoutes, Route, Leads
<1>3. CASE Leads(route, <<"monitoring_credentials", "*">>, "deleteMonitoringCredential")
  BY <1>3, Reached, Plainly
<1> QED BY <1>2, <1>3

LEMMA DeleteGroupRoutes ==
  ASSUME NEW route, InList(route, groupRoutes), NEW path, IsPiece(path), Len(path) > 0,
         Matches(route, "DELETE", V(path))
  PROVE
    \/ Reaches("deleteGroup", <<"groups", "*">>, route, path)
<1>1. route.method = "DELETE"
  BY DEF Matches
<1>2. \/ Leads(route, <<"groups", "*">>, "deleteGroup")
  BY <1>1, SMTT(20) DEF InList, groupRoutes, Route, Leads
<1>3. CASE Leads(route, <<"groups", "*">>, "deleteGroup")
  BY <1>3, Reached, Plainly
<1> QED BY <1>2, <1>3

LEMMA DeleteInstanceRoutes ==
  ASSUME NEW route, InList(route, instanceRoutes), NEW path, IsPiece(path), Len(path) > 0,
         Matches(route, "DELETE", V(path))
  PROVE
    \/ Reaches("deleteApplicationInstance", <<"instances", "*">>, route, path)
<1>1. route.method = "DELETE"
  BY DEF Matches
<1>2. \/ Leads(route, <<"instances", "*">>, "deleteApplicationInstance")
  BY <1>1, SMTT(20) DEF InList, instanceRoutes, Route, Leads
<1>3. CASE Leads(route, <<"instances", "*">>, "deleteApplicationInstance")
  BY <1>3, Reached, Plainly
<1> QED BY <1>2, <1>3

LEMMA DeleteOtherRoutes ==
  ASSUME NEW route, InList(route, otherRoutes), NEW path, IsPiece(path), Len(path) > 0,
         Matches(route, "DELETE", V(path))
  PROVE
    \/ Reaches("deleteSecret", <<"secrets", "*">>, route, path)
    \/ Reaches("deleteVolumeClaim", <<"volumes", "*">>, route, path)
<1>1. route.method = "DELETE"
  BY DEF Matches
<1>2. \/ Leads(route, <<"secrets", "*">>, "deleteSecret")
      \/ Leads(route, <<"volumes", "*">>, "deleteVolumeClaim")
  BY <1>1, SMTT(20) DEF InList, otherRoutes, Route, Leads
<1>3. CASE Leads(route, <<"secrets", "*">>, "deleteSecret")
  BY <1>3, Reached, Plainly
<1>4. CASE Leads(route, <<"volumes", "*">>, "deleteVolumeClaim")
  BY <1>4, Reached, Plainly
<1> QED BY <1>2, <1>3, <1>4

LEMMA GetUserRoutes ==
  ASSUME NEW route, InList(route, userRoutes), NEW path, IsPiece(path), Len(path) > 0,
         Matches(route, "GET", V(path))
  PROVE
    \/ Reaches("listUsers", <<"users">>, route, path)
    \/ Reaches("getUserInfo", <<"users", "*">>, route, path)
    \/ Reaches("listUsergroups", <<"users", "*", "groups">>, route, path)
    \/ Reaches("replaceUserToken", <<"users", "*", "replace_token">>, route, path)
    \/ Reaches("findUser", <<"find_user">>, route, path)
    \/ Reaches("whoAreThey", <<"whoami">>, route, path)
<1>1. route.method = "GET"
  BY DEF Matches
<1>2. \/ Leads(route, <<"users">>, "listUsers")
      \/ Leads(route, <<"users", "*">>, "getUserInfo")
      \/ Leads(route, <<"users", "*", "groups">>, "listUsergroups")
      \/ Leads(route, <<"users", "*", "replace_token">>, "replaceUserToken")
      \/ Leads(route, <<"find_user">>, "findUser")
      \/ Leads(route, <<"whoami">>, "whoAreThey")
  BY <1>1, SMTT(20) DEF InList, userRoutes, Route, Leads
<1>3. CASE Leads(route, <<"users">>, "listUsers")
  BY <1>3, Reached, Plainly
<1>4. CASE Leads(route, <<"users", "*">>, "getUserInfo")
  BY <1>4, Reached, Plainly
<1>5. CASE Leads(route, <<"users", "*", "groups">>, "listUsergroups")
  BY <1>5, Reached, Plainly
<1>6. CASE Leads(route, <<"users", "*", "replace_token">>, "replaceUserToken")
  BY <1>6, Reached, Plainly
<1>7. CASE Leads(route, <<"find_user">>, "findUser")
  BY <1>7, Reached, Plainly
<1>8. CASE Leads(route, <<"whoami">>, "whoAreThey")
  BY <1>8, Reached, Plainly
<1> QED BY <1>2, <1>3, <1>4, <1>5, <1>6, <1>7, <1>8

LEMMA GetClusterRoutes ==
  ASSUME NEW route, InList(route, clusterRoutes), NEW path, IsPiece(path), Len(path) > 0,
         Matches(route, "GET", V(path))
  PROVE
    \/ Reaches("listClusters", <<"clusters">>, route, path)
    \/ Reaches("getClusterInfo", <<"clusters", "*">>, route, path)
    \/ Reaches("pingCluster", <<"clusters", "*", "ping">>, route, path)
    \/ Reaches("verifyCluster", <<"clusters", "*", "verify">>, route, path)
    \/ Reaches("listClusterAllowedgroups", <<"clusters", "*", "allowed_groups">>, route, path)
    \/ Reaches("checkGroupClusterAccess", <<"clusters", "*", "allowed_groups", "*">>, route, path)
    \/ Reaches("listClusterGroupAllowedApplications",
           <<"clusters", "*", "allowed_groups", "*", "applications">>, route, path)
    \/ Reaches("getClusterMonitoringCredential", <<"clusters", "*", "monitoring_credential">>,
           route, path)
<1>1. route.method = "GET"
  BY DEF Matches
<1>2. \/ Leads(route, <<"clusters">>, "listClusters")
      \/ Leads(route, <<"clusters", "*">>, "getClusterInfo")
      \/ Leads(route, <<"clusters", "*", "ping">>, "pingCluster")
      \/ Leads(route, <<"clusters", "*", "verify">>, "verifyCluster")
      \/ Leads(route, <<"clusters", "*", "allowed_groups">>, "listClusterAllowedgroups")
      \/ Leads(route, <<"clusters", "*", "allowed_groups", "*">>, "checkGroupClusterAccess")
      \/ Leads(route, <<"clusters", "*", "allowed_groups", "*", "applications">>,
             "listClusterGroupAllowedApplications")
      \/ Leads(route, <<"clusters", "*", "monitoring_credential">>, "getClusterMonitoringCredential")
  BY <1>1, SMTT(20) DEF InList, clusterRoutes, Route, Leads
<1>3. CASE Leads(route, <<"clusters">>, "listClusters")
  BY <1>3, Reached, Plainly
<1>4. CASE Leads(route, <<"clusters", "*">>, "getClusterInfo")
  BY <1>4, Reached, Plainly
<1>5. CASE Leads(route, <<"clusters", "*", "ping">>, "pingCluster")
  BY <1>5, Reached, Plainly
<1>6. CASE Leads(route, <<"clusters", "*", "verify">>, "verifyCluster")
  BY <1>6, Reached, Plainly
<1>7. CASE Leads(route, <<"clusters", "*", "allowed_groups">>, "listClusterAllowedgroups")
  BY <1>7, Reached, Plainly
<1>8. CASE Leads(route, <<"clusters", "*", "allowed_groups", "*">>, "checkGroupClusterAccess")
  BY <1>8, Reached, Plainly
<1>9. CASE Leads(route, <<"clusters", "*", "allowed_groups", "*", "applications">>,
          "listClusterGroupAllowedApplications")
  BY <1>9, Reached, Plainly
<1>10. CASE Leads(route, <<"clusters", "*", "monitoring_credential">>,
           "getClusterMonitoringCredential")
  BY <1>10, Reached, Plainly
<1> QED BY <1>2, <1>3, <1>4, <1>5, <1>6, <1>7, <1>8, <1>9, <1>10

LEMMA GetCredentialRoutes ==
  ASSUME NEW route, InList(route, credentialRoutes), NEW path, IsPiece(path), Len(path) > 0,
         Matches(route, "GET", V(path))
  PROVE
    \/ Reaches("listMonitoringCredentials", <<"monitoring_credentials">>, route, path)
<1>1. route.method = "GET"
  BY DEF Matches
<1>2. \/ Leads(route, <<"monitoring_credentials">>, "listMonitoringCredentials")
  BY <1>1, SMTT(20) DEF InList, credentialRoutes, Route, Leads
<1>3. CASE Leads(route, <<"monitoring_credentials">>, "listMonitoringCredentials")
  BY <1>3, Reached, Plainly
<1> QED BY <1>2, <1>3

LEMMA GetGroupRoutes ==
  ASSUME NEW route, InList(route, groupRoutes), NEW path, IsPiece(path), Len(path) > 0,
         Matches(route, "GET", V(path))
  PROVE
    \/ Reaches("listGroups", <<"groups">>, route, path)
    \/ Reaches("getGroupInfo", <<"groups", "*">>, route, path)
    \/ Reaches("listGroupMembers", <<"groups", "*", "members">>, route, path)
    \/ Reaches("listGroupClusters", <<"groups", "*", "clusters">>, route, path)
<1>1. route.method = "GET"
  BY DEF Matches
<1>2. \/ Leads(route, <<"groups">>, "listGroups")
      \/ Leads(route, <<"groups", "*">>, "getGroupInfo")
      \/ Leads(route, <<"groups", "*", "members">>, "listGroupMembers")
      \/ Leads(route, <<"groups", "*", "clusters">>, "listGroupClusters")
  BY <1>1, SMTT(20) DEF InList, groupRoutes, Route, Leads
<1>3. CASE Leads(route, <<"groups">>, "listGroups")
  BY <1>3, Reached, Plainly
<1>4. CASE Leads(route, <<"groups", "*">>, "getGroupInfo")
  BY <1>4, Reached, Plainly
<1>5. CASE Leads(route, <<"groups", "*", "members">>, "listGroupMembers")
  BY <1>5, Reached, Plainly
<1>6. CASE Leads(route, <<"groups", "*", "clusters">>, "listGroupClusters")
  BY <1>6, Reached, Plainly
<1> QED BY <1>2, <1>3, <1>4, <1>5, <1>6

LEMMA GetApplicationRoutes ==
  ASSUME NEW route, InList(route, applicationRoutes), NEW path, IsPiece(path), Len(path) > 0,
         Matches(route, "GET", V(path))
  PROVE
    \/ Reaches("listApplications", <<"apps">>, route, path)
    \/ Reaches("fetchApplicationConfig", <<"apps", "*">>, route, path)
    \/ Reaches("fetchApplicationDocumentation", <<"apps", "*", "info">>, route, path)
    \/ Reaches("fetchApplicationVersions", <<"apps", "*", "versions">>, route, path)
<1>1. route.method = "GET"
  BY DEF Matches
<1>2. \/ Leads(route, <<"apps">>, "listApplications")
      \/ Leads(route, <<"apps", "*">>, "fetchApplicationConfig")
      \/ Leads(route, <<"apps", "*", "info">>, "fetchApplicationDocumentation")
      \/ Leads(route, <<"apps", "*", "versions">>, "fetchApplicationVersions")
  BY <1>1, SMTT(20) DEF InList, applicationRoutes, Route, Leads
<1>3. CASE Leads(route, <<"apps">>, "listApplications")
  BY <1>3, Reached, Plainly
<1>4. CASE Leads(route, <<"apps", "*">>, "fetchApplicationConfig")
  BY <1>4, Reached, Plainly
<1>5. CASE Leads(route, <<"apps", "*", "info">>, "fetchApplicationDocumentation")
  BY <1>5, Reached, Plainly
<1>6. CASE Leads(route, <<"apps", "*", "versions">>, "fetchApplicationVersions")
  BY <1>6, Reached, Plainly
<1> QED BY <1>2, <1>3, <1>4, <1>5, <1>6

LEMMA GetInstanceRoutes ==
  ASSUME NEW route, InList(route, instanceRoutes), NEW path, IsPiece(path), Len(path) > 0,
         Matches(route, "GET", V(path))
  PROVE
    \/ Reaches("listApplicationInstances", <<"instances">>, route, path)
    \/ Reaches("fetchApplicationInstanceInfo", <<"instances", "*">>, route, path)
    \/ Reaches("getApplicationInstanceLogs", <<"instances", "*", "logs">>, route, path)
    \/ Reaches("getApplicationInstanceScale", <<"instances", "*", "scale">>, route, path)
<1>1. route.method = "GET"
  BY DEF Matches
<1>2. \/ Leads(route, <<"instances">>, "listApplicationInstances")
      \/ Leads(route, <<"instances", "*">>, "fetchApplicationInstanceInfo")
      \/ Leads(route, <<"instances", "*", "logs">>, "getApplicationInstanceLogs")
      \/ Leads(route, <<"instances", "*", "scale">>, "getApplicationInstanceScale")
  BY <1>1, SMTT(20) DEF InList, instanceRoutes, Route, Leads
<1>3. CASE Leads(route, <<"instances">>, "listApplicationInstances")
  BY <1>3, Reached, Plainly
<1>4. CASE Leads(route, <<"instances", "*">>, "fetchApplicationInstanceInfo")
  BY <1>4, Reached, Plainly
<1>5. CASE Leads(route, <<"instances", "*", "logs">>, "getApplicationInstanceLogs")
  BY <1>5, Reached, Plainly
<1>6. CASE Leads(route, <<"instances", "*", "scale">>, "getApplicationInstanceScale")
  BY <1>6, Reached, Plainly
<1> QED BY <1>2, <1>3, <1>4, <1>5, <1>6

LEMMA GetOtherRoutes ==
  ASSUME NEW route, InList(route, otherRoutes), NEW path, IsPiece(path), Len(path) > 0,
         Matches(route, "GET", V(path))
  PROVE
    \/ Reaches("listSecrets", <<"secrets">>, route, path)
    \/ Reaches("getSecret", <<"secrets", "*">>, route, path)
    \/ Reaches("getStatistics", <<"stats">>, route, path)
    \/ Reaches("listVolumeClaims", <<"volumes">>, route, path)
    \/ Reaches("fetchVolumeClaimInfo", <<"volumes", "*">>, route, path)
    \/ route.handler = "unsupported"
<1>1. route.method = "GET"
  BY DEF Matches
<1>2. \/ Leads(route, <<"secrets">>, "listSecrets")
      \/ Leads(route, <<"secrets", "*">>, "getSecret")
      \/ Leads(route, <<"stats">>, "getStatistics")
      \/ Leads(route, <<"volumes">>, "listVolumeClaims")
      \/ Leads(route, <<"volumes", "*">>, "fetchVolumeClaimInfo")
      \/ route.handler = "unsupported" \/ route.path = <<"version">>
  BY <1>1, SMTT(20) DEF InList, otherRoutes, Route, Leads
<1>3. CASE Leads(route, <<"secrets">>, "listSecrets")
  BY <1>3, Reached, Plainly
<1>4. CASE Leads(route, <<"secrets", "*">>, "getSecret")
  BY <1>4, Reached, Plainly
<1>5. CASE Leads(route, <<"stats">>, "getStatistics")
  BY <1>5, Reached, Plainly
<1>6. CASE Leads(route, <<"volumes">>, "listVolumeClaims")
  BY <1>6, Reached, Plainly
<1>7. CASE Leads(route, <<"volumes", "*">>, "fetchVolumeClaimInfo")
  BY <1>7, Reached, Plainly
<1>8. route.path # <<"version">>
  <2>1. Len(V(path)) # 1
    BY Versioned
  <2>2. Len(<<"version">>) = 1 /\ <<"version">>[1] # "**"
    OBVIOUS
  <2> QED BY <2>1, <2>2 DEF Matches
<1> QED BY <1>2, <1>3, <1>4, <1>5, <1>6, <1>7, <1>8

(* Where the requests of the commands end up.                              *)
ReachedBy(request, handlers) ==
  \A route : IsRoute(route) /\ Matches(route, request.method, request.path)
      => route.handler \in handlers

LEMMA PostsOf1 ==
  ASSUME NEW route, IsRoute(route), NEW u,
         Matches(route, "POST", V(<<u>>))
  PROVE
    \/ route.handler = "multiplex" /\ u = "multiplex"
    \/ route.handler = "createUser" /\ u = "users"
    \/ route.handler = "createCluster" /\ u = "clusters"
    \/ route.handler = "addMonitoringCredential" /\ u = "monitoring_credentials"
    \/ route.handler = "createGroup" /\ u = "groups"
    \/ route.handler = "updateCatalog" /\ u = "update_apps"
    \/ route.handler = "createSecret" /\ u = "secrets"
    \/ route.handler = "createVolumeClaim" /\ u = "volumes"
<1> DEFINE path == <<u>>
<1>1. IsPiece(path) /\ Len(path) > 0 /\ Matches(route, "POST", V(path))
  BY Literals
<1>2. /\ \A a : Fits(<<a>>, path) =>
           /\ a \in {u, "*", "**"}
      /\ \A a, b : ~Fits(<<a, b>>, path)
      /\ \A a, b, c : ~Fits(<<a, b, c>>, path)
      /\ \A a, b, c, d : ~Fits(<<a, b, c, d>>, path)
      /\ \A a, b, c, d, e : ~Fits(<<a, b, c, d, e>>, path)
      /\ \A a, b, c, d, e, f : ~Fits(<<a, b, c, d, e, f>>, path)
  BY DEF Fits
<1> HIDE DEF path
<1>3. CASE InList(route, userRoutes)
  BY <1>1, <1>2, <1>3, PostUserRoutes DEF Reaches
<1>4. CASE InList(route, clusterRoutes)
  BY <1>1, <1>2, <1>4, PostClusterRoutes DEF Reaches
<1>5. CASE InList(route, credentialRoutes)
  BY <1>1, <1>2, <1>5, PostCredentialRoutes DEF Reaches
<1>6. CASE InList(route, groupRoutes)
  BY <1>1, <1>2, <1>6, PostGroupRoutes DEF Reaches
<1>7. CASE InList(route, applicationRoutes)
  BY <1>1, <1>2, <1>7, PostApplicationRoutes DEF Reaches
<1>8. CASE InList(route, instanceRoutes)
  BY <1>8, SMTT(20) DEF Matches, InList, instanceRoutes, Route
<1>9. CASE InList(route, otherRoutes)
  BY <1>1, <1>2, <1>9, PostOtherRoutes DEF Reaches
<1> QED BY <1>3, <1>4, <1>5, <1>6, <1>7, <1>8, <1>9, SomeList

LEMMA PostsOf2 ==
  ASSUME NEW route, IsRoute(route), NEW u, NEW v,
         Matches(route, "POST", V(<<u, v>>))
  PROVE
    \/ route.handler = "installAdHocApplication" /\ u = "apps" /\ v = "ad-hoc"
    \/ route.handler = "installApplication" /\ u = "apps"
<1> DEFINE path == <<u, v>>
<1>1. IsPiece(path) /\ Len(path) > 0 /\ Matches(route, "POST", V(path))
  BY Literals
<1>2. /\ \A a : ~Fits(<<a>>, path)
      /\ \A a, b : Fits(<<a, b>>, path) =>
           /\ a \in {u, "*", "**"} /\ b \in {v, "*", "**"}
      /\ \A a, b, c : ~Fits(<<a, b, c>>, path)
      /\ \A a, b, c, d : ~Fits(<<a, b, c, d>>, path)
      /\ \A a, b, c, d, e : ~Fits(<<a, b, c, d, e>>, path)
      /\ \A a, b, c, d, e, f : ~Fits(<<a, b, c, d, e, f>>, path)
  BY DEF Fits
<1> HIDE DEF path
<1>3. CASE InList(route, userRoutes)
  BY <1>1, <1>2, <1>3, PostUserRoutes DEF Reaches
<1>4. CASE InList(route, clusterRoutes)
  BY <1>1, <1>2, <1>4, PostClusterRoutes DEF Reaches
<1>5. CASE InList(route, credentialRoutes)
  BY <1>1, <1>2, <1>5, PostCredentialRoutes DEF Reaches
<1>6. CASE InList(route, groupRoutes)
  BY <1>1, <1>2, <1>6, PostGroupRoutes DEF Reaches
<1>7. CASE InList(route, applicationRoutes)
  BY <1>1, <1>2, <1>7, PostApplicationRoutes DEF Reaches
<1>8. CASE InList(route, instanceRoutes)
  BY <1>8, SMTT(20) DEF Matches, InList, instanceRoutes, Route
<1>9. CASE InList(route, otherRoutes)
  BY <1>1, <1>2, <1>9, PostOtherRoutes DEF Reaches
<1> QED BY <1>3, <1>4, <1>5, <1>6, <1>7, <1>8, <1>9, SomeList

LEMMA PutsOf2 ==
  ASSUME NEW route, IsRoute(route), NEW u, NEW v,
         Matches(route, "PUT", V(<<u, v>>))
  PROVE
    \/ route.handler = "updateUser" /\ u = "users"
    \/ route.handler = "updateCluster" /\ u = "clusters"
    \/ route.handler = "updateGroup" /\ u = "groups"
<1> DEFINE path == <<u, v>>
<1>1. IsPiece(path) /\ Len(path) > 0 /\ Matches(route, "PUT", V(path))
  BY Literals
<1>2. /\ \A a : ~Fits(<<a>>, path)
      /\ \A a, b : Fits(<<a, b>>, path) =>
           /\ a \in {u, "*", "**"} /\ b \in {v, "*", "**"}
      /\ \A a, b, c : ~Fits(<<a, b, c>>, path)
      /\ \A a, b, c, d : ~Fits(<<a, b, c, d>>, path)
      /\ \A a, b, c, d, e : ~Fits(<<a, b, c, d, e>>, path)
      /\ \A a, b, c, d, e, f : ~Fits(<<a, b, c, d, e, f>>, path)
  BY DEF Fits
<1> HIDE DEF path
<1>3. CASE InList(route, userRoutes)
  BY <1>1, <1>2, <1>3, PutUserRoutes DEF Reaches
<1>4. CASE InList(route, clusterRoutes)
  BY <1>1, <1>2, <1>4, PutClusterRoutes DEF Reaches
<1>5. CASE InList(route, credentialRoutes)
  BY <1>1, <1>2, <1>5, PutCredentialRoutes DEF Reaches
<1>6. CASE InList(route, groupRoutes)
  BY <1>1, <1>2, <1>6, PutGroupRoutes DEF Reaches
<1>7. CASE InList(route, applicationRoutes)
  BY <1>7, SMTT(20) DEF Matches, InList, applicationRoutes, Route
<1>8. CASE InList(route, instanceRoutes)
  BY <1>1, <1>2, <1>8, PutInstanceRoutes DEF Reaches
<1>9. CASE InList(route, otherRoutes)
  BY <1>9, SMTT(20) DEF Matches, InList, otherRoutes, Route
<1> QED BY <1>3, <1>4, <1>5, <1>6, <1>7, <1>8, <1>9, SomeList

LEMMA PutsOf4 ==
  ASSUME NEW route, IsRoute(route), NEW u, NEW v, NEW w, NEW x,
         Matches(route, "PUT", V(<<u, v, w, x>>))
  PROVE
    \/ route.handler = "addUserToGroup" /\ u = "users" /\ w = "groups"
    \/ route.handler = "grantGroupClusterAccess" /\ u = "clusters" /\ w = "allowed_groups"
<1> DEFINE path == <<u, v, w, x>>
<1>1. IsPiece(path) /\ Len(path) > 0 /\ Matches(route, "PUT", V(path))
  BY Literals
<1>2. /\ \A a : ~Fits(<<a>>, path)
      /\ \A a, b : ~Fits(<<a, b>>, path)
      /\ \A a, b, c : ~Fits(<<a, b, c>>, path)
      /\ \A a, b, c, d : Fits(<<a, b, c, d>>, path) =>
           /\ a \in {u, "*", "**"} /\ b \in {v, "*", "**"} /\ c \in {w, "*", "**"}
           /\ d \in {x, "*", "**"}
      /\ \A a, b, c, d, e : ~Fits(<<a, b, c, d, e>>, path)
      /\ \A a, b, c, d, e, f : ~Fits(<<a, b, c, d, e, f>>, path)
  BY DEF Fits
<1> HIDE DEF path
<1>3. CASE InList(route, userRoutes)
  BY <1>1, <1>2, <1>3, PutUserRoutes DEF Reaches
<1>4. CASE InList(route, clusterRoutes)
  BY <1>1, <1>2, <1>4, PutClusterRoutes DEF Reaches
<1>5. CASE InList(route, credentialRoutes)
  BY <1>1, <1>2, <1>5, PutCredentialRoutes DEF Reaches
<1>6. CASE InList(route, groupRoutes)
  BY <1>1, <1>2, <1>6, PutGroupRoutes DEF Reaches
<1>7. CASE InList(route, applicationRoutes)
  BY <1>7, SMTT(20) DEF Matches, InList, applicationRoutes, Route
<1>8. CASE InList(route, instanceRoutes)
  BY <1>1, <1>2, <1>8, PutInstanceRoutes DEF Reaches
<1>9. CASE InList(route, otherRoutes)
  BY <1>9, SMTT(20) DEF Matches, InList, otherRoutes, Route
<1> QED BY <1>3, <1>4, <1>5, <1>6, <1>7, <1>8, <1>9, SomeList

LEMMA PutsOf6 ==
  ASSUME NEW route, IsRoute(route), NEW u, NEW v, NEW w, NEW x, NEW y, NEW z,
         Matches(route, "PUT", V(<<u, v, w, x, y, z>>))
  PROVE
    \/ route.handler = "allowGroupUseOfApplication" /\ u = "clusters" /\ w = "allowed_groups"
           /\ y = "applications"
<1> DEFINE path == <<u, v, w, x, y, z>>
<1>1. IsPiece(path) /\ Len(path) > 0 /\ Matches(route, "PUT", V(path))
  BY Literals
<1>2. /\ \A a : ~Fits(<<a>>, path)
      /\ \A a, b : ~Fits(<<a, b>>, path)
      /\ \A a, b, c : ~Fits(<<a, b, c>>, path)
      /\ \A a, b, c, d : ~Fits(<<a, b, c, d>>, path)
      /\ \A a, b, c, d, e : ~Fits(<<a, b, c, d, e>>, path)
      /\ \A a, b, c, d, e, f : Fits(<<a, b, c, d, e, f>>, path) =>
           /\ a \in {u, "*", "**"} /\ b \in {v, "*", "**"} /\ c \in {w, "*", "**"}
           /\ d \in {x, "*", "**"} /\ e \in {y, "*", "**"} /\ f \in {z, "*", "**"}
  BY DEF Fits
<1> HIDE DEF path
<1>3. CASE InList(route, userRoutes)
  <2>1. \/ Reaches("updateUser", <<"users", "*">>, route, path)
        \/ Reaches("addUserToGroup", <<"users", "*", "groups", "*">>, route, path)
    BY <1>1, <1>3, PutUserRoutes
  <2> QED BY <1>2, <2>1, SMTT(60) DEF Reaches
<1>4. CASE InList(route, clusterRoutes)
  <2>1. \/ Reaches("updateCluster", <<"clusters", "*">>, route, path)
        \/ Reaches("grantGroupClusterAccess", <<"clusters", "*", "allowed_groups", "*">>, route, path)
        \/ Reaches("allowGroupUseOfApplication",
               <<"clusters", "*", "allowed_groups", "*", "applications", "*">>, route, path)
    BY <1>1, <1>4, PutClusterRoutes
  <2> QED BY <1>2, <2>1, SMTT(60) DEF Reaches
<1>5. CASE InList(route, credentialRoutes)
  <2>1. \/ Reaches("revokeMonitoringCredential", <<"monitoring_credentials", "*", "revoke">>,
               route, path)
    BY <1>1, <1>5, PutCredentialRoutes
  <2> QED BY <1>2, <2>1, SMTT(60) DEF Reaches
<1>6. CASE InList(route, groupRoutes)
  <2>1. \/ Reaches("updateGroup", <<"groups", "*">>, route, path)
    BY <1>1, <1>6, PutGroupRoutes
  <2> QED BY <1>2, <2>1, SMTT(60) DEF Reaches
<1>7. CASE InList(route, applicationRoutes)
  BY <1>7, SMTT(20) DEF Matches, InList, applicationRoutes, Route
<1>8. CASE InList(route, instanceRoutes)
  <2>1. \/ Reaches("restartApplicationInstance", <<"instances", "*", "restart">>, route, path)
        \/ Reaches("scaleApplicationInstance", <<"instances", "*", "scale">>, route, path)
        \/ Reaches("updateApplicationInstance", <<"instances", "*", "update">>, route, path)
    BY <1>1, <1>8, PutInstanceRoutes
  <2> QED BY <1>2, <2>1, SMTT(60) DEF Reaches
<1>9. CASE InList(route, otherRoutes)
  BY <1>9, SMTT(20) DEF Matches, InList, otherRoutes, Route
<1> QED BY <1>3, <1>4, <1>5, <1>6, <1>7, <1>8, <1>9, SomeList

LEMMA PutsOf3 ==
  ASSUME NEW route, IsRoute(route), NEW u, NEW v, NEW w,
         Matches(route, "PUT", V(<<u, v, w>>))
  PROVE
    \/ route.handler = "revokeMonitoringCredential" /\ u = "monitoring_credentials" /\ w = "revoke"
    \/ route.handler = "restartApplicationInstance" /\ u = "instances" /\ w = "restart"
    \/ route.handler = "scaleApplicationInstance" /\ u = "instances" /\ w = "scale"
    \/ route.handler = "updateApplicationInstance" /\ u = "instances" /\ w = "update"
<1> DEFINE path == <<u, v, w>>
<1>1. IsPiece(path) /\ Len(path) > 0 /\ Matches(route, "PUT", V(path))
  BY Literals
<1>2. /\ \A a : ~Fits(<<a>>, path)
      /\ \A a, b : ~Fits(<<a, b>>, path)
      /\ \A a, b, c : Fits(<<a, b, c>>, path) =>
           /\ a \in {u, "*", "**"} /\ b \in {v, "*", "**"} /\ c \in {w, "*", "**"}
      /\ \A a, b, c, d : ~Fits(<<a, b, c, d>>, path)
      /\ \A a, b, c, d, e : ~Fits(<<a, b, c, d, e>>, path)
      /\ \A a, b, c, d, e, f : ~Fits(<<a, b, c, d, e, f>>, path)
  BY DEF Fits
<1> HIDE DEF path
<1>3. CASE InList(route, userRoutes)
  BY <1>1, <1>2, <1>3, PutUserRoutes DEF Reaches
<1>4. CASE InList(route, clusterRoutes)
  BY <1>1, <1>2, <1>4, PutClusterRoutes DEF Reaches
<1>5. CASE InList(route, credentialRoutes)
  BY <1>1, <1>2, <1>5, PutCredentialRoutes DEF Reaches
<1>6. CASE InList(route, groupRoutes)
  BY <1>1, <1>2, <1>6, PutGroupRoutes DEF Reaches
<1>7. CASE InList(route, applicationRoutes)
  BY <1>7, SMTT(20) DEF Matches, InList, applicationRoutes, Route
<1>8. CASE InList(route, instanceRoutes)
  BY <1>1, <1>2, <1>8, PutInstanceRoutes DEF Reaches
<1>9. CASE InList(route, otherRoutes)
  BY <1>9, SMTT(20) DEF Matches, InList, otherRoutes, Route
<1> QED BY <1>3, <1>4, <1>5, <1>6, <1>7, <1>8, <1>9, SomeList

LEMMA DeletesOf2 ==
  ASSUME NEW route, IsRoute(route), NEW u, NEW v,
         Matches(route, "DELETE", V(<<u, v>>))
  PROVE
    \/ route.handler = "deleteUser" /\ u = "users"
    \/ route.handler = "deleteCluster" /\ u = "clusters"
    \/ route.handler = "deleteMonitoringCredential" /\ u = "monitoring_credentials"
    \/ route.handler = "deleteGroup" /\ u = "groups"
    \/ route.handler = "deleteApplicationInstance" /\ u = "instances"
    \/ route.handler = "deleteSecret" /\ u = "secrets"
    \/ route.handler = "deleteVolumeClaim" /\ u = "volumes"
<1> DEFINE path == <<u, v>>
<1>1. IsPiece(path) /\ Len(path) > 0 /\ Matches(route, "DELETE", V(path))
  BY Literals
<1>2. /\ \A a : ~Fits(<<a>>, path)
      /\ \A a, b : Fits(<<a, b>>, path) =>
           /\ a \in {u, "*", "**"} /\ b \in {v, "*", "**"}
      /\ \A a, b, c : ~Fits(<<a, b, c>>, path)
      /\ \A a, b, c, d : ~Fits(<<a, b, c, d>>, path)
      /\ \A a, b, c, d, e : ~Fits(<<a, b, c, d, e>>, path)
      /\ \A a, b, c, d, e, f : ~Fits(<<a, b, c, d, e, f>>, path)
  BY DEF Fits
<1> HIDE DEF path
<1>3. CASE InList(route, userRoutes)
  BY <1>1, <1>2, <1>3, DeleteUserRoutes DEF Reaches
<1>4. CASE InList(route, clusterRoutes)
  BY <1>1, <1>2, <1>4, DeleteClusterRoutes DEF Reaches
<1>5. CASE InList(route, credentialRoutes)
  BY <1>1, <1>2, <1>5, DeleteCredentialRoutes DEF Reaches
<1>6. CASE InList(route, groupRoutes)
  BY <1>1, <1>2, <1>6, DeleteGroupRoutes DEF Reaches
<1>7. CASE InList(route, applicationRoutes)
  BY <1>7, SMTT(20) DEF Matches, InList, applicationRoutes, Route
<1>8. CASE InList(route, instanceRoutes)
  BY <1>1, <1>2, <1>8, DeleteInstanceRoutes DEF Reaches
<1>9. CASE InList(route, otherRoutes)
  BY <1>1, <1>2, <1>9, DeleteOtherRoutes DEF Reaches
<1> QED BY <1>3, <1>4, <1>5, <1>6, <1>7, <1>8, <1>9, SomeList

LEMMA DeletesOf4 ==
  ASSUME NEW route, IsRoute(route), NEW u, NEW v, NEW w, NEW x,
         Matches(route, "DELETE", V(<<u, v, w, x>>))
  PROVE
    \/ route.handler = "removeUserFromGroup" /\ u = "users" /\ w = "groups"
    \/ route.handler = "revokeGroupClusterAccess" /\ u = "clusters" /\ w = "allowed_groups"
<1> DEFINE path == <<u, v, w, x>>
<1>1. IsPiece(path) /\ Len(path) > 0 /\ Matches(route, "DELETE", V(path))
  BY Literals
<1>2. /\ \A a : ~Fits(<<a>>, path)
      /\ \A a, b : ~Fits(<<a, b>>, path)
      /\ \A a, b, c : ~Fits(<<a, b, c>>, path)
      /\ \A a, b, c, d : Fits(<<a, b, c, d>>, path) =>
           /\ a \in {u, "*", "**"} /\ b \in {v, "*", "**"} /\ c \in {w, "*", "**"}
           /\ d \in {x, "*", "**"}
      /\ \A a, b, c, d, e : ~Fits(<<a, b, c, d, e>>, path)
      /\ \A a, b, c, d, e, f : ~Fits(<<a, b, c, d, e, f>>, path)
  BY DEF Fits
<1> HIDE DEF path
<1>3. CASE InList(route, userRoutes)
  BY <1>1, <1>2, <1>3, DeleteUserRoutes DEF Reaches
<1>4. CASE InList(route, clusterRoutes)
  BY <1>1, <1>2, <1>4, DeleteClusterRoutes DEF Reaches
<1>5. CASE InList(route, credentialRoutes)
  BY <1>1, <1>2, <1>5, DeleteCredentialRoutes DEF Reaches
<1>6. CASE InList(route, groupRoutes)
  BY <1>1, <1>2, <1>6, DeleteGroupRoutes DEF Reaches
<1>7. CASE InList(route, applicationRoutes)
  BY <1>7, SMTT(20) DEF Matches, InList, applicationRoutes, Route
<1>8. CASE InList(route, instanceRoutes)
  BY <1>1, <1>2, <1>8, DeleteInstanceRoutes DEF Reaches
<1>9. CASE InList(route, otherRoutes)
  BY <1>1, <1>2, <1>9, DeleteOtherRoutes DEF Reaches
<1> QED BY <1>3, <1>4, <1>5, <1>6, <1>7, <1>8, <1>9, SomeList

LEMMA DeletesOf6 ==
  ASSUME NEW route, IsRoute(route), NEW u, NEW v, NEW w, NEW x, NEW y, NEW z,
         Matches(route, "DELETE", V(<<u, v, w, x, y, z>>))
  PROVE
    \/ route.handler = "denyGroupUseOfApplication" /\ u = "clusters" /\ w = "allowed_groups"
           /\ y = "applications"
<1> DEFINE path == <<u, v, w, x, y, z>>
<1>1. IsPiece(path) /\ Len(path) > 0 /\ Matches(route, "DELETE", V(path))
  BY Literals
<1>2. /\ \A a : ~Fits(<<a>>, path)
      /\ \A a, b : ~Fits(<<a, b>>, path)
      /\ \A a, b, c : ~Fits(<<a, b, c>>, path)
      /\ \A a, b, c, d : ~Fits(<<a, b, c, d>>, path)
      /\ \A a, b, c, d, e : ~Fits(<<a, b, c, d, e>>, path)
      /\ \A a, b, c, d, e, f : Fits(<<a, b, c, d, e, f>>, path) =>
           /\ a \in {u, "*", "**"} /\ b \in {v, "*", "**"} /\ c \in {w, "*", "**"}
           /\ d \in {x, "*", "**"} /\ e \in {y, "*", "**"} /\ f \in {z, "*", "**"}
  BY DEF Fits
<1> HIDE DEF path
<1>3. CASE InList(route, userRoutes)
  <2>1. \/ Reaches("deleteUser", <<"users", "*">>, route, path)
        \/ Reaches("removeUserFromGroup", <<"users", "*", "groups", "*">>, route, path)
    BY <1>1, <1>3, DeleteUserRoutes
  <2> QED BY <1>2, <2>1, SMTT(60) DEF Reaches
<1>4. CASE InList(route, clusterRoutes)
  <2>1. \/ Reaches("deleteCluster", <<"clusters", "*">>, route, path)
        \/ Reaches("revokeGroupClusterAccess", <<"clusters", "*", "allowed_groups", "*">>, route,
               path)
        \/ Reaches("denyGroupUseOfApplication",
               <<"clusters", "*", "allowed_groups", "*", "applications", "*">>, route, path)
        \/ Reaches("removeClusterMonitoringCredential",
               <<"clusters", "*", "monitoring_credential">>, route, path)
    BY <1>1, <1>4, DeleteClusterRoutes
  <2> QED BY <1>2, <2>1, SMTT(60) DEF Reaches
<1>5. CASE InList(route, credentialRoutes)
  <2>1. \/ Reaches("deleteMonitoringCredential", <<"monitoring_credentials", "*">>, route, path)
    BY <1>1, <1>5, DeleteCredentialRoutes
  <2> QED BY <1>2, <2>1, SMTT(60) DEF Reaches
<1>6. CASE InList(route, groupRoutes)
  <2>1. \/ Reaches("deleteGroup", <<"groups", "*">>, route, path)
    BY <1>1, <1>6, DeleteGroupRoutes
  <2> QED BY <1>2, <2>1, SMTT(60) DEF Reaches
<1>7. CASE InList(route, applicationRoutes)
  BY <1>7, SMTT(20) DEF Matches, InList, applicationRoutes, Route
<1>8. CASE InList(route, instanceRoutes)
  <2>1. \/ Reaches("deleteApplicationInstance", <<"instances", "*">>, route, path)
    BY <1>1, <1>8, DeleteInstanceRoutes
  <2> QED BY <1>2, <2>1, SMTT(60) DEF Reaches
<1>9. CASE InList(route, otherRoutes)
  <2>1. \/ Reaches("deleteSecret", <<"secrets", "*">>, route, path)
        \/ Reaches("deleteVolumeClaim", <<"volumes", "*">>, route, path)
    BY <1>1, <1>9, DeleteOtherRoutes
  <2> QED BY <1>2, <2>1, SMTT(60) DEF Reaches
<1> QED BY <1>3, <1>4, <1>5, <1>6, <1>7, <1>8, <1>9, SomeList

LEMMA GetsOf1 ==
  ASSUME NEW route, IsRoute(route), NEW u,
         Matches(route, "GET", V(<<u>>))
  PROVE
    \/ route.handler = "listUsers" /\ u = "users"
    \/ route.handler = "findUser" /\ u = "find_user"
    \/ route.handler = "whoAreThey" /\ u = "whoami"
    \/ route.handler = "listClusters" /\ u = "clusters"
    \/ route.handler = "listMonitoringCredentials" /\ u = "monitoring_credentials"
    \/ route.handler = "listGroups" /\ u = "groups"
    \/ route.handler = "listApplications" /\ u = "apps"
    \/ route.handler = "listApplicationInstances" /\ u = "instances"
    \/ route.handler = "listSecrets" /\ u = "secrets"
    \/ route.handler = "getStatistics" /\ u = "stats"
    \/ route.handler = "listVolumeClaims" /\ u = "volumes"
    \/ route.handler = "unsupported"
<1> DEFINE path == <<u>>
<1>1. IsPiece(path) /\ Len(path) > 0 /\ Matches(route, "GET", V(path))
  BY Literals
<1>2. /\ \A a : Fits(<<a>>, path) =>
           /\ a \in {u, "*", "**"}
      /\ \A a, b : ~Fits(<<a, b>>, path)
      /\ \A a, b, c : ~Fits(<<a, b, c>>, path)
      /\ \A a, b, c, d : ~Fits(<<a, b, c, d>>, path)
      /\ \A a, b, c, d, e : ~Fits(<<a, b, c, d, e>>, path)
      /\ \A a, b, c, d, e, f : ~Fits(<<a, b, c, d, e, f>>, path)
  BY DEF Fits
<1> HIDE DEF path
<1>3. CASE InList(route, userRoutes)
  BY <1>1, <1>2, <1>3, GetUserRoutes DEF Reaches
<1>4. CASE InList(route, clusterRoutes)
  BY <1>1, <1>2, <1>4, GetClusterRoutes DEF Reaches
<1>5. CASE InList(route, credentialRoutes)
  BY <1>1, <1>2, <1>5, GetCredentialRoutes DEF Reaches
<1>6. CASE InList(route, groupRoutes)
  BY <1>1, <1>2, <1>6, GetGroupRoutes DEF Reaches
<1>7. CASE InList(route, applicationRoutes)
  BY <1>1, <1>2, <1>7, GetApplicationRoutes DEF Reaches
<1>8. CASE InList(route, instanceRoutes)
  BY <1>1, <1>2, <1>8, GetInstanceRoutes DEF Reaches
<1>9. CASE InList(route, otherRoutes)
  BY <1>1, <1>2, <1>9, GetOtherRoutes DEF Reaches
<1> QED BY <1>3, <1>4, <1>5, <1>6, <1>7, <1>8, <1>9, SomeList

LEMMA GetsOf2 ==
  ASSUME NEW route, IsRoute(route), NEW u, NEW v,
         Matches(route, "GET", V(<<u, v>>))
  PROVE
    \/ route.handler = "getUserInfo" /\ u = "users"
    \/ route.handler = "getClusterInfo" /\ u = "clusters"
    \/ route.handler = "getGroupInfo" /\ u = "groups"
    \/ route.handler = "fetchApplicationConfig" /\ u = "apps"
    \/ route.handler = "fetchApplicationInstanceInfo" /\ u = "instances"
    \/ route.handler = "getSecret" /\ u = "secrets"
    \/ route.handler = "fetchVolumeClaimInfo" /\ u = "volumes"
    \/ route.handler = "unsupported"
<1> DEFINE path == <<u, v>>
<1>1. IsPiece(path) /\ Len(path) > 0 /\ Matches(route, "GET", V(path))
  BY Literals
<1>2. /\ \A a : ~Fits(<<a>>, path)
      /\ \A a, b : Fits(<<a, b>>, path) =>
           /\ a \in {u, "*", "**"} /\ b \in {v, "*", "**"}
      /\ \A a, b, c : ~Fits(<<a, b, c>>, path)
      /\ \A a, b, c, d : ~Fits(<<a, b, c, d>>, path)
      /\ \A a, b, c, d, e : ~Fits(<<a, b, c, d, e>>, path)
      /\ \A a, b, c, d, e, f : ~Fits(<<a, b, c, d, e, f>>, path)
  BY DEF Fits
<1> HIDE DEF path
<1>3. CASE InList(route, userRoutes)
  BY <1>1, <1>2, <1>3, GetUserRoutes DEF Reaches
<1>4. CASE InList(route, clusterRoutes)
  BY <1>1, <1>2, <1>4, GetClusterRoutes DEF Reaches
<1>5. CASE InList(route, credentialRoutes)
  BY <1>1, <1>2, <1>5, GetCredentialRoutes DEF Reaches
<1>6. CASE InList(route, groupRoutes)
  BY <1>1, <1>2, <1>6, GetGroupRoutes DEF Reaches
<1>7. CASE InList(route, applicationRoutes)
  BY <1>1, <1>2, <1>7, GetApplicationRoutes DEF Reaches
<1>8. CASE InList(route, instanceRoutes)
  BY <1>1, <1>2, <1>8, GetInstanceRoutes DEF Reaches
<1>9. CASE InList(route, otherRoutes)
  BY <1>1, <1>2, <1>9, GetOtherRoutes DEF Reaches
<1> QED BY <1>3, <1>4, <1>5, <1>6, <1>7, <1>8, <1>9, SomeList

LEMMA GetsOf3 ==
  ASSUME NEW route, IsRoute(route), NEW u, NEW v, NEW w,
         Matches(route, "GET", V(<<u, v, w>>))
  PROVE
    \/ route.handler = "listUsergroups" /\ u = "users" /\ w = "groups"
    \/ route.handler = "replaceUserToken" /\ u = "users" /\ w = "replace_token"
    \/ route.handler = "pingCluster" /\ u = "clusters" /\ w = "ping"
    \/ route.handler = "verifyCluster" /\ u = "clusters" /\ w = "verify"
    \/ route.handler = "listClusterAllowedgroups" /\ u = "clusters" /\ w = "allowed_groups"
    \/ route.handler = "getClusterMonitoringCredential" /\ u = "clusters"
           /\ w = "monitoring_credential"
    \/ route.handler = "listGroupMembers" /\ u = "groups" /\ w = "members"
    \/ route.handler = "listGroupClusters" /\ u = "groups" /\ w = "clusters"
    \/ route.handler = "fetchApplicationDocumentation" /\ u = "apps" /\ w = "info"
    \/ route.handler = "fetchApplicationVersions" /\ u = "apps" /\ w = "versions"
    \/ route.handler = "getApplicationInstanceLogs" /\ u = "instances" /\ w = "logs"
    \/ route.handler = "getApplicationInstanceScale" /\ u = "instances" /\ w = "scale"
    \/ route.handler = "unsupported"
<1> DEFINE path == <<u, v, w>>
<1>1. IsPiece(path) /\ Len(path) > 0 /\ Matches(route, "GET", V(path))
  BY Literals
<1>2. /\ \A a : ~Fits(<<a>>, path)
      /\ \A a, b : ~Fits(<<a, b>>, path)
      /\ \A a, b, c : Fits(<<a, b, c>>, path) =>
           /\ a \in {u, "*", "**"} /\ b \in {v, "*", "**"} /\ c \in {w, "*", "**"}
      /\ \A a, b, c, d : ~Fits(<<a, b, c, d>>, path)
      /\ \A a, b, c, d, e : ~Fits(<<a, b, c, d, e>>, path)
      /\ \A a, b, c, d, e, f : ~Fits(<<a, b, c, d, e, f>>, path)
  BY DEF Fits
<1> HIDE DEF path
<1>3. CASE InList(route, userRoutes)
  BY <1>1, <1>2, <1>3, GetUserRoutes DEF Reaches
<1>4. CASE InList(route, clusterRoutes)
  BY <1>1, <1>2, <1>4, GetClusterRoutes DEF Reaches
<1>5. CASE InList(route, credentialRoutes)
  BY <1>1, <1>2, <1>5, GetCredentialRoutes DEF Reaches
<1>6. CASE InList(route, groupRoutes)
  BY <1>1, <1>2, <1>6, GetGroupRoutes DEF Reaches
<1>7. CASE InList(route, applicationRoutes)
  BY <1>1, <1>2, <1>7, GetApplicationRoutes DEF Reaches
<1>8. CASE InList(route, instanceRoutes)
  BY <1>1, <1>2, <1>8, GetInstanceRoutes DEF Reaches
<1>9. CASE InList(route, otherRoutes)
  BY <1>1, <1>2, <1>9, GetOtherRoutes DEF Reaches
<1> QED BY <1>3, <1>4, <1>5, <1>6, <1>7, <1>8, <1>9, SomeList

LEMMA PostTargets ==
  /\ ReachedBy(Url("POST", <<"groups">>), {"createGroup"})
  /\ ReachedBy(Url("POST", <<"users">>), {"createUser"})
  /\ ReachedBy(Url("POST", <<"clusters">>), {"createCluster"})
  /\ ReachedBy(Url("POST", <<"apps", "x">>), {"installApplication"})
  /\ ReachedBy(Url("POST", <<"apps", "ad-hoc">>),
               {"installAdHocApplication", "installApplication"})
  /\ ReachedBy(Url("POST", <<"secrets">>), {"createSecret"})
  /\ ReachedBy(Url("POST", <<"volumes">>), {"createVolumeClaim"})
<1>1. ReachedBy(Url("POST", <<"groups">>), {"createGroup"})
  <2> SUFFICES ASSUME NEW route, IsRoute(route),
                      Matches(route, "POST", V(<<"groups">>))
               PROVE  route.handler \in {"createGroup"}
    BY DEF ReachedBy, Url
  <2> QED BY PostsOf1
<1>2. ReachedBy(Url("POST", <<"users">>), {"createUser"})
  <2> SUFFICES ASSUME NEW route, IsRoute(route),
                      Matches(route, "POST", V(<<"users">>))
               PROVE  route.handler \in {"createUser"}
    BY DEF ReachedBy, Url
  <2> QED BY PostsOf1
<1>3. ReachedBy(Url("POST", <<"clusters">>), {"createCluster"})
  <2> SUFFICES ASSUME NEW route, IsRoute(route),
                      Matches(route, "POST", V(<<"clusters">>))
               PROVE  route.handler \in {"createCluster"}
    BY DEF ReachedBy, Url
  <2> QED BY PostsOf1
<1>4. ReachedBy(Url("POST", <<"apps", "x">>), {"installApplication"})
  <2> SUFFICES ASSUME NEW route, IsRoute(route),
                      Matches(route, "POST", V(<<"apps", "x">>))
               PROVE  route.handler \in {"installApplication"}
    BY DEF ReachedBy, Url
  <2> QED BY PostsOf2
<1>5. ReachedBy(Url("POST", <<"apps", "ad-hoc">>),
                 {"installAdHocApplication", "installApplication"})
  <2> SUFFICES ASSUME NEW route, IsRoute(route),
                      Matches(route, "POST", V(<<"apps", "ad-hoc">>))
               PROVE  route.handler \in {"installAdHocApplication", "installApplication"}
    BY DEF ReachedBy, Url
  <2> QED BY PostsOf2
<1>6. ReachedBy(Url("POST", <<"secrets">>), {"createSecret"})
  <2> SUFFICES ASSUME NEW route, IsRoute(route),
                      Matches(route, "POST", V(<<"secrets">>))
               PROVE  route.handler \in {"createSecret"}
    BY DEF ReachedBy, Url
  <2> QED BY PostsOf1
<1>7. ReachedBy(Url("POST", <<"volumes">>), {"createVolumeClaim"})
  <2> SUFFICES ASSUME NEW route, IsRoute(route),
                      Matches(route, "POST", V(<<"volumes">>))
               PROVE  route.handler \in {"createVolumeClaim"}
    BY DEF ReachedBy, Url
  <2> QED BY PostsOf1
<1> QED BY <1>1, <1>2, <1>3, <1>4, <1>5, <1>6, <1>7

LEMMA PutTargets ==
  /\ ReachedBy(Url("PUT", <<"groups", "x">>), {"updateGroup"})
  /\ ReachedBy(Url("PUT", <<"users", "x">>), {"updateUser"})
  /\ ReachedBy(Url("PUT", <<"users", "x", "groups", "x">>), {"addUserToGroup"})
  /\ ReachedBy(Url("PUT", <<"clusters", "x", "allowed_groups", "x", "applications", "x">>),
               {"allowGroupUseOfApplication"})
  /\ ReachedBy(Url("PUT", <<"instances", "x", "restart">>), {"restartApplicationInstance"})
  /\ ReachedBy(Url("PUT", <<"instances", "x", "update">>), {"updateApplicationInstance"})
<1>1. ReachedBy(Url("PUT", <<"groups", "x">>), {"updateGroup"})
  <2> SUFFICES ASSUME NEW route, IsRoute(route),
                      Matches(route, "PUT", V(<<"groups", "x">>))
               PROVE  route.handler \in {"updateGroup"}
    BY DEF ReachedBy, Url
  <2> QED BY PutsOf2
<1>2. ReachedBy(Url("PUT", <<"users", "x">>), {"updateUser"})
  <2> SUFFICES ASSUME NEW route, IsRoute(route),
                      Matches(route, "PUT", V(<<"users", "x">>))
               PROVE  route.handler \in {"updateUser"}
    BY DEF ReachedBy, Url
  <2> QED BY PutsOf2
<1>3. ReachedBy(Url("PUT", <<"users", "x", "groups", "x">>), {"addUserToGroup"})
  <2> SUFFICES ASSUME NEW route, IsRoute(route),
                      Matches(route, "PUT", V(<<"users", "x", "groups", "x">>))
               PROVE  route.handler \in {"addUserToGroup"}
    BY DEF ReachedBy, Url
  <2> QED BY PutsOf4
<1>4. ReachedBy(Url("PUT", <<"clusters", "x", "allowed_groups", "x", "applications", "x">>),
                 {"allowGroupUseOfApplication"})
  <2> SUFFICES ASSUME NEW route, IsRoute(route),
                      Matches(route, "PUT", V(<<"clusters", "x", "allowed_groups", "x",
                          "applications", "x">>))
               PROVE  route.handler \in {"allowGroupUseOfApplication"}
    BY DEF ReachedBy, Url
  <2> QED BY PutsOf6
<1>5. ReachedBy(Url("PUT", <<"instances", "x", "restart">>), {"restartApplicationInstance"})
  <2> SUFFICES ASSUME NEW route, IsRoute(route),
                      Matches(route, "PUT", V(<<"instances", "x", "restart">>))
               PROVE  route.handler \in {"restartApplicationInstance"}
    BY DEF ReachedBy, Url
  <2> QED BY PutsOf3
<1>6. ReachedBy(Url("PUT", <<"instances", "x", "update">>), {"updateApplicationInstance"})
  <2> SUFFICES ASSUME NEW route, IsRoute(route),
                      Matches(route, "PUT", V(<<"instances", "x", "update">>))
               PROVE  route.handler \in {"updateApplicationInstance"}
    BY DEF ReachedBy, Url
  <2> QED BY PutsOf3
<1> QED BY <1>1, <1>2, <1>3, <1>4, <1>5, <1>6

LEMMA DeleteTargets ==
  /\ ReachedBy(Url("DELETE", <<"groups", "x">>), {"deleteGroup"})
  /\ ReachedBy(Url("DELETE", <<"users", "x">>), {"deleteUser"})
  /\ ReachedBy(Url("DELETE", <<"users", "x", "groups", "x">>), {"removeUserFromGroup"})
  /\ ReachedBy(Url("DELETE", <<"clusters", "x">>), {"deleteCluster"})
  /\ ReachedBy(Url("DELETE", <<"clusters", "x", "allowed_groups", "x">>),
               {"revokeGroupClusterAccess"})
  /\ ReachedBy(Url("DELETE", <<"clusters", "x", "allowed_groups", "x", "applications", "x">>),
               {"denyGroupUseOfApplication"})
  /\ ReachedBy(Url("DELETE", <<"instances", "x">>), {"deleteApplicationInstance"})
  /\ ReachedBy(Url("DELETE", <<"secrets", "x">>), {"deleteSecret"})
  /\ ReachedBy(Url("DELETE", <<"volumes", "x">>), {"deleteVolumeClaim"})
<1>1. ReachedBy(Url("DELETE", <<"groups", "x">>), {"deleteGroup"})
  <2> SUFFICES ASSUME NEW route, IsRoute(route),
                      Matches(route, "DELETE", V(<<"groups", "x">>))
               PROVE  route.handler \in {"deleteGroup"}
    BY DEF ReachedBy, Url
  <2> QED BY DeletesOf2
<1>2. ReachedBy(Url("DELETE", <<"users", "x">>), {"deleteUser"})
  <2> SUFFICES ASSUME NEW route, IsRoute(route),
                      Matches(route, "DELETE", V(<<"users", "x">>))
               PROVE  route.handler \in {"deleteUser"}
    BY DEF ReachedBy, Url
  <2> QED BY DeletesOf2
<1>3. ReachedBy(Url("DELETE", <<"users", "x", "groups", "x">>), {"removeUserFromGroup"})
  <2> SUFFICES ASSUME NEW route, IsRoute(route),
                      Matches(route, "DELETE", V(<<"users", "x", "groups", "x">>))
               PROVE  route.handler \in {"removeUserFromGroup"}
    BY DEF ReachedBy, Url
  <2> QED BY DeletesOf4
<1>4. ReachedBy(Url("DELETE", <<"clusters", "x">>), {"deleteCluster"})
  <2> SUFFICES ASSUME NEW route, IsRoute(route),
                      Matches(route, "DELETE", V(<<"clusters", "x">>))
               PROVE  route.handler \in {"deleteCluster"}
    BY DEF ReachedBy, Url
  <2> QED BY DeletesOf2
<1>5. ReachedBy(Url("DELETE", <<"clusters", "x", "allowed_groups", "x">>),
                 {"revokeGroupClusterAccess"})
  <2> SUFFICES ASSUME NEW route, IsRoute(route),
                      Matches(route, "DELETE", V(<<"clusters", "x", "allowed_groups", "x">>))
               PROVE  route.handler \in {"revokeGroupClusterAccess"}
    BY DEF ReachedBy, Url
  <2> QED BY DeletesOf4
<1>6. ReachedBy(Url("DELETE", <<"clusters", "x", "allowed_groups", "x", "applications", "x">>),
                 {"denyGroupUseOfApplication"})
  <2> SUFFICES ASSUME NEW route, IsRoute(route),
                      Matches(route, "DELETE", V(<<"clusters", "x", "allowed_groups", "x",
                          "applications", "x">>))
               PROVE  route.handler \in {"denyGroupUseOfApplication"}
    BY DEF ReachedBy, Url
  <2> QED BY DeletesOf6
<1>7. ReachedBy(Url("DELETE", <<"instances", "x">>), {"deleteApplicationInstance"})
  <2> SUFFICES ASSUME NEW route, IsRoute(route),
                      Matches(route, "DELETE", V(<<"instances", "x">>))
               PROVE  route.handler \in {"deleteApplicationInstance"}
    BY DEF ReachedBy, Url
  <2> QED BY DeletesOf2
<1>8. ReachedBy(Url("DELETE", <<"secrets", "x">>), {"deleteSecret"})
  <2> SUFFICES ASSUME NEW route, IsRoute(route),
                      Matches(route, "DELETE", V(<<"secrets", "x">>))
               PROVE  route.handler \in {"deleteSecret"}
    BY DEF ReachedBy, Url
  <2> QED BY DeletesOf2
<1>9. ReachedBy(Url("DELETE", <<"volumes", "x">>), {"deleteVolumeClaim"})
  <2> SUFFICES ASSUME NEW route, IsRoute(route),
                      Matches(route, "DELETE", V(<<"volumes", "x">>))
               PROVE  route.handler \in {"deleteVolumeClaim"}
    BY DEF ReachedBy, Url
  <2> QED BY DeletesOf2
<1> QED BY <1>1, <1>2, <1>3, <1>4, <1>5, <1>6, <1>7, <1>8, <1>9

LEMMA GetTargets ==
  /\ ReachedBy(Url("GET", <<"whoami">>), {"whoAreThey", "unsupported"})
  /\ ReachedBy(Url("GET", <<"users", "x">>), {"getUserInfo", "unsupported"})
  /\ ReachedBy(Url("GET", <<"instances">>), {"listApplicationInstances", "unsupported"})
  /\ ReachedBy(Url("GET", <<"instances", "x">>),
               {"fetchApplicationInstanceInfo", "unsupported"})
  /\ ReachedBy(Url("GET", <<"users", "x", "replace_token">>),
               {"replaceUserToken", "unsupported"})
<1>1. ReachedBy(Url("GET", <<"whoami">>), {"whoAreThey", "unsupported"})
  <2> SUFFICES ASSUME NEW route, IsRoute(route),
                      Matches(route, "GET", V(<<"whoami">>))
               PROVE  route.handler \in {"whoAreThey", "unsupported"}
    BY DEF ReachedBy, Url
  <2> QED BY GetsOf1
<1>2. ReachedBy(Url("GET", <<"users", "x">>), {"getUserInfo", "unsupported"})
  <2> SUFFICES ASSUME NEW route, IsRoute(route),
                      Matches(route, "GET", V(<<"users", "x">>))
               PROVE  route.handler \in {"getUserInfo", "unsupported"}
    BY DEF ReachedBy, Url
  <2> QED BY GetsOf2
<1>3. ReachedBy(Url("GET", <<"instances">>), {"listApplicationInstances", "unsupported"})
  <2> SUFFICES ASSUME NEW route, IsRoute(route),
                      Matches(route, "GET", V(<<"instances">>))
               PROVE  route.handler \in {"listApplicationInstances", "unsupported"}
    BY DEF ReachedBy, Url
  <2> QED BY GetsOf1
<1>4. ReachedBy(Url("GET", <<"instances", "x">>),
                 {"fetchApplicationInstanceInfo", "unsupported"})
  <2> SUFFICES ASSUME NEW route, IsRoute(route),
                      Matches(route, "GET", V(<<"instances", "x">>))
               PROVE  route.handler \in {"fetchApplicationInstanceInfo", "unsupported"}
    BY DEF ReachedBy, Url
  <2> QED BY GetsOf2
<1>5. ReachedBy(Url("GET", <<"users", "x", "replace_token">>),
                 {"replaceUserToken", "unsupported"})
  <2> SUFFICES ASSUME NEW route, IsRoute(route),
                      Matches(route, "GET", V(<<"users", "x", "replace_token">>))
               PROVE  route.handler \in {"replaceUserToken", "unsupported"}
    BY DEF ReachedBy, Url
  <2> QED BY GetsOf3
<1> QED BY <1>1, <1>2, <1>3, <1>4, <1>5

-----------------------------------------------------------------------------
(* The commands of the client.                                             *)
LEMMA SameSequence ==
  ASSUME NEW S, NEW s \in Seq(S), NEW t \in Seq(S), Len(s) = Len(t),
         \A i \in 1..Len(s) : s[i] = t[i]
  PROVE  s = t
OBVIOUS

LEMMA Join11 == \A a, b : <<a>> \o <<b>> = <<a, b>>
<1> SUFFICES ASSUME NEW a, NEW b PROVE <<a>> \o <<b>> = <<a, b>>
  OBVIOUS
<1> DEFINE S == {a, b}
<1>1. <<a>> \in Seq(S) /\ <<b>> \in Seq(S) /\ <<a, b>> \in Seq(S)
  OBVIOUS
<1>2. <<a>> \o <<b>> \in Seq(S) /\ Len(<<a>> \o <<b>>) = 2
  BY <1>1
<1>3. \A i \in 1..2 : (<<a>> \o <<b>>)[i] = <<a, b>>[i]
  BY <1>1
<1> QED BY <1>1, <1>2, <1>3, SameSequence

LEMMA Join12 == \A a, b, c : <<a>> \o <<b, c>> = <<a, b, c>>
<1> SUFFICES ASSUME NEW a, NEW b, NEW c PROVE <<a>> \o <<b, c>> = <<a, b, c>>
  OBVIOUS
<1> DEFINE S == {a, b, c}
<1>1. <<a>> \in Seq(S) /\ <<b, c>> \in Seq(S) /\ <<a, b, c>> \in Seq(S)
  OBVIOUS
<1>2. <<a>> \o <<b, c>> \in Seq(S) /\ Len(<<a>> \o <<b, c>>) = 3
  BY <1>1
<1>3. \A i \in 1..3 : (<<a>> \o <<b, c>>)[i] = <<a, b, c>>[i]
  BY <1>1
<1> QED BY <1>1, <1>2, <1>3, SameSequence

LEMMA Join13 == \A a, b, c, d : <<a>> \o <<b, c, d>> = <<a, b, c, d>>
<1> SUFFICES ASSUME NEW a, NEW b, NEW c, NEW d PROVE <<a>> \o <<b, c, d>> = <<a, b, c, d>>
  OBVIOUS
<1> DEFINE S == {a, b, c, d}
<1>1. <<a>> \in Seq(S) /\ <<b, c, d>> \in Seq(S) /\ <<a, b, c, d>> \in Seq(S)
  OBVIOUS
<1>2. <<a>> \o <<b, c, d>> \in Seq(S) /\ Len(<<a>> \o <<b, c, d>>) = 4
  BY <1>1
<1>3. \A i \in 1..4 : (<<a>> \o <<b, c, d>>)[i] = <<a, b, c, d>>[i]
  BY <1>1
<1> QED BY <1>1, <1>2, <1>3, SameSequence

LEMMA Join14 == \A a, b, c, d, e : <<a>> \o <<b, c, d, e>> = <<a, b, c, d, e>>
<1> SUFFICES ASSUME NEW a, NEW b, NEW c, NEW d, NEW e
        PROVE <<a>> \o <<b, c, d, e>> = <<a, b, c, d, e>>
  OBVIOUS
<1> DEFINE S == {a, b, c, d, e}
<1>1. <<a>> \in Seq(S) /\ <<b, c, d, e>> \in Seq(S) /\ <<a, b, c, d, e>> \in Seq(S)
  OBVIOUS
<1>2. <<a>> \o <<b, c, d, e>> \in Seq(S) /\ Len(<<a>> \o <<b, c, d, e>>) = 5
  BY <1>1
<1>3. \A i \in 1..5 : (<<a>> \o <<b, c, d, e>>)[i] = <<a, b, c, d, e>>[i]
  BY <1>1
<1> QED BY <1>1, <1>2, <1>3, SameSequence

LEMMA Join21 == \A a, b, c : <<a, b>> \o <<c>> = <<a, b, c>>
<1> SUFFICES ASSUME NEW a, NEW b, NEW c PROVE <<a, b>> \o <<c>> = <<a, b, c>>
  OBVIOUS
<1> DEFINE S == {a, b, c}
<1>1. <<a, b>> \in Seq(S) /\ <<c>> \in Seq(S) /\ <<a, b, c>> \in Seq(S)
  OBVIOUS
<1>2. <<a, b>> \o <<c>> \in Seq(S) /\ Len(<<a, b>> \o <<c>>) = 3
  BY <1>1
<1>3. \A i \in 1..3 : (<<a, b>> \o <<c>>)[i] = <<a, b, c>>[i]
  BY <1>1
<1> QED BY <1>1, <1>2, <1>3, SameSequence

LEMMA Join23 == \A a, b, c, d, e : <<a, b>> \o <<c, d, e>> = <<a, b, c, d, e>>
<1> SUFFICES ASSUME NEW a, NEW b, NEW c, NEW d, NEW e
        PROVE <<a, b>> \o <<c, d, e>> = <<a, b, c, d, e>>
  OBVIOUS
<1> DEFINE S == {a, b, c, d, e}
<1>1. <<a, b>> \in Seq(S) /\ <<c, d, e>> \in Seq(S) /\ <<a, b, c, d, e>> \in Seq(S)
  OBVIOUS
<1>2. <<a, b>> \o <<c, d, e>> \in Seq(S) /\ Len(<<a, b>> \o <<c, d, e>>) = 5
  BY <1>1
<1>3. \A i \in 1..5 : (<<a, b>> \o <<c, d, e>>)[i] = <<a, b, c, d, e>>[i]
  BY <1>1
<1> QED BY <1>1, <1>2, <1>3, SameSequence

LEMMA Join31 == \A a, b, c, d : <<a, b, c>> \o <<d>> = <<a, b, c, d>>
<1> SUFFICES ASSUME NEW a, NEW b, NEW c, NEW d PROVE <<a, b, c>> \o <<d>> = <<a, b, c, d>>
  OBVIOUS
<1> DEFINE S == {a, b, c, d}
<1>1. <<a, b, c>> \in Seq(S) /\ <<d>> \in Seq(S) /\ <<a, b, c, d>> \in Seq(S)
  OBVIOUS
<1>2. <<a, b, c>> \o <<d>> \in Seq(S) /\ Len(<<a, b, c>> \o <<d>>) = 4
  BY <1>1
<1>3. \A i \in 1..4 : (<<a, b, c>> \o <<d>>)[i] = <<a, b, c, d>>[i]
  BY <1>1
<1> QED BY <1>1, <1>2, <1>3, SameSequence

LEMMA Join32 == \A a, b, c, d, e : <<a, b, c>> \o <<d, e>> = <<a, b, c, d, e>>
<1> SUFFICES ASSUME NEW a, NEW b, NEW c, NEW d, NEW e
        PROVE <<a, b, c>> \o <<d, e>> = <<a, b, c, d, e>>
  OBVIOUS
<1> DEFINE S == {a, b, c, d, e}
<1>1. <<a, b, c>> \in Seq(S) /\ <<d, e>> \in Seq(S) /\ <<a, b, c, d, e>> \in Seq(S)
  OBVIOUS
<1>2. <<a, b, c>> \o <<d, e>> \in Seq(S) /\ Len(<<a, b, c>> \o <<d, e>>) = 5
  BY <1>1
<1>3. \A i \in 1..5 : (<<a, b, c>> \o <<d, e>>)[i] = <<a, b, c, d, e>>[i]
  BY <1>1
<1> QED BY <1>1, <1>2, <1>3, SameSequence

LEMMA Join33 == \A a, b, c, d, e, f : <<a, b, c>> \o <<d, e, f>> = <<a, b, c, d, e, f>>
<1> SUFFICES ASSUME NEW a, NEW b, NEW c, NEW d, NEW e, NEW f
        PROVE <<a, b, c>> \o <<d, e, f>> = <<a, b, c, d, e, f>>
  OBVIOUS
<1> DEFINE S == {a, b, c, d, e, f}
<1>1. <<a, b, c>> \in Seq(S) /\ <<d, e, f>> \in Seq(S) /\ <<a, b, c, d, e, f>> \in Seq(S)
  OBVIOUS
<1>2. <<a, b, c>> \o <<d, e, f>> \in Seq(S) /\ Len(<<a, b, c>> \o <<d, e, f>>) = 6
  BY <1>1
<1>3. \A i \in 1..6 : (<<a, b, c>> \o <<d, e, f>>)[i] = <<a, b, c, d, e, f>>[i]
  BY <1>1
<1> QED BY <1>1, <1>2, <1>3, SameSequence

LEMMA Join41 == \A a, b, c, d, e : <<a, b, c, d>> \o <<e>> = <<a, b, c, d, e>>
<1> SUFFICES ASSUME NEW a, NEW b, NEW c, NEW d, NEW e
        PROVE <<a, b, c, d>> \o <<e>> = <<a, b, c, d, e>>
  OBVIOUS
<1> DEFINE S == {a, b, c, d, e}
<1>1. <<a, b, c, d>> \in Seq(S) /\ <<e>> \in Seq(S) /\ <<a, b, c, d, e>> \in Seq(S)
  OBVIOUS
<1>2. <<a, b, c, d>> \o <<e>> \in Seq(S) /\ Len(<<a, b, c, d>> \o <<e>>) = 5
  BY <1>1
<1>3. \A i \in 1..5 : (<<a, b, c, d>> \o <<e>>)[i] = <<a, b, c, d, e>>[i]
  BY <1>1
<1> QED BY <1>1, <1>2, <1>3, SameSequence

(* What is promised of a request is done once it is answered 200: if the   *)
(* client has taken care of the facts in given, which go with a body.      *)
Keeps(handler, given, promise) ==
  \A at, answers, changed :
    /\ HandledTo(Handler[handler], at, answers, changed, 200)
    /\ \A fact \in given : fact \in DOMAIN answers /\ answers[fact]
    => promise \subseteq changed
Sent(request, given) == IF request.method \in {"PUT", "POST"} THEN given ELSE {}
KeepsRequest(request, given, promise) ==
  \A route : IsRoute(route) /\ Matches(route, request.method, request.path) =>
               Keeps(route.handler, Sent(request, given), promise)

(* A script that ends with such a request and cannot get past it otherwise. *)
Fulfils(s, promise) ==
  /\ IsPiece(s) /\ Len(s) > 0
  /\ \A i \in 1..Len(s) : s[i].kind = "skip" => i + 3 <= Len(s)
  /\ LET last == s[Len(s)]
     IN  /\ last.kind = "send" /\ last.otherwise = "failed" /\ last.notFound \in {"failed", "fixup"}
         /\ \A request \in last.requests : KeepsRequest(request, last.given, promise)

Serves(handler, excuses, promise) == Delivers(Handler[handler], excuses, promise)

LEMMA KeptBy ==
  ASSUME NEW handler, NEW excuses, NEW promise, Serves(handler, excuses, promise),
         NEW given, \A excuse \in excuses : \E fact \in excuse : fact \in given
  PROVE  Keeps(handler, given, promise)
<1> SUFFICES ASSUME NEW at, NEW answers, NEW changed,
                    HandledTo(Handler[handler], at, answers, changed, 200),
                    \A fact \in given : fact \in DOMAIN answers /\ answers[fact],
                    NEW effect \in promise
             PROVE  effect \in changed
  BY DEF Keeps
<1> DEFINE s == Handler[handler]
<1>1. IsPiece(s) /\ Len(s) \in Nat
  BY DEF Delivers, Serves, IsPiece
<1>2. PICK i \in 1..Len(s) : s[i].kind = "do" /\ s[i].facts = {} /\ s[i].effect = effect
  BY DEF Delivers, Serves
<1>3. at = Len(s) + 1
  <2> SUFFICES ASSUME at # Len(s) + 1 PROVE FALSE
    OBVIOUS
  <2>1. at \in 1..Len(s) /\ s[at].code = 200 /\ ~Granted(s[at], answers)
    BY DEF HandledTo
  <2>2. s[at].facts \in excuses
    BY <2>1 DEF Delivers, Serves
  <2> QED BY <2>1, <2>2 DEF Granted
<1>4. i < at
  BY <1>1, <1>3
<1> QED BY <1>2, <1>3, <1>4 DEF HandledTo

LEMMA KeptAlways ==
  ASSUME NEW handler, NEW promise, Serves(handler, {}, promise), NEW given
  PROVE  Keeps(handler, given, promise)
BY KeptBy

LEMMA KeptIfChanged ==
  ASSUME NEW handler, NEW promise, Serves(handler, {{"changes"}}, promise),
         NEW given, "changes" \in given
  PROVE  Keeps(handler, given, promise)
<1> DEFINE excuses == {{"changes"}}
<1>1. \A excuse \in excuses : \E fact \in excuse : fact \in given
  OBVIOUS
<1>2. Serves(handler, excuses, promise)
  OBVIOUS
<1> HIDE DEF excuses
<1> QED BY <1>1, <1>2, KeptBy

(* The fallback answers every request with an error.                       *)
LEMMA FallbackKeeps == \A given, promise : Keeps("unsupported", given, promise)
<1>1. Handler["unsupported"] = <<Code!Need({}, 400)>>
  BY DEF Handler, Code!unsupported
<1>2. /\ Len(<<Code!Need({}, 400)>>) = 1
      /\ Code!Need({}, 400).kind = "need" /\ Code!Need({}, 400).facts = {}
      /\ Code!Need({}, 400).code = 400
  BY DEF Code!Need, Code!NeedElse, Code!Step
<1>3. ASSUME NEW at, NEW answers, NEW changed,
             HandledTo(<<Code!Need({}, 400)>>, at, answers, changed, 200)
      PROVE  FALSE
  <2> HIDE DEF Code!Need
  <2>1. /\ at \in 1..2 /\ (1 < at => Granted(Code!Need({}, 400), answers))
        /\ at = 2 \/ 200 = Code!Need({}, 400).code
    BY <1>2, <1>3 DEF HandledTo
  <2> QED BY <1>2, <2>1 DEF Granted
<1> QED BY <1>1, <1>3 DEF Keeps

(* The handlers behind the last requests of the commands.                  *)
LEMMA KeptHandlers ==
  /\ \A given : Keeps("createGroup", given, {"groups", "memberships"})
  /\ \A given : "changes" \in given => Keeps("updateGroup", given, {"groups"})
  /\ \A given : Keeps("deleteGroup", given, {"groups"})
  /\ \A given : Keeps("createUser", given, {"users"})
  /\ \A given : Keeps("deleteUser", given, {"users"})
  /\ \A given : Keeps("updateUser", given, {"users"})
  /\ \A given : Keeps("replaceUserToken", given, {"users"})
  /\ \A given : Keeps("addUserToGroup", given, {"memberships"})
  /\ \A given : Keeps("removeUserFromGroup", given, {"memberships"})
  /\ \A given : Keeps("createCluster", given, {"clusters"})
  /\ \A given : Keeps("deleteCluster", given, {"clusters"})
  /\ \A given : Keeps("revokeGroupClusterAccess", given, {"access"})
  /\ \A given : Keeps("allowGroupUseOfApplication", given, {"permissions"})
  /\ \A given : Keeps("denyGroupUseOfApplication", given, {"permissions"})
  /\ \A given : Keeps("installApplication", given, {"instances", "namespace", "objects"})
  /\ \A given : Keeps("installAdHocApplication", given, {"instances", "namespace", "objects"})
  /\ \A given : Keeps("restartApplicationInstance", given, {"namespace", "objects"})
  /\ \A given : Keeps("updateApplicationInstance", given, {"namespace", "objects"})
  /\ \A given : Keeps("deleteApplicationInstance", given, {"instances"})
  /\ \A given : Keeps("createSecret", given, {"secrets", "namespace", "objects"})
  /\ \A given : Keeps("deleteSecret", given, {"secrets"})
  /\ \A given : Keeps("createVolumeClaim", given, {"volumes", "namespace", "objects"})
  /\ \A given : Keeps("deleteVolumeClaim", given, {"volumes"})
<1>1. ASSUME NEW given PROVE Keeps("createGroup", given, {"groups", "memberships"})
  <2>1. Serves("createGroup", {}, {"groups", "memberships"})
    BY GroupHandlers DEF Serves, Handler
  <2> QED BY <2>1, KeptAlways
<1>2. ASSUME NEW given, "changes" \in given
      PROVE  Keeps("updateGroup", given, {"groups"})
  <2>1. Serves("updateGroup", {{"changes"}}, {"groups"})
    BY GroupHandlers DEF Serves, Handler
  <2> QED BY <1>2, <2>1, KeptIfChanged
<1>3. ASSUME NEW given PROVE Keeps("deleteGroup", given, {"groups"})
  <2>1. Serves("deleteGroup", {}, {"groups"})
    BY GroupHandlers DEF Serves, Handler
  <2> QED BY <2>1, KeptAlways
<1>4. ASSUME NEW given PROVE Keeps("createUser", given, {"users"})
  <2>1. Serves("createUser", {}, {"users"})
    BY UserHandlers DEF Serves, Handler
  <2> QED BY <2>1, KeptAlways
<1>5. ASSUME NEW given PROVE Keeps("deleteUser", given, {"users"})
  <2>1. Serves("deleteUser", {}, {"users"})
    BY UserHandlers DEF Serves, Handler
  <2> QED BY <2>1, KeptAlways
<1>6. ASSUME NEW given PROVE Keeps("updateUser", given, {"users"})
  <2>1. Serves("updateUser", {}, {"users"})
    BY UserHandlers DEF Serves, Handler
  <2> QED BY <2>1, KeptAlways
<1>7. ASSUME NEW given PROVE Keeps("replaceUserToken", given, {"users"})
  <2>1. Serves("replaceUserToken", {}, {"users"})
    BY UserHandlers DEF Serves, Handler
  <2> QED BY <2>1, KeptAlways
<1>8. ASSUME NEW given PROVE Keeps("addUserToGroup", given, {"memberships"})
  <2>1. Serves("addUserToGroup", {}, {"memberships"})
    BY UserHandlers DEF Serves, Handler
  <2> QED BY <2>1, KeptAlways
<1>9. ASSUME NEW given PROVE Keeps("removeUserFromGroup", given, {"memberships"})
  <2>1. Serves("removeUserFromGroup", {}, {"memberships"})
    BY UserHandlers DEF Serves, Handler
  <2> QED BY <2>1, KeptAlways
<1>10. ASSUME NEW given PROVE Keeps("createCluster", given, {"clusters"})
  <2>1. Serves("createCluster", {}, {"clusters"})
    BY ClusterHandlers DEF Serves, Handler
  <2> QED BY <2>1, KeptAlways
<1>11. ASSUME NEW given PROVE Keeps("deleteCluster", given, {"clusters"})
  <2>1. Serves("deleteCluster", {}, {"clusters"})
    BY ClusterHandlers DEF Serves, Handler
  <2> QED BY <2>1, KeptAlways
<1>12. ASSUME NEW given PROVE Keeps("revokeGroupClusterAccess", given, {"access"})
  <2>1. Serves("revokeGroupClusterAccess", {}, {"access"})
    BY AccessHandlers DEF Serves, Handler
  <2> QED BY <2>1, KeptAlways
<1>13. ASSUME NEW given PROVE Keeps("allowGroupUseOfApplication", given, {"permissions"})
  <2>1. Serves("allowGroupUseOfApplication", {}, {"permissions"})
    BY AccessHandlers DEF Serves, Handler
  <2> QED BY <2>1, KeptAlways
<1>14. ASSUME NEW given PROVE Keeps("denyGroupUseOfApplication", given, {"permissions"})
  <2>1. Serves("denyGroupUseOfApplication", {}, {"permissions"})
    BY AccessHandlers DEF Serves, Handler
  <2> QED BY <2>1, KeptAlways
<1>15. ASSUME NEW given PROVE Keeps("installApplication", given,
           {"instances", "namespace", "objects"})
  <2>1. Serves("installApplication", {}, {"instances", "namespace", "objects"})
    BY ApplicationHandlers DEF Serves, Handler
  <2> QED BY <2>1, KeptAlways
<1>16. ASSUME NEW given PROVE Keeps("installAdHocApplication", given,
           {"instances", "namespace", "objects"})
  <2>1. Serves("installAdHocApplication", {}, {"instances", "namespace", "objects"})
    BY ApplicationHandlers DEF Serves, Handler
  <2> QED BY <2>1, KeptAlways
<1>17. ASSUME NEW given PROVE Keeps("restartApplicationInstance", given, {"namespace", "objects"})
  <2>1. Serves("restartApplicationInstance", {}, {"objects", "namespace"})
    BY InstanceHandlers DEF Serves, Handler
  <2> QED BY <2>1, KeptAlways
<1>18. ASSUME NEW given PROVE Keeps("updateApplicationInstance", given, {"namespace", "objects"})
  <2>1. Serves("updateApplicationInstance", {}, {"objects", "namespace"})
    BY InstanceHandlers DEF Serves, Handler
  <2> QED BY <2>1, KeptAlways
<1>19. ASSUME NEW given PROVE Keeps("deleteApplicationInstance", given, {"instances"})
  <2>1. Serves("deleteApplicationInstance", {}, {"instances"})
    BY InstanceHandlers DEF Serves, Handler
  <2> QED BY <2>1, KeptAlways
<1>20. ASSUME NEW given PROVE Keeps("createSecret", given, {"secrets", "namespace", "objects"})
  <2>1. Serves("createSecret", {}, {"secrets", "namespace", "objects"})
    BY SecretHandlers DEF Serves, Handler
  <2> QED BY <2>1, KeptAlways
<1>21. ASSUME NEW given PROVE Keeps("deleteSecret", given, {"secrets"})
  <2>1. Serves("deleteSecret", {}, {"secrets"})
    BY SecretHandlers DEF Serves, Handler
  <2> QED BY <2>1, KeptAlways
<1>22. ASSUME NEW given PROVE Keeps("createVolumeClaim", given, {"volumes", "namespace", "objects"})
  <2>1. Serves("createVolumeClaim", {}, {"volumes", "namespace", "objects"})
    BY VolumeHandlers DEF Serves, Handler
  <2> QED BY <2>1, KeptAlways
<1>23. ASSUME NEW given PROVE Keeps("deleteVolumeClaim", given, {"volumes"})
  <2>1. Serves("deleteVolumeClaim", {}, {"volumes"})
    BY VolumeHandlers DEF Serves, Handler
  <2> QED BY <2>1, KeptAlways
<1> QED BY <1>1, <1>2, <1>3, <1>4, <1>5, <1>6, <1>7, <1>8, <1>9, <1>10, <1>11, <1>12,
          <1>13, <1>14, <1>15, <1>16, <1>17, <1>18, <1>19, <1>20, <1>21, <1>22, <1>23

LEMMA KeptRequests ==
  /\ \A given : KeepsRequest(Url("POST", <<"groups">>), given, {"groups", "memberships"})
  /\ \A given : KeepsRequest(Url("POST", <<"users">>), given, {"users"})
  /\ \A given : KeepsRequest(Url("POST", <<"clusters">>), given, {"clusters"})
  /\ \A given :
       KeepsRequest(Url("POST", <<"apps", "x">>), given, {"instances", "namespace", "objects"})
  /\ \A given :
       KeepsRequest(Url("POST", <<"apps", "ad-hoc">>), given, {"instances", "namespace", "objects"})
  /\ \A given :
       KeepsRequest(Url("POST", <<"secrets">>), given, {"secrets", "namespace", "objects"})
  /\ \A given :
       KeepsRequest(Url("POST", <<"volumes">>), given, {"volumes", "namespace", "objects"})
  /\ \A given : "changes" \in given =>
       KeepsRequest(Url("PUT", <<"groups", "x">>), given, {"groups"})
  /\ \A given : KeepsRequest(Url("PUT", <<"users", "x">>), given, {"users"})
  /\ \A given : KeepsRequest(Url("PUT", <<"users", "x", "groups", "x">>), given, {"memberships"})
  /\ \A given :
       KeepsRequest(Url("PUT", <<"clusters", "x", "allowed_groups", "x", "applications", "x">>),
           given, {"permissions"})
  /\ \A given :
       KeepsRequest(Url("PUT", <<"instances", "x", "restart">>), given, {"namespace", "objects"})
  /\ \A given :
       KeepsRequest(Url("PUT", <<"instances", "x", "update">>), given, {"namespace", "objects"})
  /\ \A given : KeepsRequest(Url("DELETE", <<"groups", "x">>), given, {"groups"})
  /\ \A given : KeepsRequest(Url("DELETE", <<"users", "x">>), given, {"users"})
  /\ \A given :
       KeepsRequest(Url("DELETE", <<"users", "x", "groups", "x">>), given, {"memberships"})
  /\ \A given : KeepsRequest(Url("DELETE", <<"clusters", "x">>), given, {"clusters"})
  /\ \A given :
       KeepsRequest(Url("DELETE", <<"clusters", "x", "allowed_groups", "x">>), given, {"access"})
  /\ \A given :
       KeepsRequest(Url("DELETE", <<"clusters", "x", "allowed_groups", "x", "applications",
           "x">>), given, {"permissions"})
  /\ \A given : KeepsRequest(Url("DELETE", <<"instances", "x">>), given, {"instances"})
  /\ \A given : KeepsRequest(Url("DELETE", <<"secrets", "x">>), given, {"secrets"})
  /\ \A given : KeepsRequest(Url("DELETE", <<"volumes", "x">>), given, {"volumes"})
  /\ \A given : KeepsRequest(Url("GET", <<"users", "x", "replace_token">>), given, {"users"})
<1>1. \A given : KeepsRequest(Url("POST", <<"groups">>), given, {"groups", "memberships"})
  BY PostTargets, KeptHandlers DEF KeepsRequest, ReachedBy, Url, Sent
<1>2. \A given : KeepsRequest(Url("POST", <<"users">>), given, {"users"})
  BY PostTargets, KeptHandlers DEF KeepsRequest, ReachedBy, Url, Sent
<1>3. \A given : KeepsRequest(Url("POST", <<"clusters">>), given, {"clusters"})
  BY PostTargets, KeptHandlers DEF KeepsRequest, ReachedBy, Url, Sent
<1>4. \A given :
       KeepsRequest(Url("POST", <<"apps", "x">>), given, {"instances", "namespace", "objects"})
  BY PostTargets, KeptHandlers DEF KeepsRequest, ReachedBy, Url, Sent
<1>5. \A given :
       KeepsRequest(Url("POST", <<"apps", "ad-hoc">>), given, {"instances", "namespace", "objects"})
  BY PostTargets, KeptHandlers DEF KeepsRequest, ReachedBy, Url, Sent
<1>6. \A given :
       KeepsRequest(Url("POST", <<"secrets">>), given, {"secrets", "namespace", "objects"})
  BY PostTargets, KeptHandlers DEF KeepsRequest, ReachedBy, Url, Sent
<1>7. \A given :
       KeepsRequest(Url("POST", <<"volumes">>), given, {"volumes", "namespace", "objects"})
  BY PostTargets, KeptHandlers DEF KeepsRequest, ReachedBy, Url, Sent
<1>8. \A given : "changes" \in given =>
       KeepsRequest(Url("PUT", <<"groups", "x">>), given, {"groups"})
  BY PutTargets, KeptHandlers DEF KeepsRequest, ReachedBy, Url, Sent
<1>9. \A given : KeepsRequest(Url("PUT", <<"users", "x">>), given, {"users"})
  BY PutTargets, KeptHandlers DEF KeepsRequest, ReachedBy, Url, Sent
<1>10. \A given :
       KeepsRequest(Url("PUT", <<"users", "x", "groups", "x">>), given, {"memberships"})
  BY PutTargets, KeptHandlers DEF KeepsRequest, ReachedBy, Url, Sent
<1>11. \A given :
       KeepsRequest(Url("PUT", <<"clusters", "x", "allowed_groups", "x", "applications", "x">>),
           given, {"permissions"})
  BY PutTargets, KeptHandlers DEF KeepsRequest, ReachedBy, Url, Sent
<1>12. \A given :
       KeepsRequest(Url("PUT", <<"instances", "x", "restart">>), given, {"namespace", "objects"})
  BY PutTargets, KeptHandlers DEF KeepsRequest, ReachedBy, Url, Sent
<1>13. \A given :
       KeepsRequest(Url("PUT", <<"instances", "x", "update">>), given, {"namespace", "objects"})
  BY PutTargets, KeptHandlers DEF KeepsRequest, ReachedBy, Url, Sent
<1>14. \A given : KeepsRequest(Url("DELETE", <<"groups", "x">>), given, {"groups"})
  BY DeleteTargets, KeptHandlers DEF KeepsRequest, ReachedBy, Url, Sent
<1>15. \A given : KeepsRequest(Url("DELETE", <<"users", "x">>), given, {"users"})
  BY DeleteTargets, KeptHandlers DEF KeepsRequest, ReachedBy, Url, Sent
<1>16. \A given :
       KeepsRequest(Url("DELETE", <<"users", "x", "groups", "x">>), given, {"memberships"})
  BY DeleteTargets, KeptHandlers DEF KeepsRequest, ReachedBy, Url, Sent
<1>17. \A given : KeepsRequest(Url("DELETE", <<"clusters", "x">>), given, {"clusters"})
  BY DeleteTargets, KeptHandlers DEF KeepsRequest, ReachedBy, Url, Sent
<1>18. \A given :
       KeepsRequest(Url("DELETE", <<"clusters", "x", "allowed_groups", "x">>), given, {"access"})
  BY DeleteTargets, KeptHandlers DEF KeepsRequest, ReachedBy, Url, Sent
<1>19. \A given :
       KeepsRequest(Url("DELETE", <<"clusters", "x", "allowed_groups", "x", "applications",
           "x">>), given, {"permissions"})
  BY DeleteTargets, KeptHandlers DEF KeepsRequest, ReachedBy, Url, Sent
<1>20. \A given : KeepsRequest(Url("DELETE", <<"instances", "x">>), given, {"instances"})
  BY DeleteTargets, KeptHandlers DEF KeepsRequest, ReachedBy, Url, Sent
<1>21. \A given : KeepsRequest(Url("DELETE", <<"secrets", "x">>), given, {"secrets"})
  BY DeleteTargets, KeptHandlers DEF KeepsRequest, ReachedBy, Url, Sent
<1>22. \A given : KeepsRequest(Url("DELETE", <<"volumes", "x">>), given, {"volumes"})
  BY DeleteTargets, KeptHandlers DEF KeepsRequest, ReachedBy, Url, Sent
<1>23. \A given : KeepsRequest(Url("GET", <<"users", "x", "replace_token">>), given, {"users"})
  BY GetTargets, KeptHandlers, FallbackKeeps DEF KeepsRequest, ReachedBy, Url, Sent
<1> QED BY <1>1, <1>2, <1>3, <1>4, <1>5, <1>6, <1>7, <1>8, <1>9, <1>10, <1>11, <1>12,
          <1>13, <1>14, <1>15, <1>16, <1>17, <1>18, <1>19, <1>20, <1>21, <1>22, <1>23

(* What a step may end the command as, and how it may give up without      *)
(* an error.                                                               *)
Endings == {"failed", "stopped", "fixup", "ignored", "printed"}
GivesUp == {"stopped", "fixup"}

(* A request that only reaches handlers that change nothing.               *)
Harmless(request) ==
  \A route : IsRoute(route) /\ Matches(route, request.method, request.path) =>
               Guarded(Handler[route.handler], {}, {})
Quiet(cstep) == \A request \in cstep.requests : Harmless(request)
Fair(cstep) ==
  /\ cstep.kind \in {"check", "skip", "send"}
  /\ cstep.kind # "skip" => cstep.otherwise \in Endings /\ cstep.notFound \in Endings

(* Up to the step n a script only asks and looks; from then on it does not *)
(* give up without an error, except at the answer that there is no such    *)
(* object to its first change.                                             *)
Settled(s, n) ==
  /\ n \in 0..Len(s) /\ IsPiece(s)
  /\ \A i \in 1..Len(s) :
       /\ Fair(s[i])
       /\ i <= n => Quiet(s[i])
       /\ i > n => s[i].otherwise \notin GivesUp
       /\ i > n + 1 => s[i].notFound \notin GivesUp
IsSettled(s) == \E n \in Nat : Settled(s, n)

LEMMA StepKinds ==
  /\ \A facts, otherwise :
       LET c == Check(facts, otherwise)
       IN  /\ c.kind = "check" /\ c.facts = facts /\ c.requests = {}
           /\ c.otherwise = otherwise /\ c.notFound = otherwise
  /\ \A facts : LET c == Skip(facts)
                IN  /\ c.kind = "skip" /\ c.facts = facts /\ c.requests = {}
                    /\ c.otherwise = "none" /\ c.notFound = "none"
  /\ \A requests, given, otherwise, notFound :
       LET c == SendOne(requests, given, otherwise, notFound)
       IN  /\ c.kind = "send" /\ c.requests = requests /\ c.given = given
           /\ c.otherwise = otherwise /\ c.notFound = notFound
BY DEF Check, Skip, SendOne, CStep

LEMMA StepsFair ==
  /\ \A facts, otherwise : otherwise \in Endings => Fair(Check(facts, otherwise))
  /\ \A facts : Fair(Skip(facts))
  /\ \A requests, given, otherwise, notFound :
       otherwise \in Endings /\ notFound \in Endings =>
         Fair(SendOne(requests, given, otherwise, notFound))
BY StepKinds DEF Fair

LEMMA StepsQuiet ==
  /\ \A facts, otherwise : Quiet(Check(facts, otherwise))
  /\ \A facts : Quiet(Skip(facts))
  /\ \A requests, given, otherwise, notFound :
       (\A request \in requests : Harmless(request)) =>
         Quiet(SendOne(requests, given, otherwise, notFound))
BY StepKinds DEF Quiet

LEMMA HarmlessRequests ==
  /\ Harmless(Url("GET", <<"whoami">>))
  /\ Harmless(Url("GET", <<"users", "x">>))
  /\ Harmless(Url("GET", <<"instances">>))
  /\ Harmless(Url("GET", <<"instances", "x">>))
<1>1. /\ Guarded(Handler["whoAreThey"], {}, {}) /\ Guarded(Handler["getUserInfo"], {}, {})
      /\ Guarded(Handler["listApplicationInstances"], {}, {})
      /\ Guarded(Handler["fetchApplicationInstanceInfo"], {}, {})
      /\ Guarded(Handler["unsupported"], {}, {})
  BY UserHandlers, InstanceHandlers, OtherHandlers DEF Handler
<1> QED BY <1>1, GetTargets DEF Harmless, ReachedBy

-----------------------------------------------------------------------------
(* Every command is settled, and fulfils what it promises.                 *)
(* Groups and users.                                                      *)
LEMMA SettledGroups ==
  /\ IsSettled(Command.createGroup) /\ IsSettled(Command.updateGroup)
  /\ IsSettled(Command.deleteGroup) /\ IsSettled(Command.getGroupInfo)
  /\ IsSettled(Command.listGroups) /\ IsSettled(Command.fetchCurrentProfile)
  /\ IsSettled(Command.getUserInfo) /\ IsSettled(Command.listUsers)
  /\ IsSettled(Command.listUserGroups) /\ IsSettled(Command.createUser)
  /\ IsSettled(Command.removeUser) /\ IsSettled(Command.updateUser)
  /\ IsSettled(Command.addUserToGroup) /\ IsSettled(Command.removeUserFromGroup)
  /\ IsSettled(Command.updateUserToken)
  /\ Fulfils(Command.createGroup, {"groups", "memberships"})
  /\ Fulfils(Command.updateGroup, {"groups"}) /\ Fulfils(Command.deleteGroup, {"groups"})
  /\ Fulfils(Command.createUser, {"users"}) /\ Fulfils(Command.removeUser, {"users"})
  /\ Fulfils(Command.updateUser, {"users"}) /\ Fulfils(Command.addUserToGroup, {"memberships"})
  /\ Fulfils(Command.removeUserFromGroup, {"memberships"})
  /\ Fulfils(Command.updateUserToken, {"users"})
<1>1. IsSettled(Command.createGroup) /\ Fulfils(Command.createGroup, {"groups", "memberships"})
  <2> DEFINE s == <<Send("POST", <<"groups">>, Body)>>
  <2>1. Command.createGroup = s
    BY DEF Command, createGroup
  <2>2. Settled(s, 0)
    BY StepKinds, StepsFair, StepsQuiet, HarmlessRequests, Literals
    DEF Settled, Send, Endings, GivesUp
  <2>3. Fulfils(s, {"groups", "memberships"})
    BY StepKinds, KeptRequests, Literals, SMTT(20) DEF Fulfils, Send
  <2> QED BY <2>1, <2>2, <2>3 DEF IsSettled
<1>2. IsSettled(Command.updateGroup) /\ Fulfils(Command.updateGroup, {"groups"})
  <2> DEFINE s == <<Check({"updates"}, "stopped"),
                    Send("PUT", <<"groups", "x">>, Body \cup {"changes"})>>
  <2>1. Command.updateGroup = s
    BY DEF Command, updateGroup
  <2>2. Settled(s, 1)
    BY StepKinds, StepsFair, StepsQuiet, HarmlessRequests, Literals
    DEF Settled, Send, Endings, GivesUp
  <2>3. Fulfils(s, {"groups"})
    BY StepKinds, KeptRequests, Literals, SMTT(20) DEF Fulfils, Send
  <2> QED BY <2>1, <2>2, <2>3 DEF IsSettled
<1>3. IsSettled(Command.deleteGroup) /\ Fulfils(Command.deleteGroup, {"groups"})
  <2> DEFINE s == <<Skip({"assumeYes"}), Get(<<"groups", "x">>), Check({"yes"}, "failed"),
                    Send("DELETE", <<"groups", "x">>, {})>>
  <2>1. Command.deleteGroup = s
    BY Join31 DEF Command, deleteGroup, confirmDeletion
  <2>2. Settled(s, 0)
    BY StepKinds, StepsFair, StepsQuiet, HarmlessRequests, Literals
    DEF Settled, Get, Send, Endings, GivesUp
  <2>3. Fulfils(s, {"groups"})
    BY StepKinds, KeptRequests, Literals, SMTT(20) DEF Fulfils, Get, Send
  <2> QED BY <2>1, <2>2, <2>3 DEF IsSettled
<1>4. IsSettled(Command.getGroupInfo)
  <2> DEFINE s == <<Get(<<"groups", "x">>)>>
  <2>1. Command.getGroupInfo = s
    BY DEF Command, getGroupInfo
  <2>2. Settled(s, 0)
    BY StepKinds, StepsFair, StepsQuiet, HarmlessRequests, Literals
    DEF Settled, Get, Send, Endings, GivesUp
  <2> QED BY <2>1, <2>2 DEF IsSettled
<1>5. IsSettled(Command.listGroups)
  <2> DEFINE s == <<Get(<<"groups">>)>>
  <2>1. Command.listGroups = s
    BY DEF Command, listGroups
  <2>2. Settled(s, 0)
    BY StepKinds, StepsFair, StepsQuiet, HarmlessRequests, Literals
    DEF Settled, Get, Send, Endings, GivesUp
  <2> QED BY <2>1, <2>2 DEF IsSettled
<1>6. IsSettled(Command.fetchCurrentProfile)
  <2> DEFINE s == <<Get(<<"whoami">>)>>
  <2>1. Command.fetchCurrentProfile = s
    BY DEF Command, fetchCurrentProfile
  <2>2. Settled(s, 0)
    BY StepKinds, StepsFair, StepsQuiet, HarmlessRequests, Literals
    DEF Settled, Get, Send, Endings, GivesUp
  <2> QED BY <2>1, <2>2 DEF IsSettled
<1>7. IsSettled(Command.getUserInfo)
  <2> DEFINE s == <<Check({"verifyUserID"}, "stopped"), Get(<<"users", "x">>)>>
  <2>1. Command.getUserInfo = s
    BY DEF Command, getUserInfo
  <2>2. Settled(s, 1)
    BY StepKinds, StepsFair, StepsQuiet, HarmlessRequests, Literals
    DEF Settled, Get, Send, Endings, GivesUp
  <2> QED BY <2>1, <2>2 DEF IsSettled
<1>8. IsSettled(Command.listUsers)
  <2> DEFINE s == <<Check({"noGroup", "verifyGroupID"}, "stopped"), Get(<<"users">>)>>
  <2>1. Command.listUsers = s
    BY DEF Command, listUsers
  <2>2. Settled(s, 1)
    BY StepKinds, StepsFair, StepsQuiet, HarmlessRequests, Literals
    DEF Settled, Get, Send, Endings, GivesUp
  <2> QED BY <2>1, <2>2 DEF IsSettled
<1>9. IsSettled(Command.listUserGroups)
  <2> DEFINE s == <<Check({"noID", "verifyUserID"}, "stopped"),
                    SendOne({Url("GET", <<"whoami">>), Url("GET", <<"users", "x">>)}, {},
                        "failed", "failed"),
                    Get(<<"users", "x", "groups">>)>>
  <2>1. Command.listUserGroups = s
    BY Join21 DEF Command, listUserGroups, fetchUser
  <2>2. Settled(s, 1)
    BY StepKinds, StepsFair, StepsQuiet, HarmlessRequests, Literals
    DEF Settled, Get, Send, Endings, GivesUp
  <2> QED BY <2>1, <2>2 DEF IsSettled
<1>10. IsSettled(Command.createUser) /\ Fulfils(Command.createUser, {"users"})
  <2> DEFINE s == <<Send("POST", <<"users">>, Body)>>
  <2>1. Command.createUser = s
    BY DEF Command, createUser
  <2>2. Settled(s, 0)
    BY StepKinds, StepsFair, StepsQuiet, HarmlessRequests, Literals
    DEF Settled, Send, Endings, GivesUp
  <2>3. Fulfils(s, {"users"})
    BY StepKinds, KeptRequests, Literals, SMTT(20) DEF Fulfils, Send
  <2> QED BY <2>1, <2>2, <2>3 DEF IsSettled
<1>11. IsSettled(Command.removeUser) /\ Fulfils(Command.removeUser, {"users"})
  <2> DEFINE s == <<Check({"verifyUserID"}, "stopped"), Get(<<"users", "x">>),
                    Check({"yes"}, "stopped"), Send("DELETE", <<"users", "x">>, {})>>
  <2>1. Command.removeUser = s
    BY DEF Command, removeUser
  <2>2. Settled(s, 3)
    BY StepKinds, StepsFair, StepsQuiet, HarmlessRequests, Literals
    DEF Settled, Get, Send, Endings, GivesUp
  <2>3. Fulfils(s, {"users"})
    BY StepKinds, KeptRequests, Literals, SMTT(20) DEF Fulfils, Get, Send
  <2> QED BY <2>1, <2>2, <2>3 DEF IsSettled
<1>12. IsSettled(Command.updateUser) /\ Fulfils(Command.updateUser, {"users"})
  <2> DEFINE s == <<Check({"noID", "verifyUserID"}, "stopped"),
                    SendOne({Url("GET", <<"whoami">>), Url("GET", <<"users", "x">>)}, {},
                        "failed", "failed"),
                    Send("PUT", <<"users", "x">>, Body)>>
  <2>1. Command.updateUser = s
    BY Join21 DEF Command, updateUser, fetchUser
  <2>2. Settled(s, 1)
    BY StepKinds, StepsFair, StepsQuiet, HarmlessRequests, Literals
    DEF Settled, Send, Endings, GivesUp
  <2>3. Fulfils(s, {"users"})
    BY StepKinds, KeptRequests, Literals, SMTT(20) DEF Fulfils, Send
  <2> QED BY <2>1, <2>2, <2>3 DEF IsSettled
<1>13. IsSettled(Command.addUserToGroup) /\ Fulfils(Command.addUserToGroup, {"memberships"})
  <2> DEFINE s == <<Check({"verifyUserID"}, "stopped"),
                    Send("PUT", <<"users", "x", "groups", "x">>, {})>>
  <2>1. Command.addUserToGroup = s
    BY DEF Command, addUserToGroup
  <2>2. Settled(s, 1)
    BY StepKinds, StepsFair, StepsQuiet, HarmlessRequests, Literals
    DEF Settled, Send, Endings, GivesUp
  <2>3. Fulfils(s, {"memberships"})
    BY StepKinds, KeptRequests, Literals, SMTT(20) DEF Fulfils, Send
  <2> QED BY <2>1, <2>2, <2>3 DEF IsSettled
<1>14. IsSettled(Command.removeUserFromGroup) /\ Fulfils(Command.removeUserFromGroup, {"memberships"})
  <2> DEFINE s == <<Check({"verifyUserID"}, "stopped"),
                    Send("DELETE", <<"users", "x", "groups", "x">>, {})>>
  <2>1. Command.removeUserFromGroup = s
    BY DEF Command, removeUserFromGroup
  <2>2. Settled(s, 1)
    BY StepKinds, StepsFair, StepsQuiet, HarmlessRequests, Literals
    DEF Settled, Send, Endings, GivesUp
  <2>3. Fulfils(s, {"memberships"})
    BY StepKinds, KeptRequests, Literals, SMTT(20) DEF Fulfils, Send
  <2> QED BY <2>1, <2>2, <2>3 DEF IsSettled
<1>15. IsSettled(Command.updateUserToken) /\ Fulfils(Command.updateUserToken, {"users"})
  <2> DEFINE s == <<Check({"noID", "verifyUserID"}, "stopped"),
                    SendOne({Url("GET", <<"whoami">>), Url("GET", <<"users", "x">>)}, {},
                        "failed", "failed"),
                    Check({"yes"}, "stopped"),
                    SendOne({Url("GET", <<"whoami">>)}, {}, "ignored", "ignored"),
                    Get(<<"users", "x", "replace_token">>)>>
  <2>1. Command.updateUserToken = s
    BY Join23 DEF Command, updateUserToken, fetchUser
  <2>2. Settled(s, 3)
    BY StepKinds, StepsFair, StepsQuiet, HarmlessRequests, Literals
    DEF Settled, Get, Send, Endings, GivesUp
  <2>3. Fulfils(s, {"users"})
    BY StepKinds, KeptRequests, Literals, SMTT(20) DEF Fulfils, Get, Send
  <2> QED BY <2>1, <2>2, <2>3 DEF IsSettled
<1> QED BY <1>1, <1>2, <1>3, <1>4, <1>5, <1>6, <1>7, <1>8, <1>9, <1>10, <1>11, <1>12, <1>13,
        <1>14, <1>15

(* Clusters.                                                              *)
LEMMA SettledClusters ==
  /\ IsSettled(Command.listClusters) /\ IsSettled(Command.createCluster)
  /\ IsSettled(Command.listClustersAccessibleToGroup) /\ IsSettled(Command.updateCluster)
  /\ IsSettled(Command.deleteCluster) /\ IsSettled(Command.getClusterInfo)
  /\ IsSettled(Command.grantGroupClusterAccess) /\ IsSettled(Command.revokeGroupClusterAccess)
  /\ IsSettled(Command.listGroupWithAccessToCluster)
  /\ IsSettled(Command.listAllowedApplications) /\ IsSettled(Command.allowGroupUseOfApplication)
  /\ IsSettled(Command.denyGroupUseOfApplication) /\ IsSettled(Command.pingCluster)
  /\ Fulfils(Command.createCluster, {"clusters"})
  /\ Fulfils(Command.deleteCluster, {"clusters"})
  /\ Fulfils(Command.revokeGroupClusterAccess, {"access"})
  /\ Fulfils(Command.allowGroupUseOfApplication, {"permissions"})
  /\ Fulfils(Command.denyGroupUseOfApplication, {"permissions"})
<1>1. IsSettled(Command.listClusters)
  <2> DEFINE s == <<Get(<<"clusters">>)>>
  <2>1. Command.listClusters = s
    BY DEF Command, listClusters, getClusterList
  <2>2. Settled(s, 0)
    BY StepKinds, StepsFair, StepsQuiet, HarmlessRequests, Literals
    DEF Settled, Get, Send, Endings, GivesUp
  <2> QED BY <2>1, <2>2 DEF IsSettled
<1>2. IsSettled(Command.createCluster) /\ Fulfils(Command.createCluster, {"clusters"})
  <2> DEFINE s == <<Check({"name"}, "failed"), Check({} \cup {"oneFile", "yes"}, "failed"),
                    Check({} \cup {"kubeconfig"}, "failed"), Check({"token"}, "failed"),
                    Check({"prepared"}, "failed"), Send("POST", <<"clusters">>, Body)>>
  <2> DEFINE first == <<Check({"name"}, "failed")>> \o <<Check({} \cup {"oneFile", "yes"}, "failed"),
                                    Check({} \cup {"kubeconfig"}, "failed")>>
             both == <<Check({"name"}, "failed"), Check({} \cup {"oneFile", "yes"}, "failed"),
                       Check({} \cup {"kubeconfig"}, "failed")>>
             rest == <<Check({"token"}, "failed"), Check({"prepared"}, "failed"),
                       Send("POST", <<"clusters">>, Body)>>
  <2>3. Command.createCluster = first \o rest
    BY DEF Command, createCluster, getKubeconfigPath
  <2>4. first = both
    BY Join12
  <2>5. both \o rest = s
    BY Join33
  <2> HIDE DEF first, both, rest, s
  <2>1. Command.createCluster = s
    BY <2>3, <2>4, <2>5
  <2> USE DEF s
  <2>2. Settled(s, 0)
    BY StepKinds, StepsFair, StepsQuiet, HarmlessRequests, Literals
    DEF Settled, Send, Endings, GivesUp
  <2>6. Fulfils(s, {"clusters"})
    BY StepKinds, KeptRequests, Literals, SMTT(20) DEF Fulfils, Send
  <2> QED BY <2>1, <2>2, <2>6 DEF IsSettled
<1>3. IsSettled(Command.listClustersAccessibleToGroup)
  <2> DEFINE s == <<Get(<<"clusters">>),
                    Send("POST", <<"multiplex">>, Body \cup {"stringBody"}),
                    Check({"items"}, "failed")>>
  <2>1. Command.listClustersAccessibleToGroup = s
    BY Join12 DEF Command, listClustersAccessibleToGroup, getClusterList
  <2>2. Settled(s, 0)
    BY StepKinds, StepsFair, StepsQuiet, HarmlessRequests, Literals
    DEF Settled, Get, Send, Endings, GivesUp
  <2> QED BY <2>1, <2>2 DEF IsSettled
<1>4. IsSettled(Command.updateCluster)
  <2> DEFINE s == <<Check({"token"}, "failed"),
                    Check({"sameKubeconfig"} \cup {"oneFile", "yes"}, "failed"),
                    Check({"sameKubeconfig"} \cup {"kubeconfig"}, "failed"),
                    Check({"sameKubeconfig", "prepared"}, "failed"),
                    Send("PUT", <<"clusters", "x">>, Body)>>
  <2> DEFINE first == <<Check({"token"},
          "failed")>> \o <<Check({"sameKubeconfig"} \cup {"oneFile", "yes"}, "failed"),
                                    Check({"sameKubeconfig"} \cup {"kubeconfig"}, "failed")>>
             both == <<Check({"token"}, "failed"),
                       Check({"sameKubeconfig"} \cup {"oneFile", "yes"}, "failed"),
                       Check({"sameKubeconfig"} \cup {"kubeconfig"}, "failed")>>
             rest == <<Check({"sameKubeconfig", "prepared"}, "failed"),
                       Send("PUT", <<"clusters", "x">>, Body)>>
  <2>3. Command.updateCluster = first \o rest
    BY DEF Command, updateCluster, getKubeconfigPath
  <2>4. first = both
    BY Join12
  <2>5. both \o rest = s
    BY Join32
  <2> HIDE DEF first, both, rest, s
  <2>1. Command.updateCluster = s
    BY <2>3, <2>4, <2>5
  <2> USE DEF s
  <2>2. Settled(s, 0)
    BY StepKinds, StepsFair, StepsQuiet, HarmlessRequests, Literals
    DEF Settled, Send, Endings, GivesUp
  <2> QED BY <2>1, <2>2 DEF IsSettled
<1>5. IsSettled(Command.deleteCluster) /\ Fulfils(Command.deleteCluster, {"clusters"})
  <2> DEFINE s == <<Skip({"assumeYes", "force"}), Get(<<"clusters", "x">>),
                    Check({"yes"}, "failed"), Send("DELETE", <<"clusters", "x">>, {})>>
  <2>1. Command.deleteCluster = s
    BY Join31 DEF Command, deleteCluster, confirmDeletion
  <2>2. Settled(s, 0)
    BY StepKinds, StepsFair, StepsQuiet, HarmlessRequests, Literals
    DEF Settled, Get, Send, Endings, GivesUp
  <2>3. Fulfils(s, {"clusters"})
    BY StepKinds, KeptRequests, Literals, SMTT(20) DEF Fulfils, Get, Send
  <2> QED BY <2>1, <2>2, <2>3 DEF IsSettled
<1>6. IsSettled(Command.getClusterInfo)
  <2> DEFINE s == <<Get(<<"clusters", "x">>)>>
  <2>1. Command.getClusterInfo = s
    BY DEF Command, getClusterInfo
  <2>2. Settled(s, 0)
    BY StepKinds, StepsFair, StepsQuiet, HarmlessRequests, Literals
    DEF Settled, Get, Send, Endings, GivesUp
  <2> QED BY <2>1, <2>2 DEF IsSettled
<1>7. IsSettled(Command.grantGroupClusterAccess)
  <2> DEFINE s == <<Send("PUT", <<"clusters", "x", "allowed_groups", "x">>, {})>>
  <2>1. Command.grantGroupClusterAccess = s
    BY DEF Command, grantGroupClusterAccess
  <2>2. Settled(s, 0)
    BY StepKinds, StepsFair, StepsQuiet, HarmlessRequests, Literals
    DEF Settled, Send, Endings, GivesUp
  <2> QED BY <2>1, <2>2 DEF IsSettled
<1>8. IsSettled(Command.revokeGroupClusterAccess)
          /\ Fulfils(Command.revokeGroupClusterAccess, {"access"})
  <2> DEFINE s == <<Send("DELETE", <<"clusters", "x", "allowed_groups", "x">>, {})>>
  <2>1. Command.revokeGroupClusterAccess = s
    BY DEF Command, revokeGroupClusterAccess
  <2>2. Settled(s, 0)
    BY StepKinds, StepsFair, StepsQuiet, HarmlessRequests, Literals
    DEF Settled, Send, Endings, GivesUp
  <2>3. Fulfils(s, {"access"})
    BY StepKinds, KeptRequests, Literals, SMTT(20) DEF Fulfils, Send
  <2> QED BY <2>1, <2>2, <2>3 DEF IsSettled
<1>9. IsSettled(Command.listGroupWithAccessToCluster)
  <2> DEFINE s == <<Get(<<"clusters", "x", "allowed_groups">>)>>
  <2>1. Command.listGroupWithAccessToCluster = s
    BY DEF Command, listGroupWithAccessToCluster
  <2>2. Settled(s, 0)
    BY StepKinds, StepsFair, StepsQuiet, HarmlessRequests, Literals
    DEF Settled, Get, Send, Endings, GivesUp
  <2> QED BY <2>1, <2>2 DEF IsSettled
<1>10. IsSettled(Command.listAllowedApplications)
  <2> DEFINE s == <<Get(<<"clusters", "x", "allowed_groups", "x", "applications">>)>>
  <2>1. Command.listAllowedApplications = s
    BY DEF Command, listAllowedApplications
  <2>2. Settled(s, 0)
    BY StepKinds, StepsFair, StepsQuiet, HarmlessRequests, Literals
    DEF Settled, Get, Send, Endings, GivesUp
  <2> QED BY <2>1, <2>2 DEF IsSettled
<1>11. IsSettled(Command.allowGroupUseOfApplication)
           /\ Fulfils(Command.allowGroupUseOfApplication, {"permissions"})
  <2> DEFINE s == <<Send("PUT", <<"clusters", "x", "allowed_groups", "x", "applications", "x">>, {})>>
  <2>1. Command.allowGroupUseOfApplication = s
    BY DEF Command, allowGroupUseOfApplication
  <2>2. Settled(s, 0)
    BY StepKinds, StepsFair, StepsQuiet, HarmlessRequests, Literals
    DEF Settled, Send, Endings, GivesUp
  <2>3. Fulfils(s, {"permissions"})
    BY StepKinds, KeptRequests, Literals, SMTT(20) DEF Fulfils, Send
  <2> QED BY <2>1, <2>2, <2>3 DEF IsSettled
<1>12. IsSettled(Command.denyGroupUseOfApplication)
           /\ Fulfils(Command.denyGroupUseOfApplication, {"permissions"})
  <2> DEFINE s == <<Send("DELETE",
          <<"clusters", "x", "allowed_groups", "x", "applications", "x">>, {})>>
  <2>1. Command.denyGroupUseOfApplication = s
    BY DEF Command, denyGroupUseOfApplication
  <2>2. Settled(s, 0)
    BY StepKinds, StepsFair, StepsQuiet, HarmlessRequests, Literals
    DEF Settled, Send, Endings, GivesUp
  <2>3. Fulfils(s, {"permissions"})
    BY StepKinds, KeptRequests, Literals, SMTT(20) DEF Fulfils, Send
  <2> QED BY <2>1, <2>2, <2>3 DEF IsSettled
<1>13. IsSettled(Command.pingCluster)
  <2> DEFINE s == <<SendOne({Url("GET", <<"clusters", "x", "ping">>)}, {}, "printed", "printed")>>
  <2>1. Command.pingCluster = s
    BY DEF Command, pingCluster
  <2>2. Settled(s, 0)
    BY StepKinds, StepsFair, StepsQuiet, HarmlessRequests, Literals
    DEF Settled, Endings, GivesUp
  <2> QED BY <2>1, <2>2 DEF IsSettled
<1> QED BY <1>1, <1>2, <1>3, <1>4, <1>5, <1>6, <1>7, <1>8, <1>9, <1>10, <1>11, <1>12, <1>13

(* Applications and instances.                                            *)
LEMMA SettledInstances ==
  /\ IsSettled(Command.listApplications) /\ IsSettled(Command.getApplicationConf)
  /\ IsSettled(Command.getApplicationVersions) /\ IsSettled(Command.getApplicationDocs)
  /\ IsSettled(Command.installApplication) /\ IsSettled(Command.listInstances)
  /\ IsSettled(Command.getInstanceInfo) /\ IsSettled(Command.restartInstance)
  /\ IsSettled(Command.updateInstance) /\ IsSettled(Command.deleteInstance)
  /\ IsSettled(Command.fetchInstanceLogs) /\ IsSettled(Command.scaleInstance)
  /\ Fulfils(Command.installApplication, {"instances", "namespace", "objects"})
  /\ Fulfils(Command.restartInstance, {"namespace", "objects"})
  /\ Fulfils(Command.updateInstance, {"namespace", "objects"})
  /\ Fulfils(Command.deleteInstance, {"instances"})
<1>1. IsSettled(Command.listApplications)
  <2> DEFINE s == <<Get(<<"apps">>)>>
  <2>1. Command.listApplications = s
    BY DEF Command, listApplications
  <2>2. Settled(s, 0)
    BY StepKinds, StepsFair, StepsQuiet, HarmlessRequests, Literals
    DEF Settled, Get, Send, Endings, GivesUp
  <2> QED BY <2>1, <2>2 DEF IsSettled
<1>2. IsSettled(Command.getApplicationConf)
  <2> DEFINE s == <<Get(<<"apps", "x">>), Check({"toScreen", "writable"}, "failed")>>
  <2>1. Command.getApplicationConf = s
    BY DEF Command, getApplicationConf
  <2>2. Settled(s, 0)
    BY StepKinds, StepsFair, StepsQuiet, HarmlessRequests, Literals
    DEF Settled, Get, Send, Endings, GivesUp
  <2> QED BY <2>1, <2>2 DEF IsSettled
<1>3. IsSettled(Command.getApplicationVersions)
  <2> DEFINE s == <<Get(<<"apps", "x", "versions">>),
                    Check({"toScreen", "writable"}, "failed")>>
  <2>1. Command.getApplicationVersions = s
    BY DEF Command, getApplicationVersions
  <2>2. Settled(s, 0)
    BY StepKinds, StepsFair, StepsQuiet, HarmlessRequests, Literals
    DEF Settled, Get, Send, Endings, GivesUp
  <2> QED BY <2>1, <2>2 DEF IsSettled
<1>4. IsSettled(Command.getApplicationDocs)
  <2> DEFINE s == <<Get(<<"apps", "x", "info">>), Check({"toScreen", "writable"}, "failed")>>
  <2>1. Command.getApplicationDocs = s
    BY DEF Command, getApplicationDocs
  <2>2. Settled(s, 0)
    BY StepKinds, StepsFair, StepsQuiet, HarmlessRequests, Literals
    DEF Settled, Get, Send, Endings, GivesUp
  <2> QED BY <2>1, <2>2 DEF IsSettled
<1>5. IsSettled(Command.installApplication)
          /\ Fulfils(Command.installApplication, {"instances", "namespace", "objects"})
  <2> DEFINE s == <<Check({"noConfig", "configRead"}, "failed"),
                    Check({"remoteChart", "chartRead"}, "failed"),
                    SendOne({Url("POST", <<"apps", "x">>), Url("POST", <<"apps", "ad-hoc">>)},
                        Body, "failed", "failed")>>
  <2>1. Command.installApplication = s
    BY DEF Command, installApplication
  <2>2. Settled(s, 0)
    BY StepKinds, StepsFair, StepsQuiet, HarmlessRequests, Literals
    DEF Settled, Endings, GivesUp
  <2>3. Fulfils(s, {"instances", "namespace", "objects"})
    BY StepKinds, KeptRequests, Literals, SMTT(20) DEF Fulfils
  <2> QED BY <2>1, <2>2, <2>3 DEF IsSettled
<1>6. IsSettled(Command.listInstances)
  <2> DEFINE s == <<Get(<<"instances">>)>>
  <2>1. Command.listInstances = s
    BY DEF Command, listInstances
  <2>2. Settled(s, 0)
    BY StepKinds, StepsFair, StepsQuiet, HarmlessRequests, Literals
    DEF Settled, Get, Send, Endings, GivesUp
  <2> QED BY <2>1, <2>2 DEF IsSettled
<1>7. IsSettled(Command.getInstanceInfo)
  <2> DEFINE s == <<Check({"verifyInstanceID"}, "fixup"),
                    SendInstance("GET", <<"instances", "x">>, {})>>
  <2>1. Command.getInstanceInfo = s
    BY Join11 DEF Command, getInstanceInfo, byInstanceID
  <2>2. Settled(s, 1)
    BY StepKinds, StepsFair, StepsQuiet, HarmlessRequests, Literals
    DEF Settled, SendInstance, Endings, GivesUp
  <2> QED BY <2>1, <2>2 DEF IsSettled
<1>8. IsSettled(Command.restartInstance) /\ Fulfils(Command.restartInstance, {"namespace", "objects"})
  <2> DEFINE s == <<Check({"verifyInstanceID"}, "fixup"),
                    SendInstance("PUT", <<"instances", "x", "restart">>, {})>>
  <2>1. Command.restartInstance = s
    BY Join11 DEF Command, restartInstance, byInstanceID
  <2>2. Settled(s, 1)
    BY StepKinds, StepsFair, StepsQuiet, HarmlessRequests, Literals
    DEF Settled, SendInstance, Endings, GivesUp
  <2>3. Fulfils(s, {"namespace", "objects"})
    BY StepKinds, KeptRequests, Literals, SMTT(20) DEF Fulfils, SendInstance
  <2> QED BY <2>1, <2>2, <2>3 DEF IsSettled
<1>9. IsSettled(Command.updateInstance) /\ Fulfils(Command.updateInstance, {"namespace", "objects"})
  <2> DEFINE s == <<Check({"verifyInstanceID"}, "fixup"),
                    Check({"noConfig", "configRead"}, "failed"),
                    SendInstance("PUT", <<"instances", "x", "update">>, Body)>>
  <2>1. Command.updateInstance = s
    BY Join12 DEF Command, updateInstance, byInstanceID
  <2>2. Settled(s, 2)
    BY StepKinds, StepsFair, StepsQuiet, HarmlessRequests, Literals
    DEF Settled, SendInstance, Endings, GivesUp
  <2>3. Fulfils(s, {"namespace", "objects"})
    BY StepKinds, KeptRequests, Literals, SMTT(20) DEF Fulfils, SendInstance
  <2> QED BY <2>1, <2>2, <2>3 DEF IsSettled
<1>10. IsSettled(Command.deleteInstance) /\ Fulfils(Command.deleteInstance, {"instances"})
  <2> DEFINE s == <<Check({"verifyInstanceID"}, "fixup"), Skip({"assumeYes", "force"}),
                    SendInstance("GET", <<"instances", "x">>, {}), Check({"yes"}, "failed"),
                    SendInstance("DELETE", <<"instances", "x">>, {})>>
  <2>1. Command.deleteInstance = s
    BY Join14 DEF Command, deleteInstance, byInstanceID
  <2>2. Settled(s, 4)
    BY StepKinds, StepsFair, StepsQuiet, HarmlessRequests, Literals
    DEF Settled, SendInstance, Endings, GivesUp
  <2>3. Fulfils(s, {"instances"})
    BY StepKinds, KeptRequests, Literals, SMTT(20) DEF Fulfils, SendInstance
  <2> QED BY <2>1, <2>2, <2>3 DEF IsSettled
<1>11. IsSettled(Command.fetchInstanceLogs)
  <2> DEFINE s == <<Check({"verifyInstanceID"}, "fixup"),
                    SendInstance("GET", <<"instances", "x", "logs">>, {}),
                    Check({"logs"}, "failed")>>
  <2>1. Command.fetchInstanceLogs = s
    BY Join12 DEF Command, fetchInstanceLogs, byInstanceID
  <2>2. Settled(s, 1)
    BY StepKinds, StepsFair, StepsQuiet, HarmlessRequests, Literals
    DEF Settled, SendInstance, Endings, GivesUp
  <2> QED BY <2>1, <2>2 DEF IsSettled
<1>12. IsSettled(Command.scaleInstance)
  <2> DEFINE s == <<Check({"verifyInstanceID"}, "fixup"),
                    SendOne({Url("GET", <<"instances", "x", "scale">>),
                        Url("PUT", <<"instances", "x", "scale">>)}, {"parameter"}, "failed",
                            "fixup")>>
  <2>1. Command.scaleInstance = s
    BY Join11 DEF Command, scaleInstance, byInstanceID
  <2>2. Settled(s, 1)
    BY StepKinds, StepsFair, StepsQuiet, HarmlessRequests, Literals
    DEF Settled, Endings, GivesUp
  <2> QED BY <2>1, <2>2 DEF IsSettled
<1> QED BY <1>1, <1>2, <1>3, <1>4, <1>5, <1>6, <1>7, <1>8, <1>9, <1>10, <1>11, <1>12

(* Secrets and volumes; the version of the programs.                      *)
LEMMA SettledObjects ==
  /\ IsSettled(Command.listSecrets) /\ IsSettled(Command.getSecretInfo)
  /\ IsSettled(Command.createSecret) /\ IsSettled(Command.copySecret)
  /\ IsSettled(Command.deleteSecret) /\ IsSettled(Command.listVolumes)
  /\ IsSettled(Command.getVolumeInfo) /\ IsSettled(Command.createVolume)
  /\ IsSettled(Command.deleteVolume) /\ IsSettled(Command.printVersion)
  /\ IsSettled(Command.upgrade) /\ IsSettled(Command.otherClient)
  /\ Fulfils(Command.createSecret, {"secrets", "namespace", "objects"})
  /\ Fulfils(Command.copySecret, {"secrets", "namespace", "objects"})
  /\ Fulfils(Command.deleteSecret, {"secrets"})
  /\ Fulfils(Command.createVolume, {"volumes", "namespace", "objects"})
  /\ Fulfils(Command.deleteVolume, {"volumes"})
<1>1. IsSettled(Command.listSecrets)
  <2> DEFINE s == <<Send("GET", <<"secrets">>, {"parameter"})>>
  <2>1. Command.listSecrets = s
    BY DEF Command, listSecrets
  <2>2. Settled(s, 0)
    BY StepKinds, StepsFair, StepsQuiet, HarmlessRequests, Literals
    DEF Settled, Send, Endings, GivesUp
  <2> QED BY <2>1, <2>2 DEF IsSettled
<1>2. IsSettled(Command.getSecretInfo)
  <2> DEFINE s == <<Check({"verifySecretID"}, "failed"), Get(<<"secrets", "x">>)>>
  <2>1. Command.getSecretInfo = s
    BY DEF Command, getSecretInfo
  <2>2. Settled(s, 0)
    BY StepKinds, StepsFair, StepsQuiet, HarmlessRequests, Literals
    DEF Settled, Get, Send, Endings, GivesUp
  <2> QED BY <2>1, <2>2 DEF IsSettled
<1>3. IsSettled(Command.createSecret)
          /\ Fulfils(Command.createSecret, {"secrets", "namespace", "objects"})
  <2> DEFINE s == <<Check({"pairs"}, "stopped"), Send("POST", <<"secrets">>, Body)>>
  <2>1. Command.createSecret = s
    BY DEF Command, createSecret
  <2>2. Settled(s, 1)
    BY StepKinds, StepsFair, StepsQuiet, HarmlessRequests, Literals
    DEF Settled, Send, Endings, GivesUp
  <2>3. Fulfils(s, {"secrets", "namespace", "objects"})
    BY StepKinds, KeptRequests, Literals, SMTT(20) DEF Fulfils, Send
  <2> QED BY <2>1, <2>2, <2>3 DEF IsSettled
<1>4. IsSettled(Command.copySecret)
          /\ Fulfils(Command.copySecret, {"secrets", "namespace", "objects"})
  <2> DEFINE s == <<Check({"verifySecretID"}, "failed"), Send("POST", <<"secrets">>, Body)>>
  <2>1. Command.copySecret = s
    BY DEF Command, copySecret
  <2>2. Settled(s, 0)
    BY StepKinds, StepsFair, StepsQuiet, HarmlessRequests, Literals
    DEF Settled, Send, Endings, GivesUp
  <2>3. Fulfils(s, {"secrets", "namespace", "objects"})
    BY StepKinds, KeptRequests, Literals, SMTT(20) DEF Fulfils, Send
  <2> QED BY <2>1, <2>2, <2>3 DEF IsSettled
<1>5. IsSettled(Command.deleteSecret) /\ Fulfils(Command.deleteSecret, {"secrets"})
  <2> DEFINE s == <<Check({"verifySecretID"}, "failed"), Skip({"assumeYes", "force"}),
                    Get(<<"secrets", "x">>), Check({"yes"}, "failed"),
                    Send("DELETE", <<"secrets", "x">>, {})>>
  <2> DEFINE first == <<Check({"verifySecretID"}, "failed")>> \o <<Skip({"assumeYes", "force"}),
          Get(<<"secrets", "x">>),
                                    Check({"yes"}, "failed")>>
             both == <<Check({"verifySecretID"}, "failed"), Skip({"assumeYes", "force"}),
                       Get(<<"secrets", "x">>), Check({"yes"}, "failed")>>
             rest == <<Send("DELETE", <<"secrets", "x">>, {})>>
  <2>3. Command.deleteSecret = first \o rest
    BY DEF Command, deleteSecret, confirmDeletion
  <2>4. first = both
    BY Join13
  <2>5. both \o rest = s
    BY Join41
  <2> HIDE DEF first, both, rest, s
  <2>1. Command.deleteSecret = s
    BY <2>3, <2>4, <2>5
  <2> USE DEF s
  <2>2. Settled(s, 0)
    BY StepKinds, StepsFair, StepsQuiet, HarmlessRequests, Literals
    DEF Settled, Get, Send, Endings, GivesUp
  <2>6. Fulfils(s, {"secrets"})
    BY StepKinds, KeptRequests, Literals, SMTT(20) DEF Fulfils, Get, Send
  <2> QED BY <2>1, <2>2, <2>6 DEF IsSettled
<1>6. IsSettled(Command.listVolumes)
  <2> DEFINE s == <<Get(<<"volumes">>)>>
  <2>1. Command.listVolumes = s
    BY DEF Command, listVolumes
  <2>2. Settled(s, 0)
    BY StepKinds, StepsFair, StepsQuiet, HarmlessRequests, Literals
    DEF Settled, Get, Send, Endings, GivesUp
  <2> QED BY <2>1, <2>2 DEF IsSettled
<1>7. IsSettled(Command.getVolumeInfo)
  <2> DEFINE s == <<Check({"verifyVolumeID"}, "failed"), Get(<<"volumes", "x">>)>>
  <2>1. Command.getVolumeInfo = s
    BY DEF Command, getVolumeInfo
  <2>2. Settled(s, 0)
    BY StepKinds, StepsFair, StepsQuiet, HarmlessRequests, Literals
    DEF Settled, Get, Send, Endings, GivesUp
  <2> QED BY <2>1, <2>2 DEF IsSettled
<1>8. IsSettled(Command.createVolume)
          /\ Fulfils(Command.createVolume, {"volumes", "namespace", "objects"})
  <2> DEFINE s == <<Send("POST", <<"volumes">>, Body)>>
  <2>1. Command.createVolume = s
    BY DEF Command, createVolume
  <2>2. Settled(s, 0)
    BY StepKinds, StepsFair, StepsQuiet, HarmlessRequests, Literals
    DEF Settled, Send, Endings, GivesUp
  <2>3. Fulfils(s, {"volumes", "namespace", "objects"})
    BY StepKinds, KeptRequests, Literals, SMTT(20) DEF Fulfils, Send
  <2> QED BY <2>1, <2>2, <2>3 DEF IsSettled
<1>9. IsSettled(Command.deleteVolume) /\ Fulfils(Command.deleteVolume, {"volumes"})
  <2> DEFINE s == <<Check({"verifyVolumeID"}, "failed"), Skip({"assumeYes", "force"}),
                    Get(<<"volumes", "x">>), Check({"yes"}, "failed"),
                    Send("DELETE", <<"volumes", "x">>, {})>>
  <2> DEFINE first == <<Check({"verifyVolumeID"}, "failed")>> \o <<Skip({"assumeYes", "force"}),
          Get(<<"volumes", "x">>),
                                    Check({"yes"}, "failed")>>
             both == <<Check({"verifyVolumeID"}, "failed"), Skip({"assumeYes", "force"}),
                       Get(<<"volumes", "x">>), Check({"yes"}, "failed")>>
             rest == <<Send("DELETE", <<"volumes", "x">>, {})>>
  <2>3. Command.deleteVolume = first \o rest
    BY DEF Command, deleteVolume, confirmDeletion
  <2>4. first = both
    BY Join13
  <2>5. both \o rest = s
    BY Join41
  <2> HIDE DEF first, both, rest, s
  <2>1. Command.deleteVolume = s
    BY <2>3, <2>4, <2>5
  <2> USE DEF s
  <2>2. Settled(s, 0)
    BY StepKinds, StepsFair, StepsQuiet, HarmlessRequests, Literals
    DEF Settled, Get, Send, Endings, GivesUp
  <2>6. Fulfils(s, {"volumes"})
    BY StepKinds, KeptRequests, Literals, SMTT(20) DEF Fulfils, Get, Send
  <2> QED BY <2>1, <2>2, <2>6 DEF IsSettled
<1>10. IsSettled(Command.printVersion)
  <2> DEFINE s == <<SendOne({[method |-> "GET", path |-> <<"version">>]}, {}, "ignored", "ignored")>>
  <2>1. Command.printVersion = s
    BY DEF Command, printVersion
  <2>2. Settled(s, 0)
    BY StepKinds, StepsFair, StepsQuiet, HarmlessRequests, Literals
    DEF Settled, Endings, GivesUp
  <2> QED BY <2>1, <2>2 DEF IsSettled
<1>11. IsSettled(Command.upgrade)
  <2> DEFINE s == <<Check({"released"}, "failed"), Check({"unversioned", "newer"}, "stopped"),
                    Check({"build"}, "failed"), Check({"assumeYes", "yes"}, "failed"),
                    Check({"download"}, "failed")>>
  <2>1. Command.upgrade = s
    BY DEF Command, upgrade
  <2>2. Settled(s, 2)
    BY StepKinds, StepsFair, StepsQuiet, HarmlessRequests, Literals
    DEF Settled, Endings, GivesUp
  <2> QED BY <2>1, <2>2 DEF IsSettled
<1>12. IsSettled(Command.otherClient)
  <2>1. \A requests : Settled(<<SendOne(requests, {}, "failed", "failed")>>, 0)
    BY StepKinds, StepsFair, StepsQuiet, Literals DEF Settled, Endings, GivesUp
  <2> QED BY <2>1 DEF IsSettled, Command, otherClient
<1> QED BY <1>1, <1>2, <1>3, <1>4, <1>5, <1>6, <1>7, <1>8, <1>9, <1>10, <1>11, <1>12

LEMMA SettledFixup ==
  LET s == retryInstanceCommandWithFixup
  IN  IsPiece(s) /\ \A i \in 1..Len(s) : Fair(s[i]) /\ Quiet(s[i])
BY StepKinds, StepsFair, StepsQuiet, HarmlessRequests, Literals
DEF retryInstanceCommandWithFixup, Endings

LEMMA NamesOfCommands ==
  DOMAIN Command = {"printVersion", "upgrade", "createGroup", "updateGroup", "deleteGroup",
                    "getGroupInfo", "listGroups", "fetchCurrentProfile", "getUserInfo",
                    "listUsers", "listUserGroups", "createUser", "removeUser", "updateUser",
                    "addUserToGroup", "removeUserFromGroup", "updateUserToken",
                    "listClusters", "createCluster", "listClustersAccessibleToGroup",
                    "updateCluster", "deleteCluster", "getClusterInfo",
                    "grantGroupClusterAccess", "revokeGroupClusterAccess",
                    "listGroupWithAccessToCluster", "listAllowedApplications",
                    "allowGroupUseOfApplication", "denyGroupUseOfApplication", "pingCluster",
                    "listApplications", "getApplicationConf", "getApplicationVersions",
                    "getApplicationDocs", "installApplication", "listInstances",
                    "getInstanceInfo", "restartInstance", "updateInstance", "deleteInstance",
                    "fetchInstanceLogs", "scaleInstance", "listSecrets", "getSecretInfo",
                    "createSecret", "copySecret", "deleteSecret", "listVolumes",
                    "getVolumeInfo", "createVolume", "deleteVolume", "otherClient"}
BY DEF Command

LEMMA Commands == \A c \in DOMAIN Command : IsSettled(Command[c])
BY NamesOfCommands, SettledGroups, SettledClusters, SettledInstances, SettledObjects

KeepsPromise(c) == Promise(c) # {} => Fulfils(Command[c], Promise(c))

LEMMA Promises == \A c \in DOMAIN Command : KeepsPromise(c)
<1>1. KeepsPromise("createGroup")
  BY SettledGroups DEF KeepsPromise, Promise
<1>2. KeepsPromise("updateGroup")
  BY SettledGroups DEF KeepsPromise, Promise
<1>3. KeepsPromise("deleteGroup")
  BY SettledGroups DEF KeepsPromise, Promise
<1>4. KeepsPromise("createUser")
  BY SettledGroups DEF KeepsPromise, Promise
<1>5. KeepsPromise("removeUser")
  BY SettledGroups DEF KeepsPromise, Promise
<1>6. KeepsPromise("updateUser")
  BY SettledGroups DEF KeepsPromise, Promise
<1>7. KeepsPromise("addUserToGroup")
  BY SettledGroups DEF KeepsPromise, Promise
<1>8. KeepsPromise("removeUserFromGroup")
  BY SettledGroups DEF KeepsPromise, Promise
<1>9. KeepsPromise("updateUserToken")
  BY SettledGroups DEF KeepsPromise, Promise
<1>10. KeepsPromise("createCluster")
  BY SettledClusters DEF KeepsPromise, Promise
<1>11. KeepsPromise("deleteCluster")
  BY SettledClusters DEF KeepsPromise, Promise
<1>12. KeepsPromise("revokeGroupClusterAccess")
  BY SettledClusters DEF KeepsPromise, Promise
<1>13. KeepsPromise("allowGroupUseOfApplication")
  BY SettledClusters DEF KeepsPromise, Promise
<1>14. KeepsPromise("denyGroupUseOfApplication")
  BY SettledClusters DEF KeepsPromise, Promise
<1>15. KeepsPromise("installApplication")
  BY SettledInstances DEF KeepsPromise, Promise
<1>16. KeepsPromise("restartInstance")
  BY SettledInstances DEF KeepsPromise, Promise
<1>17. KeepsPromise("updateInstance")
  BY SettledInstances DEF KeepsPromise, Promise
<1>18. KeepsPromise("deleteInstance")
  BY SettledInstances DEF KeepsPromise, Promise
<1>19. KeepsPromise("createSecret")
  BY SettledObjects DEF KeepsPromise, Promise
<1>20. KeepsPromise("copySecret")
  BY SettledObjects DEF KeepsPromise, Promise
<1>21. KeepsPromise("deleteSecret")
  BY SettledObjects DEF KeepsPromise, Promise
<1>22. KeepsPromise("createVolume")
  BY SettledObjects DEF KeepsPromise, Promise
<1>23. KeepsPromise("deleteVolume")
  BY SettledObjects DEF KeepsPromise, Promise
<1>24. \A c \in {"printVersion", "upgrade", "getGroupInfo", "listGroups",
              "fetchCurrentProfile", "getUserInfo", "listUsers", "listUserGroups",
              "listClusters", "listClustersAccessibleToGroup", "updateCluster",
              "getClusterInfo", "grantGroupClusterAccess",
              "listGroupWithAccessToCluster", "listAllowedApplications", "pingCluster",
              "listApplications", "getApplicationConf", "getApplicationVersions",
              "getApplicationDocs", "listInstances", "getInstanceInfo",
              "fetchInstanceLogs", "scaleInstance", "listSecrets", "getSecretInfo",
              "listVolumes", "getVolumeInfo", "otherClient"} : Promise(c) = {}
  BY DEF Promise
<1>25. \A c \in {"createGroup", "updateGroup", "deleteGroup", "createUser",
              "removeUser", "updateUser", "addUserToGroup", "removeUserFromGroup",
              "updateUserToken", "createCluster", "deleteCluster",
              "revokeGroupClusterAccess", "allowGroupUseOfApplication",
              "denyGroupUseOfApplication", "installApplication", "restartInstance",
              "updateInstance", "deleteInstance", "createSecret", "copySecret",
              "deleteSecret", "createVolume", "deleteVolume"} : KeepsPromise(c)
  BY <1>1, <1>2, <1>3, <1>4, <1>5, <1>6, <1>7, <1>8, <1>9, <1>10, <1>11, <1>12, <1>13,
     <1>14, <1>15, <1>16, <1>17, <1>18, <1>19, <1>20, <1>21, <1>22, <1>23
<1> QED BY <1>24, <1>25, NamesOfCommands DEF KeepsPromise

-----------------------------------------------------------------------------
(* The request under way belongs to the step that waits for its answer.    *)
Underway ==
  /\ line <= Len(Script) /\ Doing.kind = "send"
  /\ \E request \in Doing.requests :
       /\ request.method \in {"PUT", "POST"} => \A fact \in Doing.given : Admitted(fact)
       /\ \/ endpoint = NoHandler /\ status = 404
          \/ \E route : /\ IsRoute(route) /\ Matches(route, request.method, request.path)
                        /\ endpoint = route.handler

ClientInv ==
  /\ command \in DOMAIN Command /\ script \in {"command", "fixup"} /\ line \in Nat \ {0}
  /\ lost => outcome # "running"
  /\ waiting /\ ~lost => outcome = "running" /\ Underway

(* What was changed was changed late enough for the command not to give up *)
(* without an error any more.                                              *)
LateChange(n) ==
  Settled(Command[command], n)
    /\ (caused # {} /\ outcome = "running" => script = "command" /\ line > n + 1)
Unspoilt ==
  /\ outcome = "stopped" => caused = {}
  /\ \E n \in Nat : LateChange(n)

(* How a step ends.                                                        *)
LEMMA EndsAs ==
  ASSUME NEW result \in Endings, endAs(result), outcome = "running"
  PROVE  \/ /\ result = "fixup" /\ script' = "fixup" /\ line' = 1 /\ outcome' = "running"
         \/ /\ result \in {"ignored", "printed"}
            /\ script' = script /\ line' = line + 1 /\ outcome' = "running"
         \/ /\ result # "fixup" /\ script' = script /\ line' = line
            /\ outcome' \in {"failed", "stopped"} /\ (outcome' = "stopped" => result = "stopped")
BY DEF endAs, goOn, Endings

LEMMA DoingFair ==
  ASSUME ClientInv, NEW n \in Nat, Settled(Command[command], n), line <= Len(Script)
  PROVE  /\ Fair(Doing)
         /\ script = "fixup" \/ line <= n => Quiet(Doing)
         /\ script = "command" /\ line > n => Doing.otherwise \notin GivesUp
         /\ script = "command" /\ line > n + 1 => Doing.notFound \notin GivesUp
<1>1. CASE script = "fixup"
  <2>1. Script = retryInstanceCommandWithFixup
    BY <1>1 DEF Script
  <2>2. line \in 1..Len(Script)
    BY <2>1, SettledFixup DEF ClientInv, IsPiece
  <2> QED BY <1>1, <2>1, <2>2, SettledFixup DEF Doing
<1>2. CASE script = "command"
  <2>1. Script = Command[command]
    BY <1>2 DEF Script
  <2>2. line \in 1..Len(Command[command]) /\ Doing = Command[command][line]
    BY <2>1 DEF ClientInv, Settled, Doing
  <2> QED BY <1>2, <2>2 DEF Settled
<1> QED BY <1>1, <1>2 DEF ClientInv

(* What an answer can report.                                              *)
LEMMA AnswersOf ==
  ASSUME ClientInv, ServerInv, waiting, ~lost, done # {}
  PROVE  ~Quiet(Doing) /\ status \notin 400..499
<1>1. status \notin 400..499
  BY Allowed DEF RefusedUnchanged
<1>2. endpoint # NoHandler
  BY DEF ServerInv
<1>3. ASSUME Quiet(Doing) PROVE FALSE
  <2>1. PICK request, route :
          /\ request \in Doing.requests /\ IsRoute(route)
          /\ Matches(route, request.method, request.path) /\ endpoint = route.handler
    BY <1>2 DEF ClientInv, Underway
  <2>2. Guarded(Handler[endpoint], {}, {})
    BY <1>3, <2>1 DEF Quiet, Harmless
  <2>3. OnlyIfGranted({}, {})
    BY <1>2, <2>2, Authorized
  <2> QED BY <2>3 DEF OnlyIfGranted
<1> QED BY <1>1, <1>3

LEMMA ServerKeeps ==
  ASSUME ServerInv, ServerNext
  PROVE  /\ endpoint' = endpoint /\ endpoint # NoHandler
         /\ \A fact : Admitted(fact) => Admitted(fact)'
<1>1. endpoint' = endpoint /\ endpoint # NoHandler
  BY DEF ServerNext, askQuestions, makeChange, failChange, tryChange, succeed, AtStep, Running
<1>2. known' = known \/ known' \in Answers
  BY DEF ServerNext, askQuestions, makeChange, failChange, tryChange, succeed
<1>3. known' \in Answers => DOMAIN known \subseteq DOMAIN known'
          /\ \A fact \in DOMAIN known : known'[fact] = known[fact]
  BY AnswersKept DEF ServerInv
<1> QED BY <1>1, <1>2, <1>3 DEF Admitted

LEMMA RequestUnderway ==
  ASSUME ClientInv, NEW method \in {"GET", "DELETE", "PUT", "POST"},
         NEW given \in {Doing.given, Doing.given \ Body},
         method \in {"PUT", "POST"} => given = Doing.given, httpRequest(method, given)
  PROVE  ClientInv'
<1>1. PICK request \in Doing.requests :
        request.method = method /\ accept(method, request.path, given)
  BY DEF httpRequest
<1>2. /\ outcome = "running" /\ outcome' = "running" /\ ~lost' /\ waiting'
      /\ line <= Len(Script) /\ Doing.kind = "send"
      /\ UNCHANGED <<command, script, line>> /\ Script' = Script /\ Doing' = Doing
  BY DEF httpRequest, Busy, ClientInv, Script, Doing
<1>3. \A fact \in given : Admitted(fact)'
  BY <1>1 DEF accept, Admitted
<1>4. \/ endpoint' = NoHandler /\ status' = 404
      \/ \E route : /\ IsRoute(route) /\ Matches(route, method, request.path)
                    /\ endpoint' = route.handler
  <2>1. CASE Found(method, request.path) = {}
    BY <1>1, <2>1 DEF accept
  <2>2. CASE Found(method, request.path) # {}
    <3>1. endpoint' = Dispatch(method, request.path)
      BY <1>1, <2>2 DEF accept
    <3> QED BY <3>1, <2>2, Dispatched DEF IsRoute
  <2> QED BY <2>1, <2>2
<1>5. Underway'
  <2>1. request.method \in {"PUT", "POST"} => \A fact \in Doing.given : Admitted(fact)'
    BY <1>1, <1>3
  <2> QED BY <1>1, <1>2, <1>4, <2>1 DEF Underway
<1> QED BY <1>2, <1>5 DEF ClientInv

LEMMA ServerUnderway ==
  ASSUME ClientInv, ServerInv, ServerNext, UNCHANGED clientVars PROVE ClientInv'
<1>1. /\ UNCHANGED <<command, script, line, lost, outcome, waiting>>
      /\ Script' = Script /\ Doing' = Doing
  BY DEF clientVars, Script, Doing
<1>2. Underway => Underway'
  BY <1>1, ServerKeeps DEF Underway
<1> QED BY <1>1, <1>2 DEF ClientInv

(* A step of the client that neither sends nor waits.                      *)
LEMMA ClientMoves ==
  ASSUME ClientInv, ServerInv, Unspoilt,
         checkInput \/ skipSteps \/ getEndpoint \/ getToken \/ receiveAnswer \/ loseConnection
           \/ startAgain \/ reportSuccess
  PROVE  ClientInv' /\ Unspoilt'
<1>1. PICK n \in Nat : LateChange(n)
  BY DEF Unspoilt
<1>2. ~lost /\ outcome = "running" /\ command' = command
  BY DEF checkInput, skipSteps, getEndpoint, getToken, readOrThrow, receiveAnswer, loseConnection,
         startAgain, reportSuccess, Busy, ClientInv
<1>3. Settled(Command[command], n) /\ Settled(Command[command], n)'
  BY <1>1, <1>2 DEF LateChange
<1>4. caused # {} => script = "command" /\ line > n + 1
  BY <1>1, <1>2 DEF LateChange
<1>5. line \in Nat \ {0} /\ script \in {"command", "fixup"} /\ command \in DOMAIN Command
  BY DEF ClientInv
<1> SUFFICES /\ script' \in {"command", "fixup"} /\ line' \in Nat \ {0}
             /\ ~lost' \/ outcome' # "running"
             /\ waiting' => lost'
             /\ outcome' = "stopped" => caused' = {}
             /\ caused' # {} /\ outcome' = "running" => script' = "command" /\ line' > n + 1
  BY <1>2, <1>3, <1>5 DEF ClientInv, Unspoilt, LateChange
<1>6. CASE checkInput
  <2>1. /\ line <= Len(Script) /\ Doing.kind = "check"
        /\ UNCHANGED <<waiting, lost, caused>> /\ ~waiting
        /\ goOn(1) \/ endAs(Doing.otherwise)
    BY <1>6 DEF checkInput, Busy
  <2>2. /\ Doing.otherwise \in Endings
        /\ script = "command" /\ line > n => Doing.otherwise \notin GivesUp
    BY <2>1, <1>3, DoingFair DEF Fair
  <2>3. CASE goOn(1)
    BY <1>2, <1>4, <1>5, <2>1, <2>3 DEF goOn
  <2>4. CASE endAs(Doing.otherwise)
    BY <1>2, <1>4, <1>5, <2>1, <2>2, <2>4, EndsAs DEF GivesUp
  <2> QED BY <2>1, <2>3, <2>4
<1>7. CASE skipSteps
  BY <1>7, <1>2, <1>4, <1>5 DEF skipSteps, Busy, goOn
<1>8. CASE getEndpoint \/ getToken
  BY <1>8, <1>2, <1>4, <1>5 DEF getEndpoint, getToken, readOrThrow, Busy
<1>9. CASE receiveAnswer
  <2>1. /\ waiting /\ ~waiting' /\ UNCHANGED lost /\ caused' = caused \cup done
        /\ \/ status = 200 /\ goOn(1)
           \/ status = 404 /\ endAs(Doing.notFound)
           \/ endAs(Doing.otherwise)
    BY <1>9 DEF receiveAnswer
  <2>2. line <= Len(Script) /\ Doing.kind = "send"
    BY <1>2, <2>1 DEF ClientInv, Underway
  <2>3. /\ Doing.otherwise \in Endings /\ Doing.notFound \in Endings
        /\ script = "fixup" \/ line <= n => Quiet(Doing)
        /\ script = "command" /\ line > n => Doing.otherwise \notin GivesUp
        /\ script = "command" /\ line > n + 1 => Doing.notFound \notin GivesUp
    BY <2>2, <1>3, DoingFair DEF Fair
  <2>4. /\ done # {} => script = "command" /\ line > n
        /\ status = 404 => done = {}
    BY <1>2, <1>5, <2>1, <2>3, AnswersOf
  <2>5. CASE status = 200 /\ goOn(1)
    BY <1>2, <1>4, <1>5, <2>1, <2>4, <2>5 DEF goOn
  <2>6. CASE status = 404 /\ endAs(Doing.notFound)
    <3>1. caused' = caused
      BY <2>1, <2>4, <2>6
    <3> QED BY <1>2, <1>4, <1>5, <2>1, <2>3, <2>6, <3>1, EndsAs DEF GivesUp
  <2>7. CASE endAs(Doing.otherwise)
    <3>1. caused' # {} => script = "command" /\ line > n
      BY <1>4, <1>5, <2>1, <2>4
    <3> QED BY <1>2, <1>5, <2>1, <2>3, <2>7, <3>1, EndsAs DEF GivesUp
  <2> QED BY <2>1, <2>5, <2>6, <2>7
<1>10. CASE loseConnection
  BY <1>10, <1>2, <1>4, <1>5 DEF loseConnection
<1>11. CASE startAgain
  BY <1>11, <1>2, <1>4, <1>5 DEF startAgain
<1>12. CASE reportSuccess
  BY <1>12, <1>2, <1>4, <1>5 DEF reportSuccess
<1> QED BY <1>6, <1>7, <1>8, <1>9, <1>10, <1>11, <1>12

(* The client starts with nothing caused and its command's script settled. *)
LEMMA ClientStarts == ASSUME RequestInit PROVE ClientInv /\ Unspoilt
<1>1. command \in DOMAIN Command /\ caused = {} /\ outcome = "running" /\ line = 1
      /\ script = "command" /\ ~waiting /\ ~lost
  BY DEF RequestInit, ClientInit
<1>2. PICK n \in Nat : Settled(Command[command], n)
  BY <1>1, Commands DEF IsSettled
<1> QED BY <1>1, <1>2 DEF ClientInv, Unspoilt, LateChange

(* Its steps, the server's steps between them and steps of neither keep    *)
(* that what a command caused, it caused beyond its last way out.          *)
LEMMA ClientSteps ==
  ASSUME ClientInv, ServerInv, Unspoilt, [RequestNext]_requestVars
  PROVE  ClientInv' /\ Unspoilt'
<1>1. CASE checkInput \/ skipSteps \/ getEndpoint \/ getToken \/ receiveAnswer \/ loseConnection
             \/ startAgain \/ reportSuccess
  BY <1>1, ClientMoves
<1>2. CASE httpGet \/ httpDelete \/ httpPut \/ httpPost
  <2>1. PICK method \in {"GET", "DELETE", "PUT", "POST"},
            given \in {Doing.given, Doing.given \ Body} :
          (method \in {"PUT", "POST"} => given = Doing.given) /\ httpRequest(method, given)
    BY <1>2 DEF httpGet, httpDelete, httpPut, httpPost
  <2>2. ClientInv'
    BY <2>1, RequestUnderway
  <2>3. UNCHANGED <<command, script, line, outcome, caused>>
    BY <2>1 DEF httpRequest
  <2> QED BY <2>2, <2>3 DEF Unspoilt, LateChange
<1>3. CASE ServerNext /\ UNCHANGED clientVars
  <2>1. ClientInv'
    BY <1>3, ServerUnderway
  <2>2. UNCHANGED <<command, script, line, outcome, caused>>
    BY <1>3 DEF clientVars
  <2> QED BY <2>1, <2>2 DEF Unspoilt, LateChange
<1>4. CASE UNCHANGED requestVars
  <2>1. UNCHANGED <<command, script, line, outcome, caused, waiting, lost, endpoint, known, status>>
    BY <1>4 DEF requestVars, clientVars, serverVars
  <2>2. Script' = Script /\ Doing' = Doing /\ \A fact : Admitted(fact)' <=> Admitted(fact)
    BY <2>1 DEF Script, Doing, Admitted
  <2>3. Underway => Underway'
    BY <2>1, <2>2 DEF Underway
  <2> QED BY <2>1, <2>3 DEF ClientInv, Unspoilt, LateChange
<1> QED BY <1>1, <1>2, <1>3, <1>4 DEF RequestNext

(* A command that stops without an error has changed nothing, and nor has  *)
(* a request that the server refused: the questions at the terminal and    *)
(* the look-ups come before the command's changing requests.               *)
THEOREM RequestNothingHalfway == RequestSpec => []NothingHalfway
<1> DEFINE Inv == ServerInv /\ ClientInv /\ Unspoilt
<1>1. RequestInit => Inv
  BY ServerStarts, ClientStarts
<1>2. Inv /\ [RequestNext]_requestVars => Inv'
  BY ServerSteps, ClientSteps
<1>3. Inv => NothingHalfway
  BY Allowed DEF Unspoilt, NothingHalfway
<1> QED BY <1>1, <1>2, <1>3, PTL DEF RequestSpec

(* A script that is through has done what its command promises.            *)
Honest ==
  /\ outcome = "running" /\ script = "command" /\ line > Len(Command[command])
       => Promise(command) \subseteq caused
  /\ outcome = "done" => Promise(command) \subseteq caused

(* The answer 200 to the last request of a script that fulfils its promise *)
(* means that the handler made every change of the promise.                *)
LEMMA PromiseKept ==
  ASSUME ClientInv, ServerInv, waiting, ~lost, status = 200, script = "command",
         line = Len(Command[command]), Fulfils(Command[command], Promise(command))
  PROVE  Promise(command) \subseteq done
<1>1. Doing = Command[command][Len(Command[command])]
  BY DEF Doing, Script
<1>2. PICK request, route :
        /\ request \in Doing.requests
        /\ request.method \in {"PUT", "POST"} => \A fact \in Doing.given : Admitted(fact)
        /\ IsRoute(route) /\ Matches(route, request.method, request.path)
        /\ endpoint = route.handler
  BY DEF ClientInv, Underway
<1>3. KeepsRequest(request, Doing.given, Promise(command))
  BY <1>1, <1>2 DEF Fulfils
<1>4. Keeps(endpoint, Sent(request, Doing.given), Promise(command))
  BY <1>2, <1>3 DEF KeepsRequest
<1>5. \A fact \in Sent(request, Doing.given) : fact \in DOMAIN known /\ known[fact]
  BY <1>2 DEF Sent, Admitted
<1>6. endpoint \in DOMAIN Handler
  <2>1. PICK i \in 1..Len(Routes) : route = Routes[i]
    BY <1>2 DEF IsRoute
  <2> QED BY <1>2, <2>1, RoutesLead DEF RoutesAreOf
<1>7. HandledTo(Handler[endpoint], step, known, done, 200)
  BY <1>6, NamesOfHandlers DEF ServerInv, NoHandler
<1> QED BY <1>4, <1>5, <1>7 DEF Keeps

(* Getting past the last step of a script takes a 200 from the handler     *)
(* that makes the promised changes; no other step leads past it.           *)
LEMMA HonestSteps ==
  ASSUME ClientInv, ServerInv, Unspoilt, Honest, [RequestNext]_requestVars PROVE Honest'
<1>1. CASE Promise(command) = {}
  <2>1. command' = command
    BY DEF RequestNext, checkInput, skipSteps, getEndpoint, getToken, readOrThrow, httpGet,
        httpDelete,
           httpPut, httpPost, httpRequest, receiveAnswer, loseConnection, startAgain, reportSuccess,
           requestVars, clientVars
  <2> QED BY <1>1, <2>1 DEF Honest
<1>2. CASE Promise(command) # {}
  <2> DEFINE s == Command[command]
             n == Len(s)
  <2>1. Fulfils(s, Promise(command))
    BY <1>2, Promises DEF ClientInv, KeepsPromise
  <2>2. /\ n \in Nat \ {0}
        /\ \A i \in 1..n : s[i].kind = "skip" => i + 3 <= n
        /\ s[n].kind = "send" /\ s[n].otherwise = "failed" /\ s[n].notFound \in {"failed", "fixup"}
    BY <2>1 DEF Fulfils, IsPiece
  <2>3. line \in Nat \ {0} /\ script \in {"command", "fixup"}
    BY DEF ClientInv
  <2>4. script = "command" => Script = s /\ (line \in 1..n => Doing = s[line])
    BY DEF Script, Doing
  <2>5. command # "printVersion"
    BY <1>2 DEF Promise
  <2> HIDE DEF s, n
  <2>6. CASE UNCHANGED <<command, script, line, outcome, caused>>
    BY <2>6 DEF Honest
  <2>7. CASE checkInput
    <3>1. /\ line <= Len(Script) /\ Doing.kind = "check" /\ outcome = "running"
          /\ UNCHANGED <<command, caused>> /\ (goOn(1) \/ endAs(Doing.otherwise))
      BY <2>7 DEF checkInput, Busy
    <3>2. script = "command" => line + 1 <= n
      BY <2>2, <2>3, <2>4, <3>1 DEF n
    <3>3. Doing.otherwise \in Endings
      BY <3>1, DoingFair DEF Unspoilt, LateChange, Fair
    <3>4. CASE goOn(1)
      BY <2>3, <3>1, <3>2, <3>4 DEF goOn, Honest, n, s
    <3>5. CASE endAs(Doing.otherwise)
      BY <2>2, <2>3, <3>1, <3>2, <3>3, <3>5, EndsAs DEF Honest, n, s
    <3> QED BY <3>1, <3>4, <3>5
  <2>8. CASE skipSteps
    <3>1. /\ line <= Len(Script) /\ Doing.kind = "skip" /\ outcome = "running"
          /\ UNCHANGED <<command, caused>> /\ (goOn(1) \/ goOn(3))
      BY <2>8 DEF skipSteps, Busy
    <3>2. script = "command" => line + 3 <= n
      BY <2>2, <2>3, <2>4, <3>1 DEF n
    <3> QED BY <2>2, <2>3, <3>1, <3>2 DEF goOn, Honest, n, s
  <2>9. CASE receiveAnswer
    <3>1. /\ waiting /\ ~lost /\ command' = command /\ caused' = caused \cup done
          /\ \/ status = 200 /\ goOn(1)
             \/ endAs(Doing.notFound)
             \/ endAs(Doing.otherwise)
      BY <2>9 DEF receiveAnswer
    <3>2. /\ line <= Len(Script) /\ Doing.kind = "send" /\ outcome = "running"
      BY <3>1 DEF ClientInv, Underway
    <3>3. Doing.otherwise \in Endings /\ Doing.notFound \in Endings
      BY <3>2, DoingFair DEF Unspoilt, LateChange, Fair
    <3>4. script = "command" => line < n \/ line = n
      BY <2>2, <2>3, <2>4, <3>2 DEF n
    <3>5. CASE status = 200 /\ goOn(1)
      <4>1. script = "command" /\ line = n => Promise(command) \subseteq done
        BY <2>1, <3>1, <3>5, PromiseKept DEF n, s
      <4> QED BY <2>2, <2>3, <3>1, <3>2, <3>4, <3>5, <4>1 DEF goOn, Honest, n, s
    <3>6. ASSUME NEW result \in {Doing.otherwise, Doing.notFound}, endAs(result) PROVE Honest'
      <4>1. result \in Endings
        BY <3>3
      <4>2. script = "command" /\ line = n => result \in {"failed", "fixup"}
        BY <2>2, <2>4 DEF n
      <4> QED BY <2>2, <2>3, <3>1, <3>2, <3>4, <3>6, <4>1, <4>2, EndsAs DEF Honest, n, s
    <3> QED BY <3>1, <3>5, <3>6
  <2>10. CASE loseConnection
    BY <2>5, <2>10 DEF loseConnection, Honest
  <2>11. CASE startAgain
    BY <2>2, <2>11 DEF startAgain, Honest, n, s
  <2>12. CASE reportSuccess
    BY <2>4, <2>12 DEF reportSuccess, Honest, n, s
  <2>13. \/ UNCHANGED <<command, script, line, outcome, caused>>
         \/ checkInput \/ skipSteps \/ receiveAnswer \/ loseConnection \/ startAgain \/ reportSuccess
         \/ outcome' = "failed" /\ UNCHANGED command
    BY DEF RequestNext, getEndpoint, getToken, readOrThrow, httpGet, httpDelete, httpPut, httpPost,
           httpRequest, requestVars, clientVars
  <2>14. CASE outcome' = "failed" /\ UNCHANGED command
    BY <2>14 DEF Honest
  <2> QED BY <2>6, <2>7, <2>8, <2>9, <2>10, <2>11, <2>12, <2>13, <2>14
<1> QED BY <1>1, <1>2

(* A script that promises something does not start out as through.         *)
LEMMA HonestStarts == ASSUME RequestInit PROVE Honest
<1>1. command \in DOMAIN Command /\ outcome = "running" /\ line = 1
  BY DEF RequestInit, ClientInit
<1>2. CASE Promise(command) = {}
  BY <1>2 DEF Honest
<1>3. CASE Promise(command) # {}
  <2>1. Len(Command[command]) \in Nat \ {0}
    <3>1. Fulfils(Command[command], Promise(command))
      BY <1>1, <1>3, Promises DEF KeepsPromise
    <3> QED BY <3>1 DEF Fulfils, IsPiece
  <2> QED BY <1>1, <2>1 DEF Honest
<1> QED BY <1>2, <1>3

(* A command that reports success has had all of its promise done: what    *)
(* the client prints after a 200 is what the server carried out.           *)
THEOREM RequestSuccessMeansDone == RequestSpec => []SuccessMeansDone
<1> DEFINE Inv == ServerInv /\ ClientInv /\ Unspoilt /\ Honest
<1>1. RequestInit => Inv
  BY ServerStarts, ClientStarts, HonestStarts
<1>2. Inv /\ [RequestNext]_requestVars => Inv'
  BY ServerSteps, ClientSteps, HonestSteps
<1>3. Inv => SuccessMeansDone
  BY DEF Honest, SuccessMeansDone
<1> QED BY <1>1, <1>2, <1>3, PTL DEF RequestSpec
=============================================================================
