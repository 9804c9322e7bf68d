--------------------------- MODULE IntegrityProofs --------------------------
(***************************************************************************)
(* What the two checks a client makes of the others report, and in which   *)
(* cases they report a client that does nothing wrong.                     *)
(*                                                                         *)
(* Identity audit: while a desync is reported, the audits it counts are    *)
(* the last that could be compared, and real disagreements but for digests *)
(* of another game, for any period, history, clocks, order of arrival and  *)
(* number of games.  From the first tick of a game the observer's views    *)
(* are of this game; a digest that is not of a game gone by is what the    *)
(* owner found, is sent once and is matched once; and the digests last     *)
(* matched, as many as the streak counts, were real disagreements.         *)
(*                                                                         *)
(* Challenge and response: an honest client is reported as failing only    *)
(* in the two cases NoFalseFailure names, and as silent only when its      *)
(* answer was late, for any maps, delays, games and restarts.  Once a      *)
(* client has asked, its record, the answers under way and the other's     *)
(* queue are of this game.                                                 *)
(***************************************************************************)
EXTENDS IdentityAudit, ChallengeResponse, DataLemmas, TLAPS

-----------------------------------------------------------------------------
(* Identity audit: audits *)

\* No audit falls into the first ticks of a game.
LEMMA FirstAudit ==
    ASSUME NEW t \in Nat, IsAudit(t)
    PROVE  t > 1
<1>1. Period \in Nat /\ Period > 1
  BY AuditAssumption
<1>2. ASSUME t = 1 PROVE FALSE
  <2>1. 1 % Period = 1
    BY <1>1
  <2> QED
    BY <1>2, <2>1 DEF IsAudit
<1> QED
  BY <1>2 DEF IsAudit

\* What happens to the observer in a tick: it has gone on, and has made an audit or not.
LEMMA ObserverMoves ==
    ASSUME AuditTypeOK, ObserverTick
    PROVE  \E now \in {ticks["observer"], ticks["observer"] + 1} :
              LET old == IF TimeWentBack(now) THEN NoViews ELSE views
              IN  /\ now \in Nat /\ lastTickSeen' = now
                  /\ ticks' \in [Who -> Nat] /\ ticks'["observer"] = now
                  /\ ticks'["owner"] = ticks["owner"]
                  /\ check' = IF TimeWentBack(now) THEN Agreeing ELSE check
                  /\ cursor' \in 0 .. ViewHistory - 1
                  /\ \/ /\ IsAudit(now)
                        /\ \E at \in 0 .. ViewHistory - 1, block \in UnitBlocks :
                             /\ views' = [old EXCEPT ![at] = [valid |-> TRUE, tick |-> now,
                                             block |-> block, game |-> auditGame["observer"]]]
                             /\ audits' = audits \cup {Audit("observer", now, block)}
                     \/ views' = old /\ UNCHANGED audits
<1>1. PICK now \in {ticks["observer"], ticks["observer"] + 1} :
        LET old == IF TimeWentBack(now) THEN NoViews ELSE views
            at  == IF TimeWentBack(now) THEN 0 ELSE cursor
        IN  /\ ticks' = [ticks EXCEPT !["observer"] = now] /\ lastTickSeen' = now
            /\ check' = IF TimeWentBack(now) THEN Agreeing ELSE check
            /\ \/ /\ IsAudit(now)
                  /\ cursor' = AfterSlot(at)
                  /\ \E block \in UnitBlocks :
                        /\ views' = [old EXCEPT ![at] = [valid |-> TRUE, tick |-> now,
                                        block |-> block, game |-> auditGame["observer"]]]
                        /\ audits' = audits \cup {Audit("observer", now, block)}
               \/ views' = old /\ cursor' = at /\ UNCHANGED audits
  BY DEF ObserverTick
<1> DEFINE at == IF TimeWentBack(now) THEN 0 ELSE cursor
<1>2. at \in 0 .. ViewHistory - 1
  BY AuditAssumption DEF AuditTypeOK
<1>3. AfterSlot(at) \in 0 .. ViewHistory - 1
  BY <1>2, AuditAssumption DEF AfterSlot
<1>4. now \in Nat /\ ticks \in [Who -> Nat] /\ "observer" \in Who /\ "owner" \in Who
  BY DEF AuditTypeOK, Who
<1>5. ticks' \in [Who -> Nat] /\ ticks'["observer"] = now /\ ticks'["owner"] = ticks["owner"]
  BY <1>1, <1>4
<1>6. cursor' \in 0 .. ViewHistory - 1
  BY <1>1, <1>2, <1>3
<1> HIDE DEF at
<1> WITNESS now \in {ticks["observer"], ticks["observer"] + 1}
<1>7. now \in Nat /\ lastTickSeen' = now /\ check' = IF TimeWentBack(now) THEN Agreeing ELSE check
  BY <1>1, <1>4
<1> DEFINE old == IF TimeWentBack(now) THEN NoViews ELSE views
<1>8. CASE /\ IsAudit(now)
           /\ \E block \in UnitBlocks :
                 /\ views' = [old EXCEPT ![at] = [valid |-> TRUE, tick |-> now,
                                 block |-> block, game |-> auditGame["observer"]]]
                 /\ audits' = audits \cup {Audit("observer", now, block)}
  BY <1>2, <1>5, <1>6, <1>7, <1>8
<1>9. CASE views' = old /\ UNCHANGED audits
  BY <1>5, <1>6, <1>7, <1>9
<1> QED
  BY <1>1, <1>8, <1>9 DEF at

\* What happens to a digest that arrives: there is no view of its tick, or it is compared.
LEMMA DigestMoves ==
    ASSUME OnDigest
    PROVE  \E packet \in digests :
              /\ digests' = digests \ {packet}
              /\ \/ UNCHANGED <<check, matched>>
                 \/ \E i \in DOMAIN views :
                      /\ views[i].valid /\ views[i].tick = packet.tick
                      /\ matched' = Append(matched, [game |-> packet.game, tick |-> packet.tick,
                                                     viewOf |-> views[i].game])
                      /\ \/ views[i].block = packet.block /\ check' = Agreeing
                         \/ /\ views[i].block # packet.block
                            /\ check' = [streak |-> check.streak + 1,
                                         alarmed |-> check.alarmed \/ Alarms(check.streak + 1)]
BY DEF OnDigest, ViewsOf

-----------------------------------------------------------------------------
(* Identity audit: types *)

LEMMA InitAuditTypes ==
    ASSUME AuditInit
    PROVE  AuditTypeOK
<1>1. NoBlock \in UnitBlocks
  BY AuditAssumption DEF NoBlock
<1>2. NoView \in ViewType
  BY <1>1 DEF NoView, ViewType
<1>3. NoViews \in [0 .. ViewHistory - 1 -> ViewType]
  BY <1>2 DEF NoViews
<1> QED
  BY <1>2, <1>3, AuditAssumption DEF AuditInit, AuditTypeOK, Agreeing

LEMMA AuditTypeStep ==
    ASSUME AuditTypeOK, [AuditNext]_auditVars
    PROVE  AuditTypeOK'
<1>0. NoView \in ViewType /\ NoViews \in [0 .. ViewHistory - 1 -> ViewType]
  <2>1. NoBlock \in UnitBlocks
    BY AuditAssumption DEF NoBlock
  <2> QED
    BY <2>1 DEF NoView, NoViews, ViewType
<1>t. /\ \A who \in Who : auditGame[who] \in Nat /\ ticks[who] \in Nat
      /\ "owner" \in Who /\ "observer" \in Who
  BY AuditAssumption DEF AuditTypeOK, Who
<1>1. CASE OwnerTick
  <2> DEFINE now == ticks["owner"] + 1
  <2>1. now \in Nat /\ ticks' \in [Who -> Nat]
    BY <1>t, <1>1 DEF OwnerTick, AuditTypeOK
  <2>2. ownView' \in ViewType /\ audits' \subseteq AuditType
    <3>1. CASE IsAudit(now)
      <4>1. PICK block \in UnitBlocks :
              /\ ownView' = [valid |-> TRUE, game |-> auditGame["owner"],
                             tick |-> now, block |-> block]
              /\ audits' = audits \cup {Audit("owner", now, block)}
        BY <1>1, <3>1 DEF OwnerTick
      <4>2. Audit("owner", now, block) \in AuditType
        BY <1>t, <2>1 DEF Audit, AuditType
      <4> QED
        BY <1>t, <2>1, <4>1, <4>2 DEF ViewType, AuditTypeOK
    <3>2. CASE ~IsAudit(now)
      BY <1>1, <3>2 DEF OwnerTick, AuditTypeOK
    <3> QED
      BY <3>1, <3>2
  <2>3. digests' \subseteq DigestType
    <3>1. [game |-> ownView.game, tick |-> ownView.tick, block |-> ownView.block] \in DigestType
      BY DEF AuditTypeOK, ViewType, DigestType
    <3> QED
      BY <1>1, <3>1 DEF OwnerTick, AuditTypeOK
  <2> QED
    BY <1>1, <2>1, <2>2, <2>3 DEF OwnerTick, AuditTypeOK
<1>2. CASE ObserverTick
  <2>1. PICK now \in {ticks["observer"], ticks["observer"] + 1} :
          LET old == IF TimeWentBack(now) THEN NoViews ELSE views
          IN  /\ now \in Nat /\ lastTickSeen' = now
              /\ ticks' \in [Who -> Nat]
              /\ check' = IF TimeWentBack(now) THEN Agreeing ELSE check
              /\ cursor' \in 0 .. ViewHistory - 1
              /\ \/ \E at \in 0 .. ViewHistory - 1, block \in UnitBlocks :
                      /\ views' = [old EXCEPT ![at] = [valid |-> TRUE, tick |-> now,
                                      block |-> block, game |-> auditGame["observer"]]]
                      /\ audits' = audits \cup {Audit("observer", now, block)}
                 \/ views' = old /\ UNCHANGED audits
    BY <1>2, ObserverMoves
  <2> DEFINE old == IF TimeWentBack(now) THEN NoViews ELSE views
  <2>2. old \in [0 .. ViewHistory - 1 -> ViewType]
    BY <1>0 DEF AuditTypeOK
  <2>3. views' \in [0 .. ViewHistory - 1 -> ViewType] /\ audits' \subseteq AuditType
    <3>1. CASE views' = old /\ UNCHANGED audits
      BY <2>2, <3>1 DEF AuditTypeOK
    <3>2. ASSUME NEW at \in 0 .. ViewHistory - 1, NEW block \in UnitBlocks,
                 views' = [old EXCEPT ![at] = [valid |-> TRUE, tick |-> now,
                              block |-> block, game |-> auditGame["observer"]]],
                 audits' = audits \cup {Audit("observer", now, block)}
          PROVE  views' \in [0 .. ViewHistory - 1 -> ViewType] /\ audits' \subseteq AuditType
      <4>1. [valid |-> TRUE, tick |-> now, block |-> block, game |-> auditGame["observer"]]
                \in ViewType
        BY <1>t, <2>1 DEF ViewType
      <4>2. Audit("observer", now, block) \in AuditType
        BY <1>t, <2>1 DEF Audit, AuditType
      <4> HIDE DEF old
      <4> QED
        BY <2>2, <3>2, <4>1, <4>2 DEF AuditTypeOK
    <3> QED
      BY <2>1, <3>1, <3>2
  <2>4. check' \in [streak : Nat, alarmed : BOOLEAN]
    BY <2>1 DEF AuditTypeOK, Agreeing
  <2> QED
    BY <1>2, <2>1, <2>3, <2>4 DEF ObserverTick, AuditTypeOK
<1>3. CASE OnDigest
  <2>1. PICK packet \in digests :
          /\ digests' = digests \ {packet}
          /\ \/ UNCHANGED <<check, matched>>
             \/ \E i \in DOMAIN views :
                  /\ matched' = Append(matched, [game |-> packet.game, tick |-> packet.tick,
                                                 viewOf |-> views[i].game])
                  /\ \/ check' = Agreeing
                     \/ check' = [streak |-> check.streak + 1,
                                  alarmed |-> check.alarmed \/ Alarms(check.streak + 1)]
    BY <1>3, DigestMoves
  <2>2. \A i \in DOMAIN views : [game |-> packet.game, tick |-> packet.tick,
                                 viewOf |-> views[i].game] \in MatchedType
    BY DEF AuditTypeOK, DigestType, ViewType, MatchedType
  <2>3. check \in [streak : Nat, alarmed : BOOLEAN] /\ matched \in Seq(MatchedType)
    BY DEF AuditTypeOK
  <2>4. matched' \in Seq(MatchedType) /\ check' \in [streak : Nat, alarmed : BOOLEAN]
    <3>1. CASE UNCHANGED <<check, matched>>
      BY <2>3, <3>1
    <3>2. ASSUME NEW i \in DOMAIN views,
                 matched' = Append(matched, [game |-> packet.game, tick |-> packet.tick,
                                             viewOf |-> views[i].game]),
                 \/ check' = Agreeing
                 \/ check' = [streak |-> check.streak + 1,
                              alarmed |-> check.alarmed \/ Alarms(check.streak + 1)]
          PROVE  matched' \in Seq(MatchedType) /\ check' \in [streak : Nat, alarmed : BOOLEAN]
      <4>1. matched' \in Seq(MatchedType)
        BY <2>2, <2>3, <3>2
      <4>2. \A n \in Nat, b \in BOOLEAN :
              [streak |-> n, alarmed |-> b] \in [streak : Nat, alarmed : BOOLEAN]
        OBVIOUS
      <4>3. check.streak + 1 \in Nat /\ 0 \in Nat
        BY <2>3
      <4>4. (check.alarmed \/ Alarms(check.streak + 1)) \in BOOLEAN
        OBVIOUS
      <4>5. check' \in [streak : Nat, alarmed : BOOLEAN]
        BY <3>2, <4>2, <4>3, <4>4, Zenon DEF Agreeing
      <4> QED
        BY <4>1, <4>5
    <3> QED
      BY <2>1, <3>1, <3>2
  <2>5. UNCHANGED <<auditGame, ticks, lastTickSeen, ownView, views, cursor, audits>>
    BY <1>3 DEF OnDigest
  <2>6. digests' \subseteq DigestType
    BY <2>1 DEF AuditTypeOK
  <2> QED
    BY <2>4, <2>5, <2>6 DEF AuditTypeOK
<1>4. ASSUME NEW who \in Who, NextAuditGame(who) PROVE AuditTypeOK'
  <2>1. auditGame[who] \in 0 .. MaxAuditGame /\ auditGame[who] < MaxAuditGame
    BY <1>4 DEF NextAuditGame, AuditTypeOK
  <2>2. auditGame[who] + 1 \in 0 .. MaxAuditGame
    BY <2>1, AuditAssumption
  <2>3. auditGame' \in [Who -> 0 .. MaxAuditGame]
    BY <1>4, <2>2 DEF NextAuditGame, AuditTypeOK
  <2>4. audits' \subseteq AuditType
    <3>1. audits' \subseteq audits
      BY <1>4 DEF NextAuditGame
    <3> QED
      BY <3>1 DEF AuditTypeOK
  <2>5. matched' = <<>> \/ matched' = matched
    BY <1>4 DEF NextAuditGame
  <2>6. matched' \in Seq(MatchedType)
    <3>1. <<>> \in Seq(MatchedType)
      OBVIOUS
    <3>2. matched \in Seq(MatchedType)
      BY DEF AuditTypeOK
    <3> QED
      BY <2>5, <3>1, <3>2
  <2>7. ownView' \in ViewType /\ ticks' \in [Who -> Nat]
    BY <1>0, <1>4 DEF NextAuditGame, AuditTypeOK
  <2>8. UNCHANGED <<lastTickSeen, views, cursor, digests, check>>
    BY <1>4 DEF NextAuditGame
  <2> QED
    BY <2>3, <2>4, <2>6, <2>7, <2>8 DEF AuditTypeOK
<1>5. CASE UNCHANGED auditVars
  BY <1>5 DEF auditVars, AuditTypeOK
<1> QED
  BY <1>1, <1>2, <1>3, <1>4, <1>5 DEF AuditNext

\* The variables of the audit keep their types.
THEOREM AuditTypeInvariant == AuditSpec => []AuditTypeOK
<1>1. AuditInit => AuditTypeOK
  BY InitAuditTypes
<1>2. AuditTypeOK /\ [AuditNext]_auditVars => AuditTypeOK'
  BY AuditTypeStep
<1>3. QED
  BY <1>1, <1>2, PTL DEF AuditSpec

-----------------------------------------------------------------------------
(* Identity audit: the invariant *)

\* A digest that is not of a game before the observer's: the owner's audit found what it says.
Told(d) ==
    d.game >= auditGame["observer"] =>
        [who |-> "owner", game |-> d.game, tick |-> d.tick, block |-> d.block] \in audits

\* The owner has passed the tick at which this is sent.
Sent(d) ==
    /\ d.game <= auditGame["owner"]
    /\ d.game = auditGame["owner"] => d.tick + SendOffset <= ticks["owner"]

\* What the owner is to send is its audit of this game.
OwnInv == ownView.valid => ownView.game = auditGame["owner"] /\ Told(ownView)

\* There is one digest at most of an audit.
DigestsInv ==
    /\ \A d \in digests : Told(d) /\ Sent(d)
    /\ \A d, e \in digests : d.game = e.game /\ d.tick = e.tick => d = e

\* No digest is matched twice.
MatchedInv ==
    \A i \in 1 .. Len(matched) :
        /\ Sent(matched[i])
        /\ \A d \in digests : ~(d.game = matched[i].game /\ d.tick = matched[i].tick)
        /\ \A j \in 1 .. Len(matched) :
              matched[i].game = matched[j].game /\ matched[i].tick = matched[j].tick => i = j

\* An observer that has seen no more than one tick has nothing to forget.
FreshInv == lastTickSeen < 2 => check = Agreeing /\ \A i \in DOMAIN views : ~views[i].valid

\* From the first tick of a game, views are of this game.
ViewsInv ==
    ticks["observer"] > 0 =>
        /\ lastTickSeen = ticks["observer"]
        /\ \A i \in DOMAIN views : views[i].valid =>
              /\ views[i].game = auditGame["observer"]
              /\ [who |-> "observer", game |-> views[i].game,
                  tick |-> views[i].tick, block |-> views[i].block] \in audits

Real(m) ==
    m.viewOf = auditGame["observer"] /\ (m.game = m.viewOf => Differed(m.game, m.tick))

\* From the first tick of a game, a streak is of digests that were just matched.
StreakInv ==
    ticks["observer"] > 0 =>
        /\ check.streak <= Len(matched)
        /\ check.alarmed => check.streak >= StreakAlarm
        /\ \A i \in Len(matched) - check.streak + 1 .. Len(matched) : Real(matched[i])

AuditInv ==
    /\ AuditTypeOK /\ OwnInv /\ DigestsInv /\ MatchedInv
    /\ FreshInv /\ ViewsInv /\ StreakInv

-----------------------------------------------------------------------------
(* Identity audit: what a step does to the clocks and the audits *)

LEMMA OwnerMoves ==
    ASSUME AuditTypeOK, OwnerTick
    PROVE  /\ ticks["owner"] \in Nat /\ ticks'["owner"] = ticks["owner"] + 1
           /\ ticks'["observer"] = ticks["observer"]
           /\ audits \subseteq audits'
           /\ \/ UNCHANGED <<ownView, audits>>
              \/ /\ ownView'.valid /\ ownView'.game = auditGame["owner"]
                 /\ [who |-> "owner", game |-> ownView'.game, tick |-> ownView'.tick,
                     block |-> ownView'.block] \in audits'
           /\ \/ digests' = digests
              \/ /\ ownView.valid /\ ticks["owner"] + 1 = ownView.tick + SendOffset
                 /\ digests' = digests \cup {[game |-> ownView.game, tick |-> ownView.tick,
                                              block |-> ownView.block]}
           /\ UNCHANGED <<auditGame, lastTickSeen, views, cursor, check, matched>>
<1>1. /\ ticks["owner"] \in Nat /\ ticks'["owner"] = ticks["owner"] + 1
      /\ ticks'["observer"] = ticks["observer"]
  BY DEF OwnerTick, AuditTypeOK, Who
<1>2. \/ UNCHANGED <<ownView, audits>>
      \/ \E block \in UnitBlocks :
            /\ ownView' = [valid |-> TRUE, game |-> auditGame["owner"],
                           tick |-> ticks["owner"] + 1, block |-> block]
            /\ audits' = audits \cup {Audit("owner", ticks["owner"] + 1, block)}
  BY DEF OwnerTick
<1>3. /\ audits \subseteq audits'
      /\ \/ UNCHANGED <<ownView, audits>>
         \/ /\ ownView'.valid /\ ownView'.game = auditGame["owner"]
            /\ [who |-> "owner", game |-> ownView'.game, tick |-> ownView'.tick,
                block |-> ownView'.block] \in audits'
  BY <1>2 DEF Audit
<1>4. \/ digests' = digests
      \/ /\ ownView.valid /\ ticks["owner"] + 1 = ownView.tick + SendOffset
         /\ digests' = digests \cup {[game |-> ownView.game, tick |-> ownView.tick,
                                      block |-> ownView.block]}
  BY DEF OwnerTick
<1>5. UNCHANGED <<auditGame, lastTickSeen, views, cursor, check, matched>>
  BY DEF OwnerTick
<1> QED
  BY <1>1, <1>3, <1>4, <1>5

LEMMA OwnerStarts ==
    ASSUME AuditTypeOK, NextAuditGame("owner")
    PROVE  /\ auditGame'["owner"] = auditGame["owner"] + 1
           /\ auditGame'["observer"] = auditGame["observer"]
           /\ ticks'["observer"] = ticks["observer"]
           /\ ~ownView'.valid
           /\ UNCHANGED <<lastTickSeen, views, cursor, digests, check, audits, matched>>
<1>1. "owner" \in Who /\ "observer" \in Who /\ "owner" # "observer"
  BY DEF Who
<1> QED
  BY <1>1 DEF NextAuditGame, AuditTypeOK, NoView

LEMMA ObserverStarts ==
    ASSUME AuditTypeOK, NextAuditGame("observer")
    PROVE  /\ auditGame'["observer"] = auditGame["observer"] + 1
           /\ auditGame'["owner"] = auditGame["owner"]
           /\ ticks'["observer"] = 0 /\ ticks'["owner"] = ticks["owner"]
           /\ audits' = {a \in audits : a.game > auditGame["observer"]}
           /\ matched' = <<>>
           /\ UNCHANGED <<lastTickSeen, ownView, views, cursor, digests, check>>
<1>1. "owner" \in Who /\ "observer" \in Who /\ "owner" # "observer"
  BY DEF Who
<1> QED
  BY <1>1 DEF NextAuditGame, AuditTypeOK

\* Games, and the ticks of the owner in one, go on, and no audit of the observer's game or a
\* later one is forgotten.
LEMMA AuditGoesOn ==
    ASSUME AuditTypeOK, AuditNext
    PROVE  /\ auditGame["owner"] \in Nat /\ auditGame["observer"] \in Nat
           /\ auditGame'["owner"] \in Nat /\ auditGame'["observer"] \in Nat
           /\ ticks["owner"] \in Nat /\ ticks'["owner"] \in Nat
           /\ auditGame'["observer"] >= auditGame["observer"]
           /\ \A a \in audits : a.game >= auditGame'["observer"] => a \in audits'
           /\ \/ auditGame'["owner"] > auditGame["owner"]
              \/ auditGame'["owner"] = auditGame["owner"] /\ ticks'["owner"] >= ticks["owner"]
<1>1. AuditTypeOK'
  BY AuditTypeStep
<1>2. /\ auditGame["owner"] \in Nat /\ auditGame["observer"] \in Nat
      /\ ticks["owner"] \in Nat
  BY AuditAssumption DEF AuditTypeOK, Who
<1>3. /\ auditGame'["owner"] \in Nat /\ auditGame'["observer"] \in Nat
      /\ ticks'["owner"] \in Nat
  BY <1>1, AuditAssumption DEF AuditTypeOK, Who
<1>4. CASE OwnerTick
  BY <1>2, <1>3, <1>4, OwnerMoves
<1>5. CASE ObserverTick
  <2>1. ticks'["owner"] = ticks["owner"] /\ audits \subseteq audits'
    BY <1>5, ObserverMoves
  <2>2. auditGame' = auditGame
    BY <1>5 DEF ObserverTick
  <2> QED
    BY <1>2, <1>3, <2>1, <2>2
<1>6. CASE OnDigest
  BY <1>2, <1>3, <1>6 DEF OnDigest
<1>7. CASE NextAuditGame("owner")
  BY <1>2, <1>3, <1>7, OwnerStarts
<1>8. CASE NextAuditGame("observer")
  <2>1. \A a \in audits : a.game \in Nat
    BY DEF AuditTypeOK, AuditType
  <2> QED
    BY <1>2, <1>3, <1>8, <2>1, ObserverStarts
<1> QED
  BY <1>4, <1>5, <1>6, <1>7, <1>8 DEF AuditNext, Who

LEMMA ToldOn ==
    ASSUME AuditTypeOK, AuditNext, NEW d, d.game \in Nat, Told(d)
    PROVE  Told(d)'
BY AuditGoesOn DEF Told

LEMMA SentOn ==
    ASSUME AuditTypeOK, AuditNext, NEW d, d.game \in Nat, d.tick \in Nat, Sent(d)
    PROVE  Sent(d)'
<1>1. SendOffset \in Nat
  BY AuditAssumption
<1> QED
  BY <1>1, AuditGoesOn DEF Sent

-----------------------------------------------------------------------------
(* Identity audit: each step keeps the invariant *)

LEMMA OwnStep ==
    ASSUME AuditInv, AuditNext
    PROVE  OwnInv'
<1>t. AuditTypeOK
  BY DEF AuditInv
<1>1. ASSUME UNCHANGED <<ownView>>, auditGame'["owner"] = auditGame["owner"] PROVE OwnInv'
  <2>1. ownView.game \in Nat
    BY <1>t DEF AuditTypeOK, ViewType
  <2>2. PICK v : v = ownView
    OBVIOUS
  <2>3. ASSUME Told(v) PROVE Told(v)'
    BY <1>t, <2>1, <2>2, <2>3, ToldOn
  <2>4. Told(ownView) => Told(ownView)'
    BY <1>1, <2>2, <2>3 DEF Told
  <2> QED
    BY <1>1, <2>4 DEF AuditInv, OwnInv
<1>2. CASE OwnerTick
  BY <1>1, <1>2, <1>t, OwnerMoves DEF OwnInv, Told
<1>3. CASE ObserverTick
  BY <1>1, <1>3 DEF ObserverTick
<1>4. CASE OnDigest
  BY <1>1, <1>4 DEF OnDigest
<1>5. CASE NextAuditGame("owner")
  BY <1>5, <1>t, OwnerStarts DEF OwnInv
<1>6. CASE NextAuditGame("observer")
  BY <1>1, <1>6, <1>t, ObserverStarts
<1> QED
  BY <1>2, <1>3, <1>4, <1>5, <1>6 DEF AuditNext, Who

\* The digest the owner sends is new: neither on its way nor matched.
LEMMA NewDigest ==
    ASSUME AuditInv, OwnerTick, digests' # digests
    PROVE  \E new \in DigestType :
              /\ digests' = digests \cup {new}
              /\ Told(new)' /\ Sent(new)'
              /\ \A d \in DigestType : Sent(d) => ~(d.game = new.game /\ d.tick = new.tick)
              /\ \A i \in 1 .. Len(matched) :
                    ~(matched[i].game = new.game /\ matched[i].tick = new.tick)
<1>t. AuditTypeOK /\ AuditNext /\ SendOffset \in Nat
  BY AuditAssumption DEF AuditInv, AuditNext
<1> DEFINE new == [game |-> ownView.game, tick |-> ownView.tick, block |-> ownView.block]
<1>1. /\ digests' = digests \cup {new} /\ ownView.valid
      /\ ticks["owner"] + 1 = new.tick + SendOffset
  BY <1>t, OwnerMoves
<1>2. new \in DigestType /\ new.game \in Nat /\ new.tick \in Nat
  BY <1>t DEF AuditTypeOK, ViewType, DigestType
<1>3. new.game = auditGame["owner"] /\ Told(new)
  BY <1>1 DEF AuditInv, OwnInv, Told
<1>4. PICK n \in DigestType : n = new
  BY <1>2
<1>5. Told(n)'
  BY <1>t, <1>2, <1>3, <1>4, ToldOn
<1>6. Sent(n)'
  BY <1>t, <1>1, <1>2, <1>3, <1>4, OwnerMoves, AuditGoesOn DEF Sent
<1>7. ASSUME NEW g \in Nat, NEW t \in Nat,
             g = auditGame["owner"] => t + SendOffset <= ticks["owner"]
      PROVE  ~(g = n.game /\ t = n.tick)
  BY <1>t, <1>1, <1>2, <1>3, <1>4, <1>7, AuditGoesOn
<1>8. \A d \in DigestType : Sent(d) => ~(d.game = n.game /\ d.tick = n.tick)
  BY <1>7 DEF DigestType, Sent
<1>9. \A i \in 1 .. Len(matched) : ~(matched[i].game = n.game /\ matched[i].tick = n.tick)
  <2>1. \A i \in 1 .. Len(matched) : matched[i] \in MatchedType
    BY <1>t DEF AuditTypeOK
  <2> QED
    BY <1>7, <2>1 DEF AuditInv, MatchedInv, MatchedType, Sent
<1> QED
  BY <1>1, <1>4, <1>5, <1>6, <1>8, <1>9

LEMMA DigestsStep ==
    ASSUME AuditInv, AuditNext
    PROVE  DigestsInv'
<1>t. AuditTypeOK /\ \A d \in digests : d \in DigestType /\ d.game \in Nat /\ d.tick \in Nat
  BY DEF AuditInv, AuditTypeOK, DigestType
<1>1. \A d \in digests : Told(d)' /\ Sent(d)'
  BY <1>t, ToldOn, SentOn DEF AuditInv, DigestsInv
<1>2. CASE digests' \subseteq digests
  BY <1>1, <1>2 DEF AuditInv, DigestsInv
<1>3. CASE OwnerTick /\ digests' # digests
  <2>1. PICK new \in DigestType :
          /\ digests' = digests \cup {new}
          /\ Told(new)' /\ Sent(new)'
          /\ \A d \in DigestType : Sent(d) => ~(d.game = new.game /\ d.tick = new.tick)
    BY <1>3, NewDigest
  <2>2. \A d \in digests : ~(d.game = new.game /\ d.tick = new.tick)
    BY <1>t, <2>1 DEF AuditInv, DigestsInv
  <2> QED
    BY <1>1, <2>1, <2>2 DEF AuditInv, DigestsInv
<1>4. CASE ObserverTick
  BY <1>2, <1>4 DEF ObserverTick
<1>5. CASE OnDigest
  BY <1>2, <1>5 DEF OnDigest
<1>6. ASSUME NEW who \in Who, NextAuditGame(who) PROVE DigestsInv'
  BY <1>2, <1>6 DEF NextAuditGame
<1> QED
  BY <1>2, <1>3, <1>4, <1>5, <1>6 DEF AuditNext

LEMMA MatchedStep ==
    ASSUME AuditInv, AuditNext
    PROVE  MatchedInv'
<1>t. /\ AuditTypeOK /\ matched \in Seq(MatchedType)
      /\ \A i \in 1 .. Len(matched) : matched[i] \in MatchedType
      /\ \A d \in digests : d.game \in Nat /\ d.tick \in Nat
  BY DEF AuditInv, AuditTypeOK, DigestType
<1>1. \A m \in MatchedType : Sent(m) => Sent(m)'
  BY <1>t, SentOn DEF MatchedType
<1>2. CASE matched' = matched /\ digests' \subseteq digests
  <2>1. \A i \in 1 .. Len(matched) : Sent(matched[i])'
    BY <1>t, <1>1, <1>2 DEF AuditInv, MatchedInv, Sent
  <2> QED
    BY <1>2, <2>1 DEF AuditInv, MatchedInv
<1>3. CASE OwnerTick /\ digests' # digests
  <2>1. PICK new \in DigestType :
          /\ digests' = digests \cup {new}
          /\ \A i \in 1 .. Len(matched) :
                ~(matched[i].game = new.game /\ matched[i].tick = new.tick)
    BY <1>3, NewDigest
  <2>2. matched' = matched
    BY <1>3, <1>t, OwnerMoves
  <2>3. \A i \in 1 .. Len(matched) : Sent(matched[i])'
    BY <1>t, <1>1, <2>2 DEF AuditInv, MatchedInv, Sent
  <2> QED
    BY <2>1, <2>2, <2>3 DEF AuditInv, MatchedInv
<1>4. CASE OnDigest /\ matched' # matched
  <2>1. PICK packet \in digests :
          /\ digests' = digests \ {packet}
          /\ \E v \in Nat : matched' = Append(matched,
                [game |-> packet.game, tick |-> packet.tick, viewOf |-> v])
    <3>1. \A i \in DOMAIN views : views[i].game \in Nat
      BY <1>t DEF AuditTypeOK, ViewType
    <3> QED
      BY <1>4, <3>1, DigestMoves
  <2>2. PICK v \in Nat : matched' = Append(matched,
          [game |-> packet.game, tick |-> packet.tick, viewOf |-> v])
    BY <2>1
  <2> DEFINE m == [game |-> packet.game, tick |-> packet.tick, viewOf |-> v]
             n == Len(matched)
  <2>3. m \in MatchedType /\ m.game = packet.game /\ m.tick = packet.tick /\ n \in Nat
    BY <1>t, <2>1 DEF MatchedType
  <2>4. /\ Len(matched') = n + 1 /\ matched'[n + 1] = m
        /\ \A i \in 1 .. n : matched'[i] = matched[i]
    BY <1>t, <2>2, <2>3
  <2>5. Sent(m) /\ \A i \in 1 .. n : ~(packet.game = matched[i].game /\ packet.tick = matched[i].tick)
    BY <2>1, <2>3 DEF AuditInv, DigestsInv, MatchedInv, Sent
  <2>6. \A d \in digests' : ~(d.game = packet.game /\ d.tick = packet.tick)
    BY <2>1 DEF AuditInv, DigestsInv
  <2> HIDE DEF m, n
  <2>7. ASSUME NEW i \in 1 .. n + 1 PROVE Sent(matched[i])'
    <3>1. CASE i = n + 1
      BY <1>1, <2>3, <2>4, <2>5, <3>1 DEF Sent
    <3>2. CASE i \in 1 .. n
      <4>1. Sent(matched[i]) /\ matched[i] \in MatchedType
        BY <1>t, <3>2 DEF AuditInv, MatchedInv, n
      <4> QED
        BY <1>1, <2>4, <3>2, <4>1 DEF Sent
    <3> QED
      BY <2>3, <3>1, <3>2
  <2>8. ASSUME NEW i \in 1 .. n + 1
        PROVE  \A d \in digests' : ~(d.game = matched'[i].game /\ d.tick = matched'[i].tick)
    <3>1. CASE i = n + 1
      BY <2>3, <2>4, <2>6, <3>1
    <3>2. CASE i \in 1 .. n
      BY <2>1, <2>4, <3>2 DEF AuditInv, MatchedInv, n
    <3> QED
      BY <2>3, <3>1, <3>2
  <2>9. ASSUME NEW i \in 1 .. n + 1, NEW j \in 1 .. n + 1,
               matched'[i].game = matched'[j].game, matched'[i].tick = matched'[j].tick
        PROVE  i = j
    <3>1. CASE i \in 1 .. n /\ j \in 1 .. n
      BY <2>4, <2>9, <3>1 DEF AuditInv, MatchedInv, n
    <3>2. CASE i = n + 1 /\ j \in 1 .. n
      BY <2>3, <2>4, <2>5, <2>9, <3>2
    <3>3. CASE i \in 1 .. n /\ j = n + 1
      BY <2>3, <2>4, <2>5, <2>9, <3>3
    <3> QED
      BY <2>3, <3>1, <3>2, <3>3
  <2> QED
    BY <2>4, <2>7, <2>8, <2>9 DEF MatchedInv
<1>5. CASE ObserverTick
  BY <1>2, <1>5 DEF ObserverTick
<1>6. CASE OnDigest
  BY <1>2, <1>4, <1>6 DEF OnDigest
<1>7. CASE NextAuditGame("owner")
  BY <1>2, <1>7, <1>t, OwnerStarts
<1>8. CASE NextAuditGame("observer")
  <2>1. matched' = <<>>
    BY <1>8, <1>t, ObserverStarts
  <2> QED
    BY <2>1 DEF MatchedInv
<1>9. CASE OwnerTick
  BY <1>2, <1>3, <1>9, <1>t, OwnerMoves
<1> QED
  BY <1>5, <1>6, <1>7, <1>8, <1>9 DEF AuditNext, Who

\* The views, and what the observer has to forget when a game begins.
LEMMA ViewsStep ==
    ASSUME AuditInv, AuditNext
    PROVE  FreshInv' /\ ViewsInv'
<1>t. AuditTypeOK /\ ticks["observer"] \in Nat /\ lastTickSeen \in Nat \cup {-1}
  BY DEF AuditInv, AuditTypeOK, Who
<1>1. CASE OwnerTick
  <2>1. /\ audits \subseteq audits' /\ ticks'["observer"] = ticks["observer"]
        /\ UNCHANGED <<auditGame, lastTickSeen, views, check>>
    BY <1>1, <1>t, OwnerMoves
  <2> QED
    BY <2>1 DEF AuditInv, FreshInv, ViewsInv
<1>2. CASE ObserverTick
  <2>1. PICK now \in {ticks["observer"], ticks["observer"] + 1} :
          LET old == IF TimeWentBack(now) THEN NoViews ELSE views
          IN  /\ now \in Nat /\ lastTickSeen' = now /\ ticks'["observer"] = now
              /\ check' = IF TimeWentBack(now) THEN Agreeing ELSE check
              /\ \/ /\ IsAudit(now)
                    /\ \E at \in 0 .. ViewHistory - 1, block \in UnitBlocks :
                         /\ views' = [old EXCEPT ![at] = [valid |-> TRUE, tick |-> now,
                                         block |-> block, game |-> auditGame["observer"]]]
                         /\ audits' = audits \cup {Audit("observer", now, block)}
                 \/ views' = old /\ UNCHANGED audits
    BY <1>2, <1>t, ObserverMoves
  <2>2. auditGame' = auditGame
    BY <1>2 DEF ObserverTick
  <2> DEFINE old == IF TimeWentBack(now) THEN NoViews ELSE views
             Known(v) == v.valid =>
                 /\ v.game = auditGame["observer"]
                 /\ [who |-> "observer", game |-> v.game, tick |-> v.tick, block |-> v.block]
                        \in audits'
  <2>3. \A i \in DOMAIN NoViews : ~NoViews[i].valid
    BY DEF NoViews, NoView
  <2>4. now < 2 => check' = Agreeing /\ \A i \in DOMAIN old : ~old[i].valid
    BY <1>t, <2>1, <2>3 DEF AuditInv, FreshInv, TimeWentBack
  <2>5. audits \subseteq audits'
    BY <2>1
  <2>6. now > 0 => \A i \in DOMAIN old : Known(old[i])
    <3>1. CASE TimeWentBack(now)
      BY <2>3, <3>1
    <3>2. CASE ~TimeWentBack(now) /\ ticks["observer"] > 0
      BY <2>5, <3>2 DEF AuditInv, ViewsInv
    <3>3. CASE ~TimeWentBack(now) /\ ticks["observer"] = 0
      <4>1. now <= 1
        BY <2>1, <3>3
      <4> QED
        BY <2>1, <2>4, <4>1
    <3> QED
      BY <1>t, <3>1, <3>2, <3>3
  <2>7. old \in [0 .. ViewHistory - 1 -> ViewType]
    <3>1. NoView \in ViewType
      BY AuditAssumption DEF NoView, NoBlock, ViewType
    <3> QED
      BY <1>t, <3>1 DEF NoViews, AuditTypeOK
  <2> HIDE DEF old
  <2>8. CASE views' = old
    BY <2>1, <2>2, <2>4, <2>6, <2>8 DEF FreshInv, ViewsInv
  <2>9. ASSUME IsAudit(now), NEW at \in 0 .. ViewHistory - 1, NEW block \in UnitBlocks,
               views' = [old EXCEPT ![at] = [valid |-> TRUE, tick |-> now,
                            block |-> block, game |-> auditGame["observer"]]],
               audits' = audits \cup {Audit("observer", now, block)}
        PROVE  FreshInv' /\ ViewsInv'
    <3>1. now > 1
      BY <2>1, <2>9, FirstAudit
    <3>2. /\ DOMAIN views' = 0 .. ViewHistory - 1 /\ DOMAIN old = 0 .. ViewHistory - 1
          /\ \A i \in 0 .. ViewHistory - 1 : i # at => views'[i] = old[i]
          /\ views'[at] = [valid |-> TRUE, tick |-> now,
                           block |-> block, game |-> auditGame["observer"]]
      BY <2>7, <2>9
    <3>3. Known(views'[at])
      BY <2>9, <3>2 DEF Audit
    <3>4. \A i \in DOMAIN views' : Known(views'[i])
      BY <2>1, <2>6, <3>1, <3>2, <3>3
    <3> QED
      BY <2>1, <2>2, <3>1, <3>4 DEF FreshInv, ViewsInv
  <2> QED
    BY <2>1, <2>8, <2>9 DEF old
<1>3. CASE OnDigest
  <2>1. UNCHANGED <<auditGame, ticks, lastTickSeen, views, audits>>
    BY <1>3 DEF OnDigest
  <2>2. ViewsInv'
    BY <2>1 DEF AuditInv, ViewsInv
  <2>3. FreshInv'
    BY <1>3, <2>1, DigestMoves DEF AuditInv, FreshInv
  <2> QED
    BY <2>2, <2>3
<1>4. CASE NextAuditGame("owner")
  BY <1>4, <1>t, OwnerStarts DEF AuditInv, FreshInv, ViewsInv
<1>5. CASE NextAuditGame("observer")
  BY <1>5, <1>t, ObserverStarts DEF AuditInv, FreshInv, ViewsInv
<1> QED
  BY <1>1, <1>2, <1>3, <1>4, <1>5 DEF AuditNext, Who

LEMMA DifferedOn ==
    ASSUME audits \subseteq audits', NEW game, NEW tick, Differed(game, tick)
    PROVE  Differed(game, tick)'
BY DEF Differed

\* Two that were compared, and did not agree, are of audits that differ.
LEMMA ComparedIsReal ==
    ASSUME AuditInv, ticks["observer"] > 0, NEW packet \in digests, NEW i \in DOMAIN views,
           views[i].valid, views[i].tick = packet.tick, views[i].block # packet.block
    PROVE  /\ views[i].game = auditGame["observer"]
           /\ packet.game = views[i].game => Differed(packet.game, packet.tick)
<1>1. auditGame["observer"] \in Nat
  BY AuditAssumption DEF AuditInv, AuditTypeOK, Who
<1>2. /\ views[i].game = auditGame["observer"]
      /\ [who |-> "observer", game |-> views[i].game,
          tick |-> views[i].tick, block |-> views[i].block] \in audits
  BY DEF AuditInv, ViewsInv
<1>3. ASSUME packet.game = views[i].game PROVE Differed(packet.game, packet.tick)
  <2>1. [who |-> "owner", game |-> packet.game, tick |-> packet.tick,
         block |-> packet.block] \in audits
    BY <1>1, <1>2, <1>3 DEF AuditInv, DigestsInv, Told
  <2> QED
    BY <1>2, <1>3, <2>1 DEF Differed
<1> QED
  BY <1>2, <1>3

LEMMA StreakStep ==
    ASSUME AuditInv, AuditNext
    PROVE  StreakInv'
<1>t. /\ AuditTypeOK /\ ticks["observer"] \in Nat /\ lastTickSeen \in Nat \cup {-1}
      /\ matched \in Seq(MatchedType) /\ Len(matched) \in Nat /\ check.streak \in Nat
      /\ AuditTypeOK'
  BY AuditTypeStep DEF AuditInv, AuditTypeOK, Who
<1>1. ASSUME ticks["observer"] > 0, audits \subseteq audits',
             UNCHANGED <<check, matched>>, auditGame'["observer"] = auditGame["observer"]
      PROVE  StreakInv'
  <2>1. ASSUME NEW i \in Len(matched) - check.streak + 1 .. Len(matched)
        PROVE  Real(matched[i])'
    <3>1. Real(matched[i])
      BY <1>1 DEF AuditInv, StreakInv
    <3>2. PICK m : m = matched[i]
      OBVIOUS
    <3>3. Differed(m.game, m.tick) => Differed(m.game, m.tick)'
      BY <1>1, DifferedOn
    <3> QED
      BY <1>1, <3>1, <3>2, <3>3 DEF Real, Differed
  <2> QED
    BY <1>1, <2>1 DEF AuditInv, StreakInv
<1>2. ASSUME check' = Agreeing, matched' \in Seq(MatchedType) PROVE StreakInv'
  <2>1. check'.streak = 0 /\ ~check'.alarmed /\ Len(matched') \in Nat
    BY <1>2 DEF Agreeing
  <2> QED
    BY <2>1 DEF StreakInv
<1>3. CASE OwnerTick
  BY <1>1, <1>3, <1>t, OwnerMoves DEF StreakInv
<1>4. CASE ObserverTick
  <2>1. PICK now \in {ticks["observer"], ticks["observer"] + 1} :
          /\ now \in Nat /\ ticks'["observer"] = now
          /\ check' = IF TimeWentBack(now) THEN Agreeing ELSE check
    BY <1>4, <1>t, ObserverMoves
  <2>2. /\ UNCHANGED <<auditGame, matched>> /\ audits \subseteq audits'
        /\ matched' \in Seq(MatchedType)
    BY <1>4, <1>t DEF ObserverTick
  <2>3. CASE TimeWentBack(now)
    BY <1>2, <2>1, <2>2, <2>3
  <2>4. CASE ~TimeWentBack(now) /\ ticks["observer"] > 0
    BY <1>1, <2>1, <2>2, <2>4
  <2>5. CASE ~TimeWentBack(now) /\ ticks["observer"] = 0
    <3>1. lastTickSeen < 2
      BY <1>t, <2>1, <2>5 DEF TimeWentBack
    <3> QED
      BY <1>2, <2>1, <2>2, <2>5, <3>1 DEF AuditInv, FreshInv
  <2> QED
    BY <1>t, <2>3, <2>4, <2>5
<1>5. CASE OnDigest
  <2>1. UNCHANGED <<auditGame, ticks, views, audits>> /\ matched' \in Seq(MatchedType)
    BY <1>5, <1>t DEF OnDigest, AuditTypeOK
  <2>2. CASE UNCHANGED <<check, matched>>
    BY <1>1, <2>1, <2>2 DEF StreakInv
  <2>3. CASE check' = Agreeing
    BY <1>2, <2>1, <2>3
  <2>4. ASSUME NEW packet \in digests, NEW v \in DOMAIN views,
               ticks["observer"] > 0,
               views[v].valid, views[v].tick = packet.tick, views[v].block # packet.block,
               matched' = Append(matched, [game |-> packet.game, tick |-> packet.tick,
                                           viewOf |-> views[v].game]),
               check' = [streak |-> check.streak + 1,
                         alarmed |-> check.alarmed \/ Alarms(check.streak + 1)]
        PROVE  StreakInv'
    <3> DEFINE m == [game |-> packet.game, tick |-> packet.tick, viewOf |-> views[v].game]
               n == Len(matched)
               s == check.streak
    <3>1. m \in MatchedType
      BY <1>t, <2>4 DEF AuditTypeOK, DigestType, ViewType, MatchedType
    <3>2. /\ Len(matched') = n + 1 /\ matched'[n + 1] = m
          /\ \A i \in 1 .. n : matched'[i] = matched[i]
      BY <1>t, <2>4, <3>1
    <3>3. /\ m.viewOf = auditGame["observer"]
          /\ m.game = m.viewOf => Differed(m.game, m.tick)
      BY <2>4, ComparedIsReal
    <3>4. check'.streak = s + 1 /\ (check'.alarmed <=> check.alarmed \/ s + 1 >= StreakAlarm)
      BY <2>4 DEF Alarms
    <3>5. /\ s <= n /\ (check.alarmed => s >= StreakAlarm)
          /\ \A i \in n - s + 1 .. n : Real(matched[i])
      BY <2>4 DEF AuditInv, StreakInv
    <3>6. s \in Nat /\ n \in Nat /\ StreakAlarm \in Nat
      BY <1>t, AuditAssumption
    <3> HIDE DEF m, n, s
    <3>7. ASSUME NEW i \in (n + 1) - (s + 1) + 1 .. n + 1 PROVE Real(matched[i])'
      <4>1. CASE i = n + 1
        BY <2>1, <3>2, <3>3, <4>1 DEF Real, Differed
      <4>2. CASE i # n + 1
        <5>1. i \in n - s + 1 .. n /\ i \in 1 .. n
          BY <3>5, <3>6, <3>7, <4>2
        <5> QED
          BY <2>1, <3>2, <3>5, <5>1 DEF Real, Differed
      <4> QED
        BY <4>1, <4>2
    <3>8. s + 1 <= n + 1 /\ (check'.alarmed => s + 1 >= StreakAlarm)
      BY <3>4, <3>5, <3>6
    <3> QED
      BY <3>2, <3>4, <3>7, <3>8 DEF StreakInv
  <2>5. CASE ~(ticks["observer"] > 0)
    BY <2>1, <2>5 DEF StreakInv
  <2> QED
    BY <1>5, <2>2, <2>3, <2>4, <2>5, DigestMoves
<1>6. CASE NextAuditGame("owner")
  BY <1>1, <1>6, <1>t, OwnerStarts DEF StreakInv
<1>7. CASE NextAuditGame("observer")
  BY <1>7, <1>t, ObserverStarts DEF StreakInv
<1> QED
  BY <1>3, <1>4, <1>5, <1>6, <1>7 DEF AuditNext, Who

LEMMA InitAudit ==
    ASSUME AuditInit
    PROVE  AuditInv
<1>1. AuditTypeOK
  BY InitAuditTypes
<1>2. ~ownView.valid /\ \A i \in DOMAIN views : ~views[i].valid
  BY DEF AuditInit, NoView, NoViews
<1>3. digests = {} /\ matched = <<>> /\ check = Agreeing /\ ~(ticks["observer"] > 0)
  BY DEF AuditInit, Who
<1> QED
  BY <1>1, <1>2, <1>3
  DEF AuditInv, OwnInv, DigestsInv, MatchedInv, FreshInv, ViewsInv, StreakInv

LEMMA AuditInvariant == AuditSpec => []AuditInv
<1>1. AuditInit => AuditInv
  BY InitAudit
<1>2. AuditInv /\ [AuditNext]_auditVars => AuditInv'
  <2> SUFFICES ASSUME AuditInv, [AuditNext]_auditVars
               PROVE  AuditInv'
    OBVIOUS
  <2>1. AuditTypeOK'
    BY AuditTypeStep DEF AuditInv
  <2>2. CASE AuditNext
    BY <2>1, <2>2, OwnStep, DigestsStep, MatchedStep, ViewsStep, StreakStep DEF AuditInv
  <2>3. CASE UNCHANGED auditVars
    BY <2>1, <2>3
    DEF auditVars, AuditInv, OwnInv, DigestsInv, MatchedInv, FreshInv, ViewsInv, StreakInv,
        Told, Sent, Real, Differed
  <2> QED
    BY <2>2, <2>3
<1> QED
  BY <1>1, <1>2, PTL DEF AuditSpec

\* While the observer reports a desync, the last audits that could be matched, as many as the
\* alarm asks for, are different ones, compared with views of this game, and at each of them
\* whose digest is of this game the two did disagree: for any clocks, any order of the
\* digests, any of them lost, and any number of games.
THEOREM DesyncIsRealHolds == AuditSpec => []DesyncIsReal
<1>1. AuditInv => DesyncIsReal
  <2> SUFFICES ASSUME AuditInv, check.alarmed, ticks["observer"] > 0
               PROVE  /\ Len(matched) >= StreakAlarm
                      /\ \A i \in Latest :
                            /\ Real(matched[i])
                            /\ \A j \in Latest : matched[i] = matched[j] => i = j
    BY DEF DesyncIsReal, Real
  <2>1. Len(matched) \in Nat /\ check.streak \in Nat /\ StreakAlarm \in Nat
    BY AuditAssumption DEF AuditInv, AuditTypeOK
  <2>2. check.streak <= Len(matched) /\ check.streak >= StreakAlarm
    BY DEF AuditInv, StreakInv
  <2>3. \A i \in Latest : /\ i \in Len(matched) - check.streak + 1 .. Len(matched)
                          /\ i \in 1 .. Len(matched)
    BY <2>1, <2>2 DEF Latest
  <2>4. \A i \in Latest : Real(matched[i])
    BY <2>3 DEF AuditInv, StreakInv
  <2>5. \A i, j \in Latest : matched[i] = matched[j] => i = j
    BY <2>3 DEF AuditInv, MatchedInv
  <2> QED
    BY <2>1, <2>2, <2>4, <2>5
<1> QED
  BY <1>1, AuditInvariant, PTL

-----------------------------------------------------------------------------
(* Challenge and response: indices *)

\* A set of indices has a greatest one.
LEMMA GreatestIndex ==
    ASSUME NEW n \in Nat, NEW S \in SUBSET (1 .. n), S # {}
    PROVE  Max(S) \in S
<1>0. S \in SUBSET (0 .. n)
  OBVIOUS
<1>1. PICK b \in S : \A i \in S : i <= b
  BY <1>0, GreatestNumber
<1>2. \A i \in S : b >= i
  BY <1>1
<1> QED
  BY <1>1, <1>2 DEF Max

-----------------------------------------------------------------------------
(* The invariant *)

Hashes ==
    {NoHash} \cup {ModulesHash(n) : n \in 0 .. MaxMatch}
        \cup {DataHash(n, m) : n \in 0 .. MaxMatch, m \in Maps \cup {NoMap}}

Records ==
    [nonse : 0 .. MaxMatch, modules : Hashes, data : Hashes, hasModules : BOOLEAN,
     hasData : BOOLEAN, ourModules : Hashes, ourData : Hashes, computed : BOOLEAN]

Replies ==
    [nonse : 0 .. MaxMatch, map : Maps \cup {NoMap}, ready : BOOLEAN, sent : BOOLEAN]

Answers == [kind : {"Modules", "Data"}, hash : Hashes]

\* ChallengeTypeOK, with the types of what the record, the queue and the packets hold.
ChallengeStateOK ==
    /\ gameTime \in 0 .. VerifyUntil /\ match \in 0 .. MaxMatch /\ map \in Maps
    /\ snapshot \in [{"verifier", "prover"} -> Maps \cup {NoMap}]
    /\ record \in Records
    /\ worker \in {"idle", "queued", "modules", "data"}
    /\ replies \in Seq(Replies)
    /\ requests \in Seq(1 .. MaxMatch)
    /\ answers \in Seq(Answers)
    /\ compared \in [verifying : BOOLEAN, modules : BOOLEAN, data : BOOLEAN, racing : BOOLEAN]
    /\ \A v \in verdicts : v.match \in 1 .. MaxMatch

\* The verifier has asked in this game.
Asked == gameTime >= RequestAt

\* From the first tick on both have a snapshot; nothing is asked, computed or judged before
\* its time, and from then on the record is this game's.
GameInv ==
    /\ match = 0 => gameTime = 0
    /\ gameTime >= 1 => snapshot["verifier"] # NoMap /\ snapshot["prover"] # NoMap
    /\ snapshot["prover"] = NoMap => replies = <<>>
    /\ ~Asked => worker = "idle" /\ requests = <<>> /\ ~compared.verifying
    /\ gameTime = 0 => answers = <<>> /\ \A i \in DOMAIN replies : replies[i].ready
    /\ Asked => record.nonse = match

\* What was not sent in an earlier game leaves the queue at the first tick of this one.
RepliesInv ==
    /\ \A i \in DOMAIN replies :
         /\ replies[i].nonse \in 1 .. match
         /\ replies[i].nonse = match => Asked
         /\ ~replies[i].sent /\ gameTime >= 1 => replies[i].nonse = match
         /\ replies[i].sent => replies[i].ready
         /\ replies[i].ready /\ replies[i].nonse = match => replies[i].map = snapshot["prover"]
    /\ \A i \in DOMAIN requests : requests[i] = match

\* Once the verifier has asked, it hears this game's answers only.
AnswersInv ==
    Asked =>
        /\ \A i \in DOMAIN answers :
             /\ answers[i].kind = "Modules" => answers[i].hash = ModulesHash(match)
             /\ answers[i].kind = "Data" => answers[i].hash = DataHash(match, snapshot["prover"])
        /\ record.hasModules => record.modules = ModulesHash(match)
        /\ record.hasData => record.data = DataHash(match, snapshot["prover"])

\* The worker has stored what it says it has.
WorkerInv ==
    Asked =>
        /\ worker # "queued" => record.ourModules = ModulesHash(match)
        /\ worker \notin {"queued", "modules"} =>
              record.ourData = DataHash(match, snapshot["verifier"])
        /\ record.computed <=> worker = "idle"

\* Unless the worker was still at it, the record is the one that was compared.
ComparedInv ==
    compared.verifying =>
        /\ gameTime >= ReplyUntil /\ answers = <<>> /\ requests = <<>>
        /\ ~compared.racing =>
             /\ record.computed
             /\ compared.modules <=> record.modules = record.ourModules
             /\ compared.data <=> record.data = record.ourData

OnItsWay(kind) == \E i \in DOMAIN answers : answers[i].kind = kind

\* The question reaches the prover, and what it has answered reaches the verifier.
DeliveryInv ==
    Asked =>
        /\ requests # <<>> \/ \E i \in DOMAIN replies : replies[i].nonse = match
        /\ \A i \in DOMAIN replies : replies[i].nonse = match /\ replies[i].sent =>
             /\ record.hasModules \/ OnItsWay("Modules")
             /\ record.hasData \/ OnItsWay("Data")

\* Verdicts are of this game only after the time for replies is over.
VerdictsInv ==
    \A v \in verdicts : v.match \in 1 .. match /\ (v.match = match => gameTime >= ReplyUntil)

ChallengeInv ==
    /\ ChallengeStateOK /\ GameInv /\ RepliesInv /\ AnswersInv /\ WorkerInv
    /\ ComparedInv /\ DeliveryInv /\ VerdictsInv /\ NoFalseFailure /\ SilentOnlyIfLate

LEMMA InitChallenge == ChallengeInit => ChallengeInv
<1> SUFFICES ASSUME ChallengeInit PROVE ChallengeInv
  OBVIOUS
<1> USE ChallengeAssumption DEF ChallengeInit
<1>1. ChallengeStateOK
  BY DEF ChallengeStateOK, NoRecord, Records, Hashes, Replies, Answers, NotVerifying
<1>2. GameInv /\ ~Asked
  BY DEF GameInv, Asked, NotVerifying
<1>3. RepliesInv /\ VerdictsInv /\ NoFalseFailure /\ SilentOnlyIfLate
  BY DEF RepliesInv, VerdictsInv, NoFalseFailure, SilentOnlyIfLate
<1>4. AnswersInv /\ WorkerInv /\ DeliveryInv
  BY <1>2 DEF AnswersInv, WorkerInv, DeliveryInv
<1>5. ComparedInv
  BY DEF ComparedInv, NotVerifying
<1>6. QED
  BY <1>1, <1>2, <1>3, <1>4, <1>5 DEF ChallengeInv

-----------------------------------------------------------------------------
(* Types *)

LEMMA HashTypes ==
    ASSUME NEW n \in 0 .. MaxMatch, NEW m \in Maps \cup {NoMap}
    PROVE  ModulesHash(n) \in Hashes /\ DataHash(n, m) \in Hashes /\ NoHash \in Hashes
BY DEF Hashes

LEMMA QueueTypes ==
    ASSUME ChallengeStateOK
    PROVE  /\ DOMAIN replies = 1 .. Len(replies) /\ Len(replies) \in Nat
           /\ \A i \in DOMAIN replies : /\ replies[i] \in Replies
                                        /\ replies[i].nonse \in 0 .. MaxMatch
                                        /\ replies[i].map \in Maps \cup {NoMap}
                                        /\ replies[i].ready \in BOOLEAN /\ replies[i].sent \in BOOLEAN
           /\ DOMAIN answers = 1 .. Len(answers) /\ Len(answers) \in Nat
           /\ \A i \in DOMAIN answers : answers[i] \in Answers
           /\ DOMAIN requests = 1 .. Len(requests)
<1>1. replies \in Seq(Replies) /\ answers \in Seq(Answers) /\ requests \in Seq(1 .. MaxMatch)
  BY DEF ChallengeStateOK
<1>2. /\ DOMAIN replies = 1 .. Len(replies) /\ Len(replies) \in Nat
      /\ DOMAIN answers = 1 .. Len(answers) /\ Len(answers) \in Nat
      /\ DOMAIN requests = 1 .. Len(requests)
      /\ \A i \in DOMAIN replies : replies[i] \in Replies
      /\ \A i \in DOMAIN answers : answers[i] \in Answers
  BY <1>1
<1>3. QED
  BY <1>2 DEF Replies

\* What one tick does, the parts that more than one lemma needs.
LEMMA UpdateFacts ==
    ASSUME ChallengeStateOK, GameInv, Update
    PROVE  /\ gameTime' = gameTime + 1 /\ gameTime' \in 1 .. VerifyUntil - 1
           /\ match > 0 /\ UNCHANGED <<match, map, verdicts>>
           /\ requests = <<>> /\ answers = <<>> /\ ~compared.verifying
           /\ \A w \in {"verifier", "prover"} :
                 snapshot'[w] = IF snapshot[w] = NoMap THEN map ELSE snapshot[w]
           /\ snapshot' \in [{"verifier", "prover"} -> Maps]
           /\ gameTime >= 1 => snapshot' = snapshot
           /\ \/ /\ gameTime + 1 = RequestAt
                 /\ record' = InitPlayerResponse(record, match) /\ worker' = "queued"
                 /\ requests' = <<match>>
              \/ /\ gameTime + 1 # RequestAt
                 /\ requests' = <<>> /\ UNCHANGED <<record, worker>>
           /\ compared' = IF gameTime + 1 >= ReplyUntil
                          THEN [verifying |-> TRUE, racing |-> ~record.computed,
                                modules |-> record.modules = record.ourModules,
                                data |-> record.data = record.ourData]
                          ELSE NotVerifying
<1> USE ChallengeAssumption, MapsAssumption
<1>0. /\ gameTime \in Nat /\ snapshot \in [{"verifier", "prover"} -> Maps \cup {NoMap}]
      /\ map \in Maps /\ RequestAt \in Nat /\ ReplyUntil \in Nat
      /\ gameTime >= 1 => snapshot["verifier"] # NoMap /\ snapshot["prover"] # NoMap
      /\ match \in Nat
  BY DEF ChallengeStateOK, GameInv
<1>1. /\ gameTime' = gameTime + 1 /\ gameTime' \in 1 .. VerifyUntil - 1
      /\ match > 0 /\ UNCHANGED <<match, map, verdicts>>
      /\ requests = <<>> /\ answers = <<>> /\ ~compared.verifying
  BY <1>0 DEF Update
<1>2. snapshot' = [w \in {"verifier", "prover"} |-> IF snapshot[w] = NoMap THEN map ELSE snapshot[w]]
  BY <1>0 DEF Update, TakesSnapshot
<1>3. /\ \A w \in {"verifier", "prover"} :
                 snapshot'[w] = IF snapshot[w] = NoMap THEN map ELSE snapshot[w]
      /\ snapshot' \in [{"verifier", "prover"} -> Maps]
      /\ gameTime >= 1 => snapshot' = snapshot
  BY <1>0, <1>2
<1>4. gameTime + 1 >= RequestAt => ~TakesSnapshot("verifier")
  BY <1>0 DEF TakesSnapshot
<1>5. \/ /\ gameTime + 1 = RequestAt
         /\ record' = InitPlayerResponse(record, match) /\ worker' = "queued"
         /\ requests' = <<match>>
      \/ /\ gameTime + 1 # RequestAt
         /\ requests' = <<>> /\ UNCHANGED <<record, worker>>
  BY <1>0, <1>4 DEF Update
<1>6. compared' = IF gameTime + 1 >= ReplyUntil
                  THEN [verifying |-> TRUE, racing |-> ~record.computed,
                        modules |-> record.modules = record.ourModules,
                        data |-> record.data = record.ourData]
                  ELSE NotVerifying
  BY <1>0, <1>4 DEF Update
<1>7. QED
  BY <1>1, <1>3, <1>5, <1>6

\* Which replies are sent in a tick, and what arrives.
LEMMA SendingFacts ==
    ASSUME ChallengeStateOK, GameInv, Update
    PROVE  \/ /\ replies' = replies /\ answers' = <<>>
           \/ /\ snapshot["prover"] # NoMap
              /\ gameTime + 1 # RequestAt /\ gameTime + 1 < ReplyUntil
              /\ replies' = [i \in DOMAIN replies |->
                               IF IsReady(replies[i]) THEN [replies[i] EXCEPT !.sent = TRUE]
                               ELSE replies[i]]
              /\ \/ answers' = <<>> /\ \A i \in DOMAIN replies : ~IsReady(replies[i])
                 \/ \E i \in DOMAIN replies : IsReady(replies[i]) /\ answers' = Answer(replies[i])
<1> DEFINE now == gameTime + 1
           sends == Sendable(now)
<1>0. /\ gameTime \in Nat /\ RequestAt \in Nat /\ ReplyUntil \in Nat
      /\ DOMAIN replies = 1 .. Len(replies) /\ Len(replies) \in Nat
      /\ replies \in Seq(Replies)
  BY QueueTypes, ChallengeAssumption DEF ChallengeStateOK
<1>1. /\ answers' = IF sends = {} THEN <<>> ELSE Answer(replies[Max(sends)])
      /\ replies' = [i \in DOMAIN replies |->
                       IF i \in sends THEN [replies[i] EXCEPT !.sent = TRUE] ELSE replies[i]]
  BY DEF Update
<1>2. CASE sends = {}
  <2>1. replies' = replies /\ answers' = <<>>
    BY <1>0, <1>1, <1>2
  <2>2. QED
    BY <2>1
<1>3. CASE sends # {}
  <2>1. /\ snapshot["prover"] # NoMap /\ now # RequestAt /\ now < ReplyUntil
        /\ sends = {i \in DOMAIN replies : IsReady(replies[i])}
    BY <1>0, <1>3 DEF Sendable, TakesSnapshot
  <2>2. sends \in SUBSET (1 .. Len(replies))
    BY <1>0, <2>1
  <2>3. Max(sends) \in sends
    BY <1>0, <1>3, <2>2, GreatestIndex
  <2>4. Max(sends) \in DOMAIN replies /\ IsReady(replies[Max(sends)])
        /\ answers' = Answer(replies[Max(sends)])
    BY <1>1, <1>3, <2>1, <2>3
  <2>5. replies' = [i \in DOMAIN replies |->
                      IF IsReady(replies[i]) THEN [replies[i] EXCEPT !.sent = TRUE] ELSE replies[i]]
    BY <1>1, <2>1
  <2>6. QED
    BY <2>1, <2>4, <2>5
<1>4. QED
  BY <1>2, <1>3

LEMMA AnswerFacts ==
    ASSUME NEW r \in Replies
    PROVE  /\ Answer(r) \in Seq(Answers) /\ DOMAIN Answer(r) = 1 .. 2
           /\ Answer(r)[1].kind = "Modules" /\ Answer(r)[1].hash = ModulesHash(r.nonse)
           /\ Answer(r)[2].kind = "Data" /\ Answer(r)[2].hash = DataHash(r.nonse, r.map)
<1>1. r.nonse \in 0 .. MaxMatch /\ r.map \in Maps \cup {NoMap}
  BY DEF Replies
<1>2. ModulesHash(r.nonse) \in Hashes /\ DataHash(r.nonse, r.map) \in Hashes
  BY <1>1, HashTypes
<1>3. QED
  BY <1>2 DEF Answer, Answers

\* A first packet is taken from its queue.
LEMMA FirstOut ==
    ASSUME NEW S, NEW q \in Seq(S), q # <<>>
    PROVE  /\ Head(q) = q[1] /\ Head(q) \in S /\ 1 \in DOMAIN q
           /\ Tail(q) \in Seq(S)
           /\ \A i \in DOMAIN Tail(q) : i + 1 \in DOMAIN q /\ Tail(q)[i] = q[i + 1]
           /\ \A i \in DOMAIN q : i = 1 \/ (i - 1 \in DOMAIN Tail(q) /\ Tail(q)[i - 1] = q[i])
<1>1. Len(q) \in Nat /\ Len(q) > 0 /\ DOMAIN q = 1 .. Len(q)
  OBVIOUS
<1>2. Tail(q) \in Seq(S) /\ DOMAIN Tail(q) = 1 .. Len(q) - 1
  BY <1>1
<1>3. \A i \in 1 .. Len(q) - 1 : Tail(q)[i] = q[i + 1]
  BY <1>1
<1>4. Head(q) = q[1] /\ Head(q) \in S /\ 1 \in DOMAIN q
  BY <1>1
<1>5. QED
  BY <1>1, <1>2, <1>3, <1>4

\* A reply that is sent stays what it was.
LEMMA SentReplies ==
    ASSUME ChallengeStateOK, GameInv, Update
    PROVE  /\ DOMAIN replies' = DOMAIN replies /\ replies' \in Seq(Replies)
           /\ \A i \in DOMAIN replies :
                /\ replies'[i].nonse = replies[i].nonse /\ replies'[i].map = replies[i].map
                /\ replies'[i].ready = replies[i].ready
                /\ replies[i].sent => replies'[i].sent
                /\ replies'[i].sent /\ ~replies[i].sent =>
                      replies[i].ready /\ answers' # <<>>
<1>1. /\ DOMAIN replies = 1 .. Len(replies) /\ Len(replies) \in Nat
      /\ \A i \in DOMAIN replies : replies[i] \in Replies
  BY QueueTypes
<1>2. CASE replies' = replies
  BY <1>1, <1>2 DEF ChallengeStateOK
<1>3. CASE /\ replies' = [i \in DOMAIN replies |->
                            IF IsReady(replies[i]) THEN [replies[i] EXCEPT !.sent = TRUE]
                            ELSE replies[i]]
           /\ \/ answers' = <<>> /\ \A i \in DOMAIN replies : ~IsReady(replies[i])
              \/ \E i \in DOMAIN replies : IsReady(replies[i]) /\ answers' = Answer(replies[i])
  <2>1. \A r \in Replies : [r EXCEPT !.sent = TRUE] \in Replies
    BY DEF Replies
  <2>2. \A i \in DOMAIN replies : replies'[i] \in Replies
    BY <1>1, <1>3, <2>1
  <2>3. replies' \in Seq(Replies) /\ DOMAIN replies' = DOMAIN replies
    BY <1>1, <1>3, <2>2
  <2>4. answers' = <<>> => \A i \in DOMAIN replies : ~IsReady(replies[i])
    BY <1>3 DEF Answer
  <2>5. QED
    BY <1>1, <1>3, <2>3, <2>4 DEF Replies, IsReady
<1>4. QED
  BY <1>2, <1>3, SendingFacts

LEMMA AnswersType ==
    ASSUME ChallengeStateOK, GameInv, Update
    PROVE  answers' \in Seq(Answers)
<1>1. \A i \in DOMAIN replies : replies[i] \in Replies
  BY QueueTypes
<1>2. answers' = <<>> \/ \E i \in DOMAIN replies : answers' = Answer(replies[i])
  BY SendingFacts
<1>3. CASE answers' = <<>>
  BY <1>3
<1>4. CASE \E i \in DOMAIN replies : answers' = Answer(replies[i])
  <2>1. PICK i \in DOMAIN replies : answers' = Answer(replies[i])
    BY <1>4
  <2>2. QED
    BY <1>1, <2>1, AnswerFacts
<1>5. QED
  BY <1>2, <1>3, <1>4

LEMMA ChallengeTypeStep ==
    ASSUME ChallengeStateOK, GameInv, [ChallengeNext]_challengeVars
    PROVE  ChallengeStateOK'
<1> USE ChallengeAssumption
<1>0. /\ record \in Records /\ NoHash \in Hashes /\ match \in 0 .. MaxMatch
      /\ NotVerifying \in [verifying : BOOLEAN, modules : BOOLEAN, data : BOOLEAN, racing : BOOLEAN]
      /\ \A n \in 0 .. MaxMatch : ModulesHash(n) \in Hashes
      /\ \A n \in 0 .. MaxMatch, m \in Maps \cup {NoMap} : DataHash(n, m) \in Hashes
  BY DEF ChallengeStateOK, Hashes, NotVerifying
<1>1. CASE Update
  <2>1. /\ gameTime' \in 0 .. VerifyUntil /\ UNCHANGED <<match, map, verdicts>>
        /\ snapshot' \in [{"verifier", "prover"} -> Maps \cup {NoMap}]
        /\ match \in 1 .. MaxMatch
    BY <1>1, UpdateFacts DEF ChallengeStateOK
  <2>2. record' \in Records /\ worker' \in {"idle", "queued", "modules", "data"}
    BY <1>0, <1>1, UpdateFacts DEF ChallengeStateOK, Records, InitPlayerResponse
  <2>3. requests' \in Seq(1 .. MaxMatch)
    <3>1. requests' = <<match>> \/ requests' = <<>>
      BY <1>1, UpdateFacts
    <3>2. <<match>> \in Seq(1 .. MaxMatch) /\ <<>> \in Seq(1 .. MaxMatch)
      BY <2>1
    <3>3. QED
      BY <3>1, <3>2
  <2>4. compared' \in [verifying : BOOLEAN, modules : BOOLEAN, data : BOOLEAN, racing : BOOLEAN]
    <3> DEFINE c == [verifying |-> TRUE, racing |-> ~record.computed,
                     modules |-> record.modules = record.ourModules,
                     data |-> record.data = record.ourData]
    <3>1. compared' = c \/ compared' = NotVerifying
      BY <1>1, UpdateFacts
    <3>2. c \in [verifying : BOOLEAN, modules : BOOLEAN, data : BOOLEAN, racing : BOOLEAN]
      <4> DEFINE racing == ~record.computed
                 modules == record.modules = record.ourModules
                 data == record.data = record.ourData
      <4>1. racing \in BOOLEAN /\ modules \in BOOLEAN /\ data \in BOOLEAN
        OBVIOUS
      <4> HIDE DEF racing, modules, data
      <4>2. [verifying |-> TRUE, racing |-> racing, modules |-> modules, data |-> data]
              \in [verifying : BOOLEAN, modules : BOOLEAN, data : BOOLEAN, racing : BOOLEAN]
        BY <4>1
      <4>3. QED
        BY <4>2 DEF racing, modules, data
    <3> HIDE DEF c
    <3>3. QED
      BY <1>0, <3>1, <3>2
  <2>5. replies' \in Seq(Replies) /\ answers' \in Seq(Answers)
    BY <1>1, SentReplies, AnswersType
  <2>6. QED
    BY <2>1, <2>2, <2>3, <2>4, <2>5 DEF ChallengeStateOK
<1>2. CASE Judge
  <2>1. match \in 1 .. MaxMatch
    BY <1>0, <1>2 DEF Judge, GameInv, Asked, ChallengeStateOK
  <2>2. \A v \in verdicts' : v.match \in 1 .. MaxMatch
    BY <1>2, <2>1 DEF Judge, ChallengeStateOK
  <2>3. QED
    BY <1>0, <1>2, <2>2 DEF Judge, ChallengeStateOK
<1>3. CASE OnRequest
  <2>1. /\ requests' \in Seq(1 .. MaxMatch) /\ Head(requests) \in 1 .. MaxMatch
    BY <1>3, FirstOut DEF OnRequest, ChallengeStateOK
  <2>2. [nonse |-> Head(requests), map |-> NoMap, ready |-> FALSE, sent |-> FALSE] \in Replies
    BY <2>1 DEF Replies
  <2>3. replies' \in Seq(Replies)
    BY <1>3, <2>2 DEF OnRequest, ChallengeStateOK
  <2>4. QED
    BY <1>3, <2>1, <2>3 DEF OnRequest, ChallengeStateOK
<1>4. CASE OnAnswer
  <2>1. answers' \in Seq(Answers) /\ Head(answers) \in Answers
    BY <1>4, FirstOut DEF OnAnswer, ChallengeStateOK
  <2>2. record' \in Records
    BY <1>0, <1>4, <2>1 DEF OnAnswer, SetResponse, Records, Answers
  <2>3. QED
    BY <1>4, <2>1, <2>2 DEF OnAnswer, ChallengeStateOK
<1>5. CASE ProverHashes
  <2>1. PICK i \in DOMAIN replies :
          replies' = [replies EXCEPT ![i].ready = TRUE, ![i].map = snapshot["prover"]]
    BY <1>5 DEF ProverHashes
  <2>2. replies' = [replies EXCEPT ![i] = [replies[i] EXCEPT !.ready = TRUE, !.map = snapshot["prover"]]]
    BY <2>1, QueueTypes
  <2>3. [replies[i] EXCEPT !.ready = TRUE, !.map = snapshot["prover"]] \in Replies
    BY QueueTypes DEF Replies, ChallengeStateOK
  <2>4. replies' \in Seq(Replies)
    BY <2>2, <2>3 DEF ChallengeStateOK
  <2>5. QED
    BY <1>5, <2>4 DEF ProverHashes, ChallengeStateOK
<1>6. CASE VerifierHashes
  <2>1. ModulesHash(record.nonse) \in Hashes
        /\ DataHash(record.nonse, snapshot["verifier"]) \in Hashes
    BY <1>0 DEF Records, ChallengeStateOK
  <2>2. record' \in Records /\ worker' \in {"idle", "queued", "modules", "data"}
    BY <1>0, <1>6, <2>1 DEF VerifierHashes, Records
  <2>3. QED
    BY <1>6, <2>2 DEF VerifierHashes, ChallengeStateOK
<1>7. CASE NextMatch
  <2>1. NoRecord \in Records
    BY <1>0 DEF NoRecord, Records
  <2>2. match' \in 0 .. MaxMatch /\ gameTime' \in 0 .. VerifyUntil /\ map' \in Maps
    BY <1>0, <1>7 DEF NextMatch
  <2>3. /\ snapshot' \in [{"verifier", "prover"} -> Maps \cup {NoMap}]
        /\ record' \in Records /\ replies' \in Seq(Replies)
    BY <1>7, <2>1 DEF NextMatch, ChallengeStateOK
  <2>4. QED
    BY <1>7, <2>2, <2>3 DEF NextMatch, ChallengeStateOK
<1>8. CASE UNCHANGED challengeVars
  BY <1>8 DEF challengeVars, ChallengeStateOK
<1>9. QED
  BY <1>1, <1>2, <1>3, <1>4, <1>5, <1>6, <1>7, <1>8 DEF ChallengeNext

-----------------------------------------------------------------------------
(* The steps *)

LEMMA GameStep ==
    ASSUME ChallengeInv, [ChallengeNext]_challengeVars
    PROVE  GameInv'
<1> USE ChallengeAssumption, MapsAssumption
<1>0. /\ GameInv /\ ChallengeStateOK /\ RepliesInv
      /\ gameTime \in Nat /\ match \in Nat /\ RequestAt \in Nat /\ 1 < RequestAt
      /\ snapshot \in [{"verifier", "prover"} -> Maps \cup {NoMap}]
      /\ record \in Records
  BY DEF ChallengeInv, ChallengeStateOK
<1>1. CASE Update
  <2>1. /\ gameTime' = gameTime + 1 /\ match > 0 /\ match' = match
        /\ snapshot'["verifier"] # NoMap /\ snapshot'["prover"] # NoMap
    BY <1>0, <1>1, UpdateFacts
  <2>2. Asked' => record'.nonse = match'
    <3>1. CASE gameTime + 1 = RequestAt /\ record' = InitPlayerResponse(record, match)
      BY <1>0, <2>1, <3>1 DEF InitPlayerResponse, Records
    <3>2. CASE gameTime + 1 # RequestAt /\ UNCHANGED record
      BY <1>0, <2>1, <3>2 DEF GameInv, Asked
    <3>3. QED
      BY <1>0, <1>1, <3>1, <3>2, UpdateFacts
  <2>3. ~Asked' => worker' = "idle" /\ requests' = <<>> /\ ~compared'.verifying
    <3>1. ~Asked' => ~Asked /\ gameTime + 1 # RequestAt /\ ~(gameTime + 1 >= ReplyUntil)
      BY <1>0, <2>1 DEF Asked
    <3>2. QED
      BY <1>0, <1>1, <3>1, UpdateFacts DEF GameInv, NotVerifying
  <2>4. QED
    BY <1>0, <2>1, <2>2, <2>3 DEF GameInv
<1>2. CASE Judge
  BY <1>0, <1>2 DEF Judge, GameInv, Asked, NotVerifying
<1>3. CASE OnRequest
  <2>1. Asked
    BY <1>0, <1>3 DEF OnRequest, GameInv
  <2>2. snapshot["prover"] # NoMap
    BY <1>0, <2>1 DEF GameInv, Asked
  <2>3. QED
    BY <1>0, <1>3, <2>1, <2>2 DEF OnRequest, GameInv, Asked
<1>4. CASE OnAnswer
  <2>1. record'.nonse = record.nonse
    BY <1>0, <1>4 DEF OnAnswer, SetResponse, Records
  <2>2. gameTime # 0
    BY <1>0, <1>4 DEF OnAnswer, GameInv
  <2>3. QED
    BY <1>0, <1>4, <2>1, <2>2 DEF OnAnswer, GameInv, Asked
<1>5. CASE ProverHashes
  <2>1. PICK i \in DOMAIN replies : ~replies[i].ready
    BY <1>5 DEF ProverHashes
  <2>2. replies # <<>> /\ gameTime # 0
    BY <1>0, <2>1 DEF GameInv
  <2>3. QED
    BY <1>0, <1>5, <2>2 DEF ProverHashes, GameInv, Asked
<1>6. CASE VerifierHashes
  <2>1. worker # "idle"
    BY <1>6 DEF VerifierHashes
  <2>2. Asked
    BY <1>0, <2>1 DEF GameInv
  <2>3. record'.nonse = record.nonse
    BY <1>0, <1>6 DEF VerifierHashes, Records
  <2>4. QED
    BY <1>0, <1>6, <2>2, <2>3 DEF VerifierHashes, GameInv, Asked
<1>7. CASE NextMatch
  <2>1. /\ gameTime' = 0 /\ ~Asked'
        /\ requests' = <<>> /\ answers' = <<>> /\ worker' = "idle" /\ ~compared'.verifying
    BY <1>0, <1>7 DEF NextMatch, Asked
  <2>2. snapshot'["prover"] = NoMap => replies' = <<>>
    BY <1>0, <1>7 DEF NextMatch, GameInv
  <2>3. \A i \in DOMAIN replies' : replies'[i].ready
    BY <1>7 DEF NextMatch
  <2>4. QED
    BY <2>1, <2>2, <2>3 DEF GameInv
<1>8. CASE UNCHANGED challengeVars
  BY <1>0, <1>8 DEF challengeVars, GameInv, Asked
<1>9. QED
  BY <1>1, <1>2, <1>3, <1>4, <1>5, <1>6, <1>7, <1>8 DEF ChallengeNext

LEMMA RepliesStep ==
    ASSUME ChallengeInv, [ChallengeNext]_challengeVars
    PROVE  RepliesInv'
<1> USE ChallengeAssumption, MapsAssumption
<1>0. /\ GameInv /\ ChallengeStateOK /\ RepliesInv
      /\ gameTime \in Nat /\ match \in Nat /\ RequestAt \in Nat /\ 1 < RequestAt
      /\ RequestAt < ReplyUntil /\ ReplyUntil \in Nat
      /\ snapshot \in [{"verifier", "prover"} -> Maps \cup {NoMap}]
      /\ replies \in Seq(Replies)
  BY DEF ChallengeInv, ChallengeStateOK
<1>1. CASE Update
  <2>1. /\ gameTime' = gameTime + 1 /\ match > 0 /\ match' = match
        /\ gameTime >= 1 => snapshot' = snapshot
        /\ \A i \in DOMAIN requests' : requests'[i] = match
    BY <1>0, <1>1, UpdateFacts
  <2>2. /\ DOMAIN replies' = DOMAIN replies
        /\ \A i \in DOMAIN replies :
             /\ replies'[i].nonse = replies[i].nonse /\ replies'[i].map = replies[i].map
             /\ replies'[i].ready = replies[i].ready
             /\ replies[i].sent => replies'[i].sent
             /\ replies'[i].sent /\ ~replies[i].sent => replies[i].ready
    BY <1>0, <1>1, SentReplies
  <2>3. \A i \in DOMAIN replies : replies[i].nonse = match => gameTime >= 1 /\ Asked
    BY <1>0 DEF RepliesInv, Asked
  \* At the first tick all that is left of earlier games is ready, and is sent.
  <2>4. ASSUME NEW i \in DOMAIN replies, gameTime = 0 PROVE replies'[i].sent
    <3>1. replies[i].ready /\ replies # <<>>
      BY <1>0, <2>4 DEF GameInv
    <3>2. snapshot["prover"] # NoMap
      BY <1>0, <3>1 DEF GameInv
    <3>3. CASE replies[i].sent
      BY <2>2, <3>3
    <3>4. CASE ~replies[i].sent
      <4>1. i \in Sendable(gameTime + 1)
        BY <1>0, <2>4, <3>1, <3>2, <3>4 DEF Sendable, TakesSnapshot, IsReady
      <4>2. replies'[i] = [replies[i] EXCEPT !.sent = TRUE]
        BY <1>1, <4>1 DEF Update
      <4>3. QED
        BY <4>2, <1>0, QueueTypes DEF Replies
    <3>5. QED
      BY <3>3, <3>4
  <2>5. ASSUME NEW i \in DOMAIN replies
        PROVE  /\ replies'[i].nonse \in 1 .. match
               /\ replies'[i].nonse = match => Asked'
               /\ ~replies'[i].sent => replies'[i].nonse = match
               /\ replies'[i].sent => replies'[i].ready
               /\ replies'[i].ready /\ replies'[i].nonse = match =>
                     replies'[i].map = snapshot'["prover"]
    BY <1>0, <2>1, <2>2, <2>3, <2>4 DEF RepliesInv, Asked
  <2>6. QED
    BY <2>1, <2>2, <2>5 DEF RepliesInv
<1>2. CASE OnRequest
  <2>1. /\ Head(requests) = match /\ Asked
        /\ \A i \in DOMAIN requests' : requests'[i] = match
    <3>1. requests # <<>> /\ requests \in Seq(1 .. MaxMatch) /\ requests' = Tail(requests)
      BY <1>0, <1>2 DEF OnRequest, ChallengeStateOK
    <3>2. /\ Head(requests) = requests[1] /\ 1 \in DOMAIN requests
          /\ \A i \in DOMAIN Tail(requests) : i + 1 \in DOMAIN requests
                                              /\ Tail(requests)[i] = requests[i + 1]
      BY <3>1, FirstOut
    <3>3. QED
      BY <1>0, <3>1, <3>2 DEF RepliesInv, GameInv
  <2> DEFINE r == [nonse |-> match, map |-> NoMap, ready |-> FALSE, sent |-> FALSE]
  <2>2. r.nonse = match /\ ~r.ready /\ ~r.sent /\ match \in 1 .. match
    BY <1>0, <2>1 DEF GameInv, Asked
  <2>3. replies' = Append(replies, r)
    BY <1>2, <2>1 DEF OnRequest
  <2> HIDE DEF r
  <2>4. \A i \in DOMAIN replies' :
           (i \in DOMAIN replies /\ replies'[i] = replies[i]) \/ replies'[i] = r
    BY <1>0, <2>3
  <2>5. UNCHANGED <<match, gameTime, snapshot>>
    BY <1>2 DEF OnRequest
  <2>6. QED
    BY <1>0, <2>1, <2>2, <2>4, <2>5 DEF RepliesInv, Asked
<1>3. CASE ProverHashes
  <2>1. PICK k \in DOMAIN replies :
          /\ ~replies[k].ready
          /\ replies' = [replies EXCEPT ![k].ready = TRUE, ![k].map = snapshot["prover"]]
          /\ UNCHANGED <<match, gameTime, snapshot, requests>>
    BY <1>3 DEF ProverHashes
  <2>2. replies' = [replies EXCEPT ![k] = [replies[k] EXCEPT !.ready = TRUE, !.map = snapshot["prover"]]]
    BY <1>0, <2>1, QueueTypes
  <2>3. \A i \in DOMAIN replies' :
          \/ i \in DOMAIN replies /\ replies'[i] = replies[i]
          \/ /\ i = k /\ replies'[i].nonse = replies[k].nonse
             /\ replies'[i].sent = replies[k].sent
             /\ replies'[i].ready /\ replies'[i].map = snapshot["prover"]
    BY <1>0, <2>2, QueueTypes DEF Replies
  <2>4. QED
    BY <1>0, <2>1, <2>3 DEF RepliesInv, Asked
<1>4. CASE NextMatch
  <2>1. /\ gameTime' = 0 /\ match' = match + 1 /\ requests' = <<>>
        /\ \A i \in DOMAIN replies' : i \in DOMAIN replies /\ replies'[i] = replies[i]
    BY <1>4 DEF NextMatch
  <2>2. \A i \in DOMAIN replies : replies[i].nonse \in 1 .. match /\ replies[i].ready
    BY <1>0, <1>4 DEF NextMatch, RepliesInv
  <2>3. \A i \in DOMAIN replies' : replies'[i].nonse \in 1 .. match' /\ replies'[i].nonse # match'
    BY <1>0, <2>1, <2>2
  <2>4. QED
    BY <1>0, <2>1, <2>2, <2>3 DEF RepliesInv
<1>5. CASE UNCHANGED <<gameTime, match, snapshot, replies, requests>>
  BY <1>0, <1>5 DEF RepliesInv, Asked
<1>6. QED
  BY <1>1, <1>2, <1>3, <1>4, <1>5
  DEF ChallengeNext, challengeVars, Judge, OnAnswer, VerifierHashes

LEMMA AnswersStep ==
    ASSUME ChallengeInv, [ChallengeNext]_challengeVars
    PROVE  AnswersInv'
<1> USE ChallengeAssumption, MapsAssumption
<1>0. /\ GameInv /\ ChallengeStateOK /\ RepliesInv /\ AnswersInv
      /\ gameTime \in Nat /\ match \in Nat /\ RequestAt \in Nat /\ 1 < RequestAt
      /\ RequestAt < ReplyUntil /\ ReplyUntil \in Nat
      /\ record \in Records /\ answers \in Seq(Answers)
  BY DEF ChallengeInv, ChallengeStateOK
<1>1. CASE Update
  <2> SUFFICES ASSUME Asked' PROVE AnswersInv'
    BY DEF AnswersInv
  <2>1. /\ gameTime' = gameTime + 1 /\ match' = match /\ gameTime >= 1
        /\ snapshot' = snapshot
    BY <1>0, <1>1, UpdateFacts DEF Asked
  <2>2. CASE gameTime + 1 = RequestAt
    <3>1. answers' = <<>>
      BY <1>0, <1>1, <2>2, SendingFacts
    <3>2. ~record'.hasModules /\ ~record'.hasData
      BY <1>0, <1>1, <2>2, UpdateFacts DEF InitPlayerResponse, Records
    <3>3. QED
      BY <3>1, <3>2 DEF AnswersInv
  <2>3. CASE gameTime + 1 # RequestAt
    <3>1. Asked /\ record' = record
      BY <1>0, <1>1, <2>1, <2>3, UpdateFacts DEF Asked
    <3>2. CASE answers' = <<>>
      BY <1>0, <2>1, <3>1, <3>2 DEF AnswersInv
    <3>3. CASE \E i \in DOMAIN replies : IsReady(replies[i]) /\ answers' = Answer(replies[i])
      <4>1. PICK i \in DOMAIN replies : IsReady(replies[i]) /\ answers' = Answer(replies[i])
        BY <3>3
      <4>2. replies[i].nonse = match /\ replies[i].map = snapshot["prover"]
            /\ replies[i] \in Replies
        BY <1>0, <2>1, <4>1, QueueTypes DEF RepliesInv, IsReady
      <4>3. \A k \in DOMAIN answers' :
              /\ answers'[k].kind = "Modules" => answers'[k].hash = ModulesHash(match)
              /\ answers'[k].kind = "Data" => answers'[k].hash = DataHash(match, snapshot["prover"])
        BY <4>1, <4>2, AnswerFacts
      <4>4. QED
        BY <1>0, <2>1, <3>1, <4>3 DEF AnswersInv
    <3>4. QED
      BY <1>0, <1>1, <3>2, <3>3, SendingFacts
  <2>4. QED
    BY <2>2, <2>3
<1>2. CASE OnAnswer
  <2>1. /\ Head(answers) = answers[1] /\ 1 \in DOMAIN answers /\ Head(answers) \in Answers
        /\ \A i \in DOMAIN answers' : i + 1 \in DOMAIN answers /\ answers'[i] = answers[i + 1]
    BY <1>0, <1>2, FirstOut DEF OnAnswer
  <2> DEFINE m == Head(answers)
  <2>2. \/ /\ m.kind = "Modules" /\ record' = [record EXCEPT !.modules = m.hash, !.hasModules = TRUE]
        \/ /\ m.kind = "Data" /\ record' = [record EXCEPT !.data = m.hash, !.hasData = TRUE]
    BY <1>2, <2>1 DEF OnAnswer, SetResponse, Answers
  <2>3. UNCHANGED <<gameTime, match, snapshot>>
    BY <1>2 DEF OnAnswer
  <2> SUFFICES ASSUME Asked PROVE AnswersInv'
    BY <2>3 DEF AnswersInv, Asked
  <2>4. /\ m.kind = "Modules" => m.hash = ModulesHash(match)
        /\ m.kind = "Data" => m.hash = DataHash(match, snapshot["prover"])
    BY <1>0, <2>1 DEF AnswersInv
  <2> HIDE DEF m
  <2>5. /\ record'.hasModules => record'.modules = ModulesHash(match)
        /\ record'.hasData => record'.data = DataHash(match, snapshot["prover"])
    BY <1>0, <2>2, <2>4 DEF AnswersInv, Records
  <2>6. QED
    BY <1>0, <2>1, <2>3, <2>5 DEF AnswersInv
<1>3. CASE VerifierHashes
  <2>1. /\ UNCHANGED <<gameTime, match, snapshot, answers>>
        /\ record'.hasModules = record.hasModules /\ record'.modules = record.modules
        /\ record'.hasData = record.hasData /\ record'.data = record.data
    BY <1>0, <1>3 DEF VerifierHashes, Records
  <2>2. QED
    BY <1>0, <2>1 DEF AnswersInv, Asked
<1>4. CASE NextMatch
  BY <1>0, <1>4 DEF NextMatch, AnswersInv, Asked
<1>5. CASE UNCHANGED <<gameTime, match, snapshot, record, answers>>
  BY <1>0, <1>5 DEF AnswersInv, Asked
<1>6. QED
  BY <1>1, <1>2, <1>3, <1>4, <1>5
  DEF ChallengeNext, challengeVars, Judge, OnRequest, ProverHashes

LEMMA WorkerStep ==
    ASSUME ChallengeInv, [ChallengeNext]_challengeVars
    PROVE  WorkerInv'
<1> USE ChallengeAssumption, MapsAssumption
<1>0. /\ GameInv /\ ChallengeStateOK /\ WorkerInv
      /\ gameTime \in Nat /\ match \in Nat /\ RequestAt \in Nat /\ 1 < RequestAt
      /\ record \in Records
  BY DEF ChallengeInv, ChallengeStateOK
<1>1. CASE Update
  <2> SUFFICES ASSUME Asked' PROVE WorkerInv'
    BY DEF WorkerInv
  <2>1. /\ gameTime' = gameTime + 1 /\ match' = match /\ gameTime >= 1
        /\ snapshot' = snapshot
    BY <1>0, <1>1, UpdateFacts DEF Asked
  <2>2. CASE gameTime + 1 = RequestAt
    <3>1. worker' = "queued" /\ ~record'.computed
      BY <1>0, <1>1, <2>2, UpdateFacts DEF InitPlayerResponse, Records
    <3>2. QED
      BY <3>1 DEF WorkerInv
  <2>3. CASE gameTime + 1 # RequestAt
    <3>1. Asked /\ UNCHANGED <<record, worker>>
      BY <1>0, <1>1, <2>1, <2>3, UpdateFacts DEF Asked
    <3>2. QED
      BY <1>0, <2>1, <3>1 DEF WorkerInv
  <2>4. QED
    BY <2>2, <2>3
<1>2. CASE OnAnswer
  <2>1. /\ UNCHANGED <<gameTime, match, snapshot, worker>>
        /\ record'.ourModules = record.ourModules /\ record'.ourData = record.ourData
        /\ record'.computed = record.computed
    BY <1>0, <1>2 DEF OnAnswer, SetResponse, Records
  <2>2. QED
    BY <1>0, <2>1 DEF WorkerInv, Asked
<1>3. CASE VerifierHashes
  <2>1. UNCHANGED <<gameTime, match, snapshot>> /\ Asked /\ record.nonse = match
    BY <1>0, <1>3 DEF VerifierHashes, GameInv
  <2>2. CASE worker = "queued" /\ worker' = "modules"
             /\ record' = [record EXCEPT !.ourModules = ModulesHash(record.nonse)]
    BY <1>0, <2>1, <2>2 DEF WorkerInv, Records
  <2>3. CASE worker = "modules" /\ worker' = "data"
             /\ record' = [record EXCEPT !.ourData = DataHash(record.nonse, snapshot["verifier"])]
    BY <1>0, <2>1, <2>3 DEF WorkerInv, Records
  <2>4. CASE worker = "data" /\ worker' = "idle" /\ record' = [record EXCEPT !.computed = TRUE]
    BY <1>0, <2>1, <2>4 DEF WorkerInv, Records
  <2>5. QED
    BY <1>3, <2>2, <2>3, <2>4 DEF VerifierHashes
<1>4. CASE NextMatch
  BY <1>0, <1>4 DEF NextMatch, WorkerInv, Asked
<1>5. CASE UNCHANGED <<gameTime, match, snapshot, record, worker>>
  BY <1>0, <1>5 DEF WorkerInv, Asked
<1>6. QED
  BY <1>1, <1>2, <1>3, <1>4, <1>5
  DEF ChallengeNext, challengeVars, Judge, OnRequest, ProverHashes

LEMMA ComparedStep ==
    ASSUME ChallengeInv, [ChallengeNext]_challengeVars
    PROVE  ComparedInv'
<1> USE ChallengeAssumption, MapsAssumption
<1>0. /\ GameInv /\ ChallengeStateOK /\ WorkerInv /\ ComparedInv
      /\ gameTime \in Nat /\ RequestAt \in Nat /\ RequestAt < ReplyUntil /\ ReplyUntil \in Nat
      /\ record \in Records
  BY DEF ChallengeInv, ChallengeStateOK
<1>1. CASE Update
  <2> SUFFICES ASSUME compared'.verifying PROVE ComparedInv'
    BY DEF ComparedInv
  <2>1. gameTime' = gameTime + 1 /\ gameTime + 1 >= ReplyUntil
    BY <1>0, <1>1, UpdateFacts DEF NotVerifying
  <2>2. /\ requests' = <<>> /\ record' = record
        /\ compared' = [verifying |-> TRUE, racing |-> ~record.computed,
                        modules |-> record.modules = record.ourModules,
                        data |-> record.data = record.ourData]
    BY <1>0, <1>1, <2>1, UpdateFacts
  <2>3. answers' = <<>>
    BY <1>0, <1>1, <2>1, SendingFacts
  <2>4. /\ compared'.racing <=> ~record.computed
        /\ compared'.modules <=> record.modules = record.ourModules
        /\ compared'.data <=> record.data = record.ourData
    BY <2>2
  <2>5. QED
    BY <1>0, <2>1, <2>2, <2>3, <2>4 DEF ComparedInv
<1>2. CASE Judge
  BY <1>2 DEF Judge, ComparedInv, NotVerifying
<1>3. CASE OnRequest
  BY <1>0, <1>3 DEF OnRequest, ComparedInv
<1>4. CASE OnAnswer
  BY <1>4 DEF OnAnswer, ComparedInv
<1>5. CASE VerifierHashes
  <2>1. Asked /\ worker # "idle" /\ ~record.computed
    BY <1>0, <1>5 DEF VerifierHashes, GameInv, WorkerInv
  <2>2. UNCHANGED <<gameTime, compared, answers, requests>>
    BY <1>5 DEF VerifierHashes
  <2>3. QED
    BY <1>0, <2>1, <2>2 DEF ComparedInv
<1>6. CASE NextMatch
  BY <1>6 DEF NextMatch, ComparedInv
<1>7. CASE UNCHANGED <<gameTime, record, compared, answers, requests>>
  BY <1>0, <1>7 DEF ComparedInv
<1>8. QED
  BY <1>1, <1>2, <1>3, <1>4, <1>5, <1>6, <1>7 DEF ChallengeNext, challengeVars, ProverHashes

LEMMA DeliveryStep ==
    ASSUME ChallengeInv, [ChallengeNext]_challengeVars
    PROVE  DeliveryInv'
<1> USE ChallengeAssumption, MapsAssumption
<1>0. /\ GameInv /\ ChallengeStateOK /\ RepliesInv /\ DeliveryInv
      /\ gameTime \in Nat /\ match \in Nat /\ RequestAt \in Nat /\ 1 < RequestAt
      /\ record \in Records /\ answers \in Seq(Answers) /\ replies \in Seq(Replies)
  BY DEF ChallengeInv, ChallengeStateOK
<1>1. CASE Update
  <2> SUFFICES ASSUME Asked' PROVE DeliveryInv'
    BY DEF DeliveryInv
  <2>1. /\ gameTime' = gameTime + 1 /\ match' = match /\ requests = <<>> /\ answers = <<>>
    BY <1>0, <1>1, UpdateFacts
  <2>2. /\ DOMAIN replies' = DOMAIN replies
        /\ \A i \in DOMAIN replies :
             /\ replies'[i].nonse = replies[i].nonse
             /\ replies'[i].sent /\ ~replies[i].sent => answers' # <<>>
    BY <1>0, <1>1, SentReplies
  <2>3. CASE gameTime + 1 = RequestAt
    <3>1. \A i \in DOMAIN replies : replies[i].nonse # match
      BY <1>0, <2>3 DEF RepliesInv, Asked
    <3>2. requests' = <<match>>
      BY <1>0, <1>1, <2>3, UpdateFacts
    <3>3. QED
      <4>1. <<match>> # <<>>
        OBVIOUS
      <4>2. requests' # <<>>
        BY <3>2, <4>1
      <4>3. QED
        BY <2>1, <2>2, <3>1, <4>2 DEF DeliveryInv
  <2>4. CASE gameTime + 1 # RequestAt
    <3>1. Asked /\ record' = record
      BY <1>0, <1>1, <2>1, <2>4, UpdateFacts DEF Asked
    <3>2. \E i \in DOMAIN replies' : replies'[i].nonse = match
      BY <1>0, <2>1, <2>2, <3>1 DEF DeliveryInv
    <3>3. answers' # <<>> => OnItsWay("Modules")' /\ OnItsWay("Data")'
      <4> SUFFICES ASSUME answers' # <<>> PROVE OnItsWay("Modules")' /\ OnItsWay("Data")'
        OBVIOUS
      <4>1. PICK i \in DOMAIN replies : answers' = Answer(replies[i])
        BY <1>0, <1>1, SendingFacts
      <4>2. 1 \in DOMAIN answers' /\ 2 \in DOMAIN answers'
            /\ answers'[1].kind = "Modules" /\ answers'[2].kind = "Data"
        BY <1>0, <4>1, QueueTypes, AnswerFacts
      <4>3. QED
        BY <4>2 DEF OnItsWay
    <3>4. ASSUME NEW i \in DOMAIN replies, replies[i].nonse = match, replies[i].sent
          PROVE  record.hasModules /\ record.hasData
      BY <1>0, <2>1, <3>1, <3>4 DEF DeliveryInv, OnItsWay
    <3>5. QED
      BY <2>1, <2>2, <3>1, <3>2, <3>3, <3>4 DEF DeliveryInv
  <2>5. QED
    BY <2>3, <2>4
<1>2. CASE OnRequest
  <2> DEFINE r == [nonse |-> Head(requests), map |-> NoMap, ready |-> FALSE, sent |-> FALSE]
  <2>1. Head(requests) = match
    BY <1>0, <1>2, FirstOut DEF OnRequest, ChallengeStateOK, RepliesInv
  <2>2. r.nonse = match /\ ~r.sent /\ replies' = Append(replies, r)
    BY <1>2, <2>1 DEF OnRequest
  <2> HIDE DEF r
  <2>3. /\ Len(replies) + 1 \in DOMAIN replies' /\ replies'[Len(replies) + 1] = r
        /\ \A i \in DOMAIN replies' : (i \in DOMAIN replies /\ replies'[i] = replies[i]) \/ replies'[i] = r
    BY <1>0, <2>2
  <2>4. UNCHANGED <<gameTime, match, record, answers>>
    BY <1>2 DEF OnRequest
  <2>5. QED
    BY <1>0, <2>2, <2>3, <2>4 DEF DeliveryInv, OnItsWay, Asked
<1>3. CASE OnAnswer
  <2>1. /\ Head(answers) = answers[1] /\ Head(answers) \in Answers
        /\ \A i \in DOMAIN answers : i = 1 \/ (i - 1 \in DOMAIN answers' /\ answers'[i - 1] = answers[i])
    BY <1>0, <1>3, FirstOut DEF OnAnswer
  <2> DEFINE m == Head(answers)
  <2>2. \/ /\ m.kind = "Modules" /\ record' = [record EXCEPT !.modules = m.hash, !.hasModules = TRUE]
        \/ /\ m.kind = "Data" /\ record' = [record EXCEPT !.data = m.hash, !.hasData = TRUE]
    BY <1>3, <2>1 DEF OnAnswer, SetResponse, Answers
  <2> HIDE DEF m
  <2>3. /\ record.hasModules => record'.hasModules
        /\ record.hasData => record'.hasData
        /\ m.kind = "Modules" => record'.hasModules
        /\ m.kind = "Data" => record'.hasData
    BY <1>0, <2>2 DEF Records
  <2>4. /\ OnItsWay("Modules") => record'.hasModules \/ OnItsWay("Modules")'
        /\ OnItsWay("Data") => record'.hasData \/ OnItsWay("Data")'
    BY <2>1, <2>3 DEF OnItsWay, m
  <2>5. UNCHANGED <<gameTime, match, replies, requests>>
    BY <1>3 DEF OnAnswer
  <2>6. QED
    BY <1>0, <2>3, <2>4, <2>5 DEF DeliveryInv, Asked
<1>4. CASE ProverHashes
  <2>1. PICK k \in DOMAIN replies :
          /\ replies' = [replies EXCEPT ![k].ready = TRUE, ![k].map = snapshot["prover"]]
          /\ UNCHANGED <<gameTime, match, record, requests, answers>>
    BY <1>4 DEF ProverHashes
  <2>2. DOMAIN replies' = DOMAIN replies
        /\ \A i \in DOMAIN replies : replies'[i].nonse = replies[i].nonse
                                     /\ replies'[i].sent = replies[i].sent
    BY <1>0, <2>1, QueueTypes DEF Replies
  <2>3. QED
    BY <1>0, <2>1, <2>2 DEF DeliveryInv, OnItsWay, Asked
<1>5. CASE VerifierHashes
  <2>1. /\ UNCHANGED <<gameTime, match, replies, requests, answers>>
        /\ record'.hasModules = record.hasModules /\ record'.hasData = record.hasData
    BY <1>0, <1>5 DEF VerifierHashes, Records
  <2>2. QED
    BY <1>0, <2>1 DEF DeliveryInv, OnItsWay, Asked
<1>6. CASE NextMatch
  BY <1>0, <1>6 DEF NextMatch, DeliveryInv, Asked
<1>7. CASE UNCHANGED <<gameTime, match, record, replies, requests, answers>>
  BY <1>0, <1>7 DEF DeliveryInv, OnItsWay, Asked
<1>8. QED
  BY <1>1, <1>2, <1>3, <1>4, <1>5, <1>6, <1>7 DEF ChallengeNext, challengeVars, Judge

LEMMA VerdictsStep ==
    ASSUME ChallengeInv, [ChallengeNext]_challengeVars
    PROVE  VerdictsInv'
<1> USE ChallengeAssumption
<1>0. /\ GameInv /\ ComparedInv /\ VerdictsInv
      /\ gameTime \in Nat /\ match \in Nat /\ RequestAt \in Nat /\ 1 < RequestAt
      /\ RequestAt < ReplyUntil /\ ReplyUntil \in Nat
  BY DEF ChallengeInv, ChallengeStateOK
<1>1. CASE Update
  BY <1>0, <1>1 DEF Update, VerdictsInv
<1>2. CASE Judge
  <2>1. gameTime >= ReplyUntil /\ match \in 1 .. match
    BY <1>0, <1>2 DEF Judge, ComparedInv, GameInv, Asked
  <2>2. \A v \in verdicts' : v \in verdicts \/ v.match = match
    BY <1>2 DEF Judge
  <2>3. QED
    BY <1>0, <1>2, <2>1, <2>2 DEF Judge, VerdictsInv
<1>3. CASE NextMatch
  BY <1>0, <1>3 DEF NextMatch, VerdictsInv
<1>4. CASE UNCHANGED <<gameTime, match, verdicts>>
  BY <1>0, <1>4 DEF VerdictsInv
<1>5. QED
  BY <1>1, <1>2, <1>3, <1>4
  DEF ChallengeNext, challengeVars, OnRequest, OnAnswer, ProverHashes, VerifierHashes

\* What a verdict says, when the record was complete and of this map.
LEMMA HonestVerdict ==
    ASSUME ChallengeInv, Judge, ~compared.racing,
           snapshot["verifier"] = map, snapshot["prover"] = map
    PROVE  Says(record, compared) \notin {"fails dll/exe verification", "fails game data verification"}
<1>0. Asked /\ GameInv /\ AnswersInv /\ WorkerInv /\ ComparedInv /\ record \in Records
      /\ compared.verifying
  BY DEF Judge, ChallengeInv, GameInv, ChallengeStateOK
<1>1. /\ record.computed
      /\ compared.modules <=> record.modules = record.ourModules
      /\ compared.data <=> record.data = record.ourData
  BY <1>0 DEF ComparedInv
<1>2. record.ourModules = ModulesHash(match) /\ record.ourData = DataHash(match, map)
  BY <1>0, <1>1 DEF WorkerInv
<1>3. record.hasModules => compared.modules
  BY <1>0, <1>1, <1>2 DEF AnswersInv
<1>4. record.hasData => compared.data
  BY <1>0, <1>1, <1>2 DEF AnswersInv
<1>5. QED
  BY <1>1, <1>3, <1>4 DEF Says

LEMMA NoFalseFailureStep ==
    ASSUME ChallengeInv, [ChallengeNext]_challengeVars
    PROVE  NoFalseFailure'
<1>0. NoFalseFailure
  BY DEF ChallengeInv
<1>1. CASE Judge
  <2> DEFINE v0 == [match |-> match, says |-> Says(record, compared), racing |-> compared.racing,
                    stale |-> snapshot["verifier"] # map \/ snapshot["prover"] # map]
  <2>1. verdicts' = verdicts \cup {v0}
    BY <1>1 DEF Judge
  <2>2. v0.says = Says(record, compared) /\ v0.racing = compared.racing
        /\ (v0.stale <=> snapshot["verifier"] # map \/ snapshot["prover"] # map)
    OBVIOUS
  <2> HIDE DEF v0
  <2>3. Fails(v0) => v0.racing \/ v0.stale
    BY <1>1, <2>2, HonestVerdict DEF Fails
  <2>4. QED
    BY <1>0, <2>1, <2>3 DEF NoFalseFailure
<1>2. CASE UNCHANGED verdicts
  BY <1>0, <1>2 DEF NoFalseFailure
<1>3. QED
  BY <1>1, <1>2
  DEF ChallengeNext, challengeVars, Update, OnRequest, OnAnswer, ProverHashes, VerifierHashes,
      NextMatch

LEMMA SilentStep ==
    ASSUME ChallengeInv, [ChallengeNext]_challengeVars
    PROVE  SilentOnlyIfLate'
<1> USE ChallengeAssumption
<1>0. /\ SilentOnlyIfLate /\ VerdictsInv /\ ChallengeStateOK /\ GameInv
      /\ gameTime \in Nat /\ match \in Nat /\ ReplyUntil \in Nat /\ replies \in Seq(Replies)
  BY DEF ChallengeInv, ChallengeStateOK
<1>late. gameTime >= ReplyUntil => ~(gameTime + 1 < ReplyUntil)
  BY <1>0
<1>1. CASE Update
  <2> SUFFICES ASSUME NEW v \in verdicts, v.says = "has not replied", v.match = match
               PROVE  \E i \in DOMAIN replies' : replies'[i].nonse = match /\ ~replies'[i].sent
    BY <1>0, <1>1, UpdateFacts DEF SilentOnlyIfLate
  <2>1. gameTime >= ReplyUntil
    BY <1>0 DEF VerdictsInv
  <2>2. replies' = replies
    <3>1. ~(gameTime + 1 < ReplyUntil)
      BY <1>late, <2>1
    <3>2. replies' = replies \/ gameTime + 1 < ReplyUntil
      <4>1. ChallengeStateOK /\ GameInv /\ Update
        BY <1>0, <1>1
      <4>2. QED
        BY <4>1, SendingFacts, Zenon
    <3>3. QED
      BY <3>1, <3>2
  <2>3. QED
    BY <1>0, <2>2 DEF SilentOnlyIfLate
<1>2. CASE Judge
  <2>1. /\ compared.verifying /\ Asked /\ answers = <<>> /\ requests = <<>>
        /\ DeliveryInv /\ record \in Records
    BY <1>0, <1>2 DEF Judge, ChallengeInv, GameInv, ComparedInv, ChallengeStateOK
  <2>2. Says(record, compared) = "has not replied" => ~record.hasModules \/ ~record.hasData
    BY DEF Says
  <2>3. PICK i \in DOMAIN replies : replies[i].nonse = match
    BY <2>1 DEF DeliveryInv
  <2>4. replies[i].sent => record.hasModules /\ record.hasData
    BY <2>1, <2>3 DEF DeliveryInv, OnItsWay
  <2>5. \A v \in verdicts' : v \in verdicts \/ v.says = Says(record, compared)
    BY <1>2 DEF Judge
  <2>6. UNCHANGED <<match, replies>>
    BY <1>2 DEF Judge
  <2>7. QED
    BY <1>0, <2>2, <2>3, <2>4, <2>5, <2>6 DEF SilentOnlyIfLate
<1>3. CASE OnRequest
  <2>1. UNCHANGED <<match, verdicts>>
        /\ \A i \in DOMAIN replies : i \in DOMAIN replies' /\ replies'[i] = replies[i]
    BY <1>0, <1>3 DEF OnRequest
  <2>2. QED
    BY <1>0, <2>1 DEF SilentOnlyIfLate
<1>4. CASE ProverHashes
  <2>1. PICK k \in DOMAIN replies :
          /\ replies' = [replies EXCEPT ![k].ready = TRUE, ![k].map = snapshot["prover"]]
          /\ UNCHANGED <<match, verdicts>>
    BY <1>4 DEF ProverHashes
  <2>2. DOMAIN replies' = DOMAIN replies
        /\ \A i \in DOMAIN replies : replies'[i].nonse = replies[i].nonse
                                     /\ replies'[i].sent = replies[i].sent
    BY <1>0, <2>1, QueueTypes DEF Replies
  <2>3. QED
    BY <1>0, <2>1, <2>2 DEF SilentOnlyIfLate
<1>5. CASE NextMatch
  <2>1. match' = match + 1 /\ verdicts' = verdicts
    BY <1>5 DEF NextMatch
  <2>2. \A v \in verdicts : v.match # match + 1
    BY <1>0 DEF VerdictsInv
  <2>3. QED
    BY <2>1, <2>2 DEF SilentOnlyIfLate
<1>6. CASE UNCHANGED <<match, verdicts, replies>>
  BY <1>0, <1>6 DEF SilentOnlyIfLate
<1>7. QED
  BY <1>1, <1>2, <1>3, <1>4, <1>5, <1>6
  DEF ChallengeNext, challengeVars, OnAnswer, VerifierHashes

LEMMA ChallengeInvariant == ChallengeSpec => []ChallengeInv
<1>1. ChallengeInv /\ [ChallengeNext]_challengeVars => ChallengeInv'
  <2> SUFFICES ASSUME ChallengeInv, [ChallengeNext]_challengeVars PROVE ChallengeInv'
    OBVIOUS
  <2>1. ChallengeStateOK'
    BY ChallengeTypeStep DEF ChallengeInv
  <2>2. QED
    BY <2>1, GameStep, RepliesStep, AnswersStep, WorkerStep, ComparedStep, DeliveryStep,
       VerdictsStep, NoFalseFailureStep, SilentStep DEF ChallengeInv
<1>2. QED
  BY <1>1, InitChallenge, PTL DEF ChallengeSpec

\* The variables of challenge and response keep their types.
THEOREM ChallengeTypeInvariant == ChallengeSpec => []ChallengeTypeOK
<1>1. ChallengeInv => ChallengeTypeOK
  BY QueueTypes DEF ChallengeInv, ChallengeStateOK, ChallengeTypeOK, Records, Answers
<1>2. QED
  BY <1>1, ChallengeInvariant, PTL

\* A client that runs the same program on the same data is reported as failing only if the
\* worker was still storing hashes when they were compared, or one of the two has the
\* snapshot of another game's map, over any number of games and restarts.
THEOREM NoFalseFailureHolds == ChallengeSpec => []NoFalseFailure
<1>1. ChallengeInv => NoFalseFailure
  BY DEF ChallengeInv
<1>2. QED
  BY <1>1, ChallengeInvariant, PTL

\* A client is reported as silent only when its answer was not ready in time.
THEOREM SilentOnlyIfLateHolds == ChallengeSpec => []SilentOnlyIfLate
<1>1. ChallengeInv => SilentOnlyIfLate
  BY DEF ChallengeInv
<1>2. QED
  BY <1>1, ChallengeInvariant, PTL
=============================================================================
