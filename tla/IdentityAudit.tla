--------------------------- MODULE IdentityAudit ---------------------------
(***************************************************************************)
(* The unit-identity audit of tdraw.dll (DDraw/UnitIdentity.cpp): at the   *)
(* same game time every client takes a digest of every player's units, and *)
(* each tells the others the digest of its own; a client that disagrees    *)
(* with the owner several times in a row reports a desync.                 *)
(*                                                                         *)
(* One owner and one observer are followed.  Their clocks, and the games   *)
(* they are in, run independently of each other; digests arrive in any     *)
(* order, in a later game, or not at all.  What the owner's units are, and *)
(* what the observer takes them for, is arbitrary at every audit.          *)
(***************************************************************************)
EXTENDS Integers, Sequences, FiniteSets

CONSTANTS
    UnitBlocks,        \* what a player's units may be: their number and digest
    Period,            \* kAuditPeriodTicks
    SendOffset,        \* 1 + localSlot * 3
    ViewHistory,       \* kViewHistory
    StreakAlarm,       \* kMismatchStreakAlarm
    MaxAuditGame,      \* bound: games played in the process after the first
    MaxAuditTick       \* bound: ticks of each game, at the owner and at the observer

ASSUME AuditAssumption ==
    /\ UnitBlocks # {}
    /\ Period \in Nat \ {0} /\ SendOffset \in 1 .. Period - 1
    /\ ViewHistory \in Nat \ {0} /\ StreakAlarm \in Nat \ {0}
    /\ MaxAuditGame \in Nat
    /\ MaxAuditTick \in [{"owner", "observer"} -> [0 .. MaxAuditGame -> Nat]]

VARIABLES
    auditGame,     \* the game the owner and the observer are in
    ticks,         \* GameTime at either
    lastTickSeen,  \* g_lastTick of the observer
    ownView,       \* the owner's view of its own units, of its last audit
    views,         \* g_localView of the observer for the owner's slot
    cursor,        \* g_viewCursor
    digests,       \* digest packets on the way; one that stays there is lost
    check,         \* g_peerCheck: streak and alarmed
    audits,        \* history: what either found at its audits, up to the observer's next game
    matched        \* history: the digests matched with a view in this game, as they arrived

auditVars ==
    <<auditGame, ticks, lastTickSeen, ownView, views, cursor, digests, check, audits, matched>>

Who == {"owner", "observer"}
NoBlock == CHOOSE b \in UnitBlocks : TRUE

\* No view or packet says which game it is of: game is history.
NoView == [valid |-> FALSE, game |-> 0, tick |-> 0, block |-> NoBlock]
NoViews == [i \in 0 .. ViewHistory - 1 |-> NoView]
Agreeing == [streak |-> 0, alarmed |-> FALSE]

IsAudit(tick) == tick > 0 /\ tick % Period = 0

Audit(who, tick, block) ==
    [who |-> who, game |-> auditGame[who], tick |-> tick, block |-> block]

-----------------------------------------------------------------------------
(* OnGameTick *)

\* At the owner: RunAudit, and BroadcastOwnDigest a few ticks later.
OwnerTick ==
    LET now == ticks["owner"] + 1
    IN  /\ now <= MaxAuditTick["owner"][auditGame["owner"]]
        /\ ticks' = [ticks EXCEPT !["owner"] = now]
        /\ \/ /\ IsAudit(now)
              /\ \E block \in UnitBlocks :
                    /\ ownView' = [valid |-> TRUE, game |-> auditGame["owner"],
                                   tick |-> now, block |-> block]
                    /\ audits' = audits \cup {Audit("owner", now, block)}
           \/ ~IsAudit(now) /\ UNCHANGED <<ownView, audits>>
        /\ digests' = IF ownView.valid /\ now = ownView.tick + SendOffset
                      THEN digests \cup {[game |-> ownView.game, tick |-> ownView.tick,
                                          block |-> ownView.block]}
                      ELSE digests
    /\ UNCHANGED <<auditGame, lastTickSeen, views, cursor, check, matched>>

\* A new game in the same process.
TimeWentBack(now) == now < lastTickSeen

\* Faulty variant: the ring has no end.
AfterSlotUnbounded(slot) == slot + 1

AfterSlot(slot) == (slot + 1) % ViewHistory

\* At the observer: RunAudit for the owner's slot.  The hook may run before the first tick,
\* and runs several times in each.
ObserverTick ==
    \E now \in {ticks["observer"], ticks["observer"] + 1} :
        LET old == IF TimeWentBack(now) THEN NoViews ELSE views
            at  == IF TimeWentBack(now) THEN 0 ELSE cursor
        IN  /\ now <= MaxAuditTick["observer"][auditGame["observer"]]
            /\ ticks' = [ticks EXCEPT !["observer"] = now] /\ lastTickSeen' = now
            /\ check' = IF TimeWentBack(now) THEN Agreeing ELSE check
            /\ \/ /\ IsAudit(now) /\ now # lastTickSeen
                  /\ cursor' = AfterSlot(at)
                  /\ \E block \in UnitBlocks :
                        /\ views' = [old EXCEPT ![at] = [valid |-> TRUE, tick |-> now, block |-> block,
                                                        game |-> auditGame["observer"]]]
                        /\ audits' = audits \cup {Audit("observer", now, block)}
               \/ /\ ~(IsAudit(now) /\ now # lastTickSeen)
                  /\ views' = old /\ cursor' = at /\ UNCHANGED audits
    /\ UNCHANGED <<auditGame, ownView, digests, matched>>

-----------------------------------------------------------------------------
(* HandleIdentityDigest *)

\* Faulty variant: the digest is compared with the latest view.
ViewsOfLatest(tick) ==
    {i \in DOMAIN views : views[i].valid /\ \A j \in DOMAIN views : views[j].tick <= views[i].tick}

\* FindView: there is one at most.
ViewsOf(tick) == {i \in DOMAIN views : views[i].valid /\ views[i].tick = tick}

Alarms(streak) == streak >= StreakAlarm

OnDigest ==
    /\ \E packet \in digests :
        /\ digests' = digests \ {packet}
        /\ \/ ViewsOf(packet.tick) = {} /\ UNCHANGED <<check, matched>>
           \/ \E i \in ViewsOf(packet.tick) :
                /\ check' = IF views[i].block = packet.block THEN Agreeing
                            ELSE [streak |-> check.streak + 1,
                                  alarmed |-> check.alarmed \/ Alarms(check.streak + 1)]
                /\ matched' = Append(matched, [game |-> packet.game, tick |-> packet.tick,
                                               viewOf |-> views[i].game])
    /\ UNCHANGED <<auditGame, ticks, lastTickSeen, ownView, views, cursor, audits>>

-----------------------------------------------------------------------------
(* The next game of the process.  One of the two may be in it before the other, while      *)
(* digests of the last one are on their way.  The owner, too, forgets its views at once.   *)

NextAuditGame(who) ==
    /\ auditGame[who] < MaxAuditGame /\ \A other \in Who : auditGame[who] <= auditGame[other]
    /\ auditGame' = [auditGame EXCEPT ![who] = @ + 1]
    /\ ticks' = [ticks EXCEPT ![who] = 0]
    /\ ownView' = IF who = "owner" THEN NoView ELSE ownView
    /\ IF who = "observer"
       THEN audits' = {a \in audits : a.game > auditGame[who]} /\ matched' = <<>>
       ELSE UNCHANGED <<audits, matched>>
    /\ UNCHANGED <<lastTickSeen, views, cursor, digests, check>>

AuditInit ==
    /\ auditGame = [who \in Who |-> 0]
    /\ ticks = [who \in Who |-> 0] /\ lastTickSeen = -1
    /\ ownView = NoView /\ views = NoViews /\ cursor = 0
    /\ digests = {} /\ check = Agreeing
    /\ audits = {} /\ matched = <<>>

AuditNext ==
    \/ OwnerTick \/ ObserverTick \/ OnDigest
    \/ \E who \in Who : NextAuditGame(who)

AuditSpec == AuditInit /\ [][AuditNext]_auditVars

-----------------------------------------------------------------------------
(* Properties *)

AuditType == [who : Who, game : Nat, tick : Nat, block : UnitBlocks]
ViewType == [valid : BOOLEAN, game : Nat, tick : Nat, block : UnitBlocks]
DigestType == [game : Nat, tick : Nat, block : UnitBlocks]
MatchedType == [game : Nat, tick : Nat, viewOf : Nat]

\* The variables keep their types.
AuditTypeOK ==
    /\ auditGame \in [Who -> 0 .. MaxAuditGame]
    /\ ticks \in [Who -> Nat]
    /\ lastTickSeen \in Nat \cup {-1}
    /\ ownView \in ViewType
    /\ views \in [0 .. ViewHistory - 1 -> ViewType]
    /\ cursor \in 0 .. ViewHistory - 1
    /\ digests \subseteq DigestType
    /\ check \in [streak : Nat, alarmed : BOOLEAN]
    /\ audits \subseteq AuditType
    /\ matched \in Seq(MatchedType)

\* Owner and observer disagreed at this audit.
Differed(game, tick) ==
    \E own, seen \in audits :
        /\ own.who = "owner" /\ own.game = game /\ own.tick = tick
        /\ seen.who = "observer" /\ seen.game = game /\ seen.tick = tick
        /\ own.block # seen.block

\* The last digests the observer could compare, as many as the alarm asks for.
Latest == Len(matched) - StreakAlarm + 1 .. Len(matched)

\* "Compare against OUR snapshot of the same GameTime": while a desync is reported, the last
\* audits that could be matched, one after the other and as many as the alarm asks for, are
\* different ones of this game at which the two did disagree, however far apart the clocks,
\* however late and in whatever order the digests.  Two exceptions follow from the code:
\* an audit whose digest is lost or too late is skipped (see SurvivesAudits), and a digest of
\* another game is taken for one of this game (see OneGameOnly).
DesyncIsReal ==
    check.alarmed /\ ticks["observer"] > 0 =>
        /\ Len(matched) >= StreakAlarm
        /\ \A i \in Latest :
            /\ matched[i].viewOf = auditGame["observer"]
            /\ matched[i].game = matched[i].viewOf => Differed(matched[i].game, matched[i].tick)
            /\ \A j \in Latest : matched[i] = matched[j] => i = j

-----------------------------------------------------------------------------
(* Statements of the source that its code does not keep: see README, Deviations *)

\* "Only one that survives this many consecutive audits ... is a real divergence": the two
\* agreed at no audit between those that the alarm counts.  A digest that is lost hides one.
SurvivesAudits ==
    check.alarmed /\ ticks["observer"] > 0 =>
        \A i, j \in Latest : \A a \in audits :
            /\ matched[i].game = auditGame["observer"] /\ matched[j].game = auditGame["observer"]
            /\ a.who = "owner" /\ a.game = auditGame["observer"]
            /\ matched[i].tick < a.tick /\ a.tick < matched[j].tick
            => Differed(a.game, a.tick)

\* "new game in the same process": an alarm counts digests of this game only.
OneGameOnly ==
    check.alarmed /\ ticks["observer"] > 0 => \A i \in Latest : matched[i].game = auditGame["observer"]
=============================================================================
