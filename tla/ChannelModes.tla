---------------------------- MODULE ChannelModes ----------------------------
(***************************************************************************)
(* Who may do what in one channel: the modes of the channel and of its     *)
(* members (modes.go, modes/modes.go), joining, inviting and kicking       *)
(* (channel.go, handlers.go), and the persistent privileges and ownership  *)
(* that ChanServ keeps for a registered channel (chanserv.go).             *)
(*                                                                         *)
(* A command looks at the channel under its lock, releases the lock, and   *)
(* changes the channel under it later; what it decided in between is in    *)
(* `doing`.  A mask stands for the one client that it matches, the key and *)
(* a ban for whether they are set.                                         *)
(***************************************************************************)
EXTENDS Naturals, FiniteSets

CONSTANTS
  Folk,           \* clients
  Oper,           \* the one of them that is a server operator
  AccountOfFolk,  \* [Folk -> accounts or NoOwner]
  NoOwner,        \* no account, no founder
  ChanListModes,  \* config: length of a mask list
  MaxChannelOps   \* bound: commands

ASSUME ChannelModesAssumption ==
  /\ Oper \in Folk /\ ChanListModes \in Nat /\ MaxChannelOps \in Nat

Owners == {AccountOfFolk[c] : c \in Folk} \ {NoOwner}

\* ChannelUserModes, by rank: none, +v, +h, +o, +a, +q.
Voice == 1
Halfop == 2
ChannelOperator == 3
ChannelAdmin == 4
ChannelFounder == 5
Ranks == Voice..ChannelFounder

VARIABLES
  ch,          \* the channel; created = 0 while there is none
  umodes,      \* [Folk -> set of ranks]: the members' modes
  inside,      \* channel.members
  invitedTo,   \* [Folk -> creation time of the channel it is invited to, or 0]
  doing,       \* what each client's goroutine has decided and not done yet
  channelOps,
  given, used  \* ghosts: invitations to this channel, and joins by invitation

channelVars == <<ch, umodes, inside, invitedTo, doing, channelOps, given, used>>

-----------------------------------------------------------------------------
NoChannel == [created |-> 0, founder |-> NoOwner, pending |-> NoOwner, by |-> NoOwner, lapsed |-> FALSE,
              amode |-> [a \in Owners |-> 0], flags |-> {}, key |-> FALSE, limit |-> 0,
              lists |-> [l \in {"b", "e", "I"} |-> {}]]

Idle == [at |-> "idle"]

ChannelModesInit ==
  /\ ch = NoChannel /\ umodes = [c \in Folk |-> {}] /\ inside = {}
  /\ invitedTo = [c \in Folk |-> 0] /\ doing = [c \in Folk |-> Idle]
  /\ channelOps = 0 /\ given = [c \in Folk |-> 0] /\ used = [c \in Folk |-> 0]

\* A client's command on the channel, which must exist.
Orders(c) ==
  /\ ch.created > 0 /\ doing[c] = Idle /\ channelOps < MaxChannelOps
  /\ channelOps' = channelOps + 1

Decides(c, what) == doing' = [doing EXCEPT ![c] = what]

\* HighestChannelUserMode, of a set of modes
HighestChannelUserMode(modes) == IF modes = {} THEN 0 ELSE CHOOSE m \in modes : \A n \in modes : n <= m

HighestUserMode(c) == IF c \in inside THEN HighestChannelUserMode(umodes[c]) ELSE 0

IsFounder(c) == ch.founder # NoOwner /\ AccountOfFolk[c] = ch.founder

\* What if: an admin has privileges over everybody.
channelUserModeHasPrivsOver_Admin(mine, theirs) ==
  mine >= ChannelOperator \/ (mine = Halfop /\ theirs <= Voice)

\* Admins and operators have privileges over everyone below admin, halfops over
\* those below halfop.
channelUserModeHasPrivsOver(mine, theirs) ==
  \/ mine = ChannelFounder
  \/ mine \in {ChannelAdmin, ChannelOperator} /\ theirs < ChannelAdmin
  \/ mine = Halfop /\ theirs <= Voice

ClientIsAtLeast(c, rank) == IsFounder(c) \/ (c \in inside /\ \E m \in umodes[c] : m >= rank)

\* Only the founder has privileges over the founder, with or without +q.
ClientHasPrivsOver(c, target) ==
  \/ IsFounder(c)
  \/ /\ ~IsFounder(target) /\ {c, target} \subseteq inside
     /\ channelUserModeHasPrivsOver(HighestUserMode(c), HighestUserMode(target))

-----------------------------------------------------------------------------
(* Joining and leaving. *)

Amode(c) == IF AccountOfFolk[c] = NoOwner THEN 0 ELSE ch.amode[AccountOfFolk[c]]

\* What if: an invitation to an earlier channel of that name counts.
CheckInvited_AnyAge(c) == invitedTo[c] # 0

\* The invitation was to this very channel.
CheckInvited(c) == invitedTo[c] # 0 /\ invitedTo[c] = ch.created

\* The restrictions on a join without privileges, except the invitation.
MayJoin(c, hasKey) ==
  /\ ch.limit = 0 \/ Cardinality(inside) < ch.limit
  /\ ch.key => hasKey
  /\ "i" \in ch.flags => Amode(c) # 0 \/ c \in ch.lists["I"]
  /\ c \in ch.lists["b"] => c \in ch.lists["e"] \cup ch.lists["I"]
  /\ AccountOfFolk[c] = NoOwner /\ "R" \in ch.flags => c \in ch.lists["I"]

\* The first half of Join.  To look an invitation up uses it up; it is looked up
\* only if nothing else lets the client in.
joinHandler(c) ==
  /\ c \notin inside /\ doing[c] = Idle /\ channelOps < MaxChannelOps
  /\ channelOps' = channelOps + 1
  /\ ch' = IF ch.created = 0 THEN [NoChannel EXCEPT !.created = channelOps + 1] ELSE ch
  /\ IF ch.created = 0
     THEN /\ given' = [d \in Folk |-> 0] /\ used' = [d \in Folk |-> 0]
          /\ invitedTo' = [invitedTo EXCEPT ![c] = 0]
          /\ Decides(c, [at |-> "join", rank |-> 0])
     ELSE \E hasKey \in BOOLEAN :
            LET exempt  == IsFounder(c) \/ Amode(c) >= Halfop
                invited == ~exempt /\ CheckInvited(c)
            IN /\ invitedTo' = IF exempt THEN invitedTo ELSE [invitedTo EXCEPT ![c] = 0]
               /\ used' = IF invited THEN [used EXCEPT ![c] = @ + 1] ELSE used
               /\ Decides(c, IF exempt \/ invited \/ MayJoin(c, hasKey)
                             THEN [at |-> "join", rank |-> Amode(c)] ELSE Idle)
               /\ UNCHANGED given
  /\ UNCHANGED <<umodes, inside>>

\* SAJOIN: an operator makes a client join whatever the restrictions.
sajoinHandler(c) ==
  /\ Orders(Oper) /\ c \notin inside /\ doing[c] = Idle
  /\ Decides(c, [at |-> "join", rank |-> Amode(c)])
  /\ UNCHANGED <<ch, umodes, inside, invitedTo, given, used>>

\* The second half of Join, under joinPartMutex: the first member of an
\* unregistered channel is its operator, the others have what the channel kept for
\* them when they were let in.
Join(c) ==
  LET rank == IF inside = {} /\ ch.founder = NoOwner THEN ChannelOperator ELSE doing[c].rank
  IN /\ doing[c].at = "join"
     /\ inside' = inside \cup {c}
     /\ umodes' = [umodes EXCEPT ![c] = {rank} \ {0}]
     /\ Decides(c, Idle)
     /\ UNCHANGED <<ch, invitedTo, channelOps, given, used>>

\* Quit: the members leave; Cleanup deletes a channel that is empty, unregistered
\* and that nobody is about to join.
Quit(leaving) ==
  /\ inside' = inside \ leaving
  /\ umodes' = [c \in Folk |-> IF c \in leaving THEN {} ELSE umodes[c]]
  /\ ch' = IF /\ inside \subseteq leaving /\ ch.founder = NoOwner
              /\ \A c \in Folk : doing[c].at # "join"
           THEN NoChannel ELSE ch
  /\ UNCHANGED <<invitedTo, given, used>>

Part(c) ==
  /\ doing[c] = Idle /\ c \in inside /\ Quit({c}) /\ UNCHANGED <<doing, channelOps>>

\* KICK: privileges first ...
kickHandler(c) ==
  /\ Orders(c)
  /\ \E target \in inside :
       ClientHasPrivsOver(c, target) /\ Decides(c, [at |-> "kick", whom |-> {target}])
  /\ UNCHANGED <<ch, umodes, inside, invitedTo, given, used>>

\* ... then the target is told and taken out, if it is still there.
Kick(c) ==
  /\ doing[c].at = "kick"
  /\ Quit(doing[c].whom \cap inside)
  /\ Decides(c, Idle) /\ UNCHANGED channelOps

\* INVITE: a privileged member's invitation overrides every restriction.
Invite(c) ==
  /\ Orders(c) /\ c \in inside /\ ClientIsAtLeast(c, ChannelOperator)
  /\ \E target \in Folk \ inside : Decides(c, [at |-> "invite", whom |-> target, to |-> ch.created])
  /\ UNCHANGED <<ch, umodes, inside, invitedTo, given, used>>

\* client.Invite: it is noted with the client, with the channel's time of creation.
InviteClient(c) ==
  /\ doing[c].at = "invite"
  /\ invitedTo' = [invitedTo EXCEPT ![doing[c].whom] = doing[c].to]
  /\ given' = IF doing[c].to = ch.created THEN [given EXCEPT ![doing[c].whom] = @ + 1] ELSE given
  /\ Decides(c, Idle)
  /\ UNCHANGED <<ch, umodes, inside, channelOps, used>>

Uninvite(c) ==
  /\ Orders(c) /\ "i" \in ch.flags /\ ClientIsAtLeast(c, ChannelOperator)
  /\ \E target \in Folk : invitedTo' = [invitedTo EXCEPT ![target] = 0]
  /\ UNCHANGED <<ch, umodes, inside, doing, given, used>>

-----------------------------------------------------------------------------
(* Modes. *)

\* The changes that ParseChannelModeChanges can make of a MODE command.
MemberChanges == [kind : {"member"}, rank : Ranks, add : BOOLEAN, whom : Folk]
ListChanges   == [kind : {"list"}, list : {"b", "e", "I"}, add : BOOLEAN, whom : Folk]
FlagChanges   == [kind : {"flag"}, flag : {"i", "R"}, add : BOOLEAN]
ArgChanges    == [kind : {"key", "limit"}, add : BOOLEAN]

ParseChannelModeChanges == MemberChanges \cup ListChanges \cup FlagChanges \cup ArgChanges

\* hasPrivs: everybody may take modes from himself.
HasPrivs(c, change) ==
  \/ IsFounder(c)
  \/ /\ change.kind = "member"
     /\ \/ ~change.add /\ change.whom = c
        \/ channelUserModeHasPrivsOver(HighestUserMode(c), change.rank)
  \/ change.kind # "member" /\ ClientIsAtLeast(c, ChannelOperator)

\* SetMode on a member's modes; a client that is not a member has none.
applyModeToMember(change) ==
  umodes' = [umodes EXCEPT ![change.whom] =
               IF change.whom \notin inside THEN @
               ELSE IF change.add THEN @ \cup {change.rank} ELSE @ \ {change.rank}]

\* UserMaskSet: Add, which the limit refuses unless an operator overrides it, and
\* Remove.
ChangeList(change, samode) ==
  [ch EXCEPT !.lists[change.list] =
     IF ~change.add THEN @ \ {change.whom}
     ELSE IF Cardinality(@) < ChanListModes \/ samode THEN @ \cup {change.whom} ELSE @]

ChangeFlags(change) ==
  CASE change.kind = "flag"  -> [ch EXCEPT !.flags = IF change.add THEN @ \cup {change.flag} ELSE @ \ {change.flag}]
    [] change.kind = "key"   -> [ch EXCEPT !.key = change.add]
    [] change.kind = "limit" -> [ch EXCEPT !.limit = IF change.add THEN 1 ELSE 0]

\* MODE and SAMODE: privileges first.
cmodeHandler(c) ==
  /\ Orders(c)
  /\ \E change \in ParseChannelModeChanges, samode \in BOOLEAN :
       /\ IF samode THEN c = Oper ELSE HasPrivs(c, change)
       /\ Decides(c, [at |-> "mode", change |-> change, samode |-> samode])
  /\ UNCHANGED <<ch, umodes, inside, invitedTo, given, used>>

\* Then the change, if the channel is still there.
ApplyChannelModeChanges(c) ==
  LET change == doing[c].change
  IN /\ doing[c].at = "mode" /\ Decides(c, Idle)
     /\ CASE change.kind = "member" -> applyModeToMember(change) /\ UNCHANGED ch
          [] change.kind = "list"   -> ch' = ChangeList(change, doing[c].samode) /\ UNCHANGED umodes
          [] OTHER                  -> ch' = ChangeFlags(change) /\ UNCHANGED umodes
     /\ UNCHANGED <<inside, invitedTo, channelOps, given, used>>

-----------------------------------------------------------------------------
(* ChanServ. *)

\* What the caller of ProcessAccountToUmodeChange may do to an account's entry.
MayAmode(c, a, rank, add) ==
  \/ c = Oper \/ IsFounder(c)
  \/ /\ channelUserModeHasPrivsOver(Amode(c), ch.amode[a])
     /\ channelUserModeHasPrivsOver(Amode(c), IF add THEN rank ELSE 0)
  \/ ~add /\ AccountOfFolk[c] = a

\* CS AMODE: the entry, under the channel's lock ...
csAmodeHandler(c) ==
  /\ Orders(c) /\ ch.founder # NoOwner
  /\ \E a \in Owners, rank \in Ranks, add \in BOOLEAN :
       /\ MayAmode(c, a, rank, add)
       /\ IF add THEN ch.amode[a] # rank ELSE ch.amode[a] = rank
       /\ ch' = [ch EXCEPT !.amode[a] = IF add THEN rank ELSE 0]
       /\ Decides(c, [at |-> "amode", a |-> a, rank |-> rank, add |-> add])
  /\ UNCHANGED <<umodes, inside, invitedTo, given, used>>

\* ... and afterwards the members that are logged into the account.
AmodeMembers(c) ==
  LET d == doing[c]
  IN /\ d.at = "amode" /\ Decides(c, Idle)
     /\ umodes' = [m \in Folk |-> IF m \in inside /\ AccountOfFolk[m] = d.a
                                  THEN (IF d.add THEN umodes[m] \cup {d.rank} ELSE umodes[m] \ {d.rank})
                                  ELSE umodes[m]]
     /\ UNCHANGED <<ch, inside, invitedTo, channelOps, given, used>>

\* CS OP: oneself, by what is kept for one's account; others, by the founder.
csOpHandler(c) ==
  /\ Orders(c) /\ AccountOfFolk[c] # NoOwner
  /\ \E target \in Folk :
       LET rank == IF target = c THEN (IF IsFounder(c) THEN ChannelFounder ELSE Amode(c))
                   ELSE IF IsFounder(c) THEN ChannelOperator ELSE 0
       IN /\ rank # 0
          /\ Decides(c, [at |-> "mode", samode |-> FALSE,
                         change |-> [kind |-> "member", rank |-> rank, add |-> TRUE, whom |-> target]])
  /\ UNCHANGED <<ch, umodes, inside, invitedTo, given, used>>

\* CS DEOP: each of the target's modes that the client may take.
csDeopHandler(c) ==
  /\ Orders(c) /\ c \in inside
  /\ \E target \in inside :
       /\ umodes[target] # {}
       /\ umodes' = [umodes EXCEPT ![target] =
            {m \in @ : ~HasPrivs(c, [kind |-> "member", rank |-> m, add |-> FALSE, whom |-> target])}]
  /\ UNCHANGED <<ch, inside, invitedTo, doing, given, used>>

\* CS REGISTER: SetRegistered lets exactly one through; founder status follows.
csRegisterHandler(c) ==
  /\ Orders(c) /\ ClientIsAtLeast(c, ChannelOperator)
  /\ ch.founder = NoOwner /\ AccountOfFolk[c] # NoOwner
  /\ ch' = [ch EXCEPT !.founder = AccountOfFolk[c], !.amode[AccountOfFolk[c]] = ChannelFounder]
  /\ Decides(c, [at |-> "mode", samode |-> FALSE,
                 change |-> [kind |-> "member", rank |-> ChannelFounder, add |-> TRUE, whom |-> c]])
  /\ UNCHANGED <<umodes, inside, invitedTo, given, used>>

csPrivsCheck(c) == ch.founder # NoOwner /\ (c = Oper \/ IsFounder(c))

\* CS UNREGISTER: SetUnregistered forgets the founder and the access list, of the
\* founder that the command has seen.  An offered transfer it does not forget.
csUnregisterHandler(c) ==
  /\ Orders(c) /\ csPrivsCheck(c)
  /\ ch' = IF inside = {} /\ \A d \in Folk : doing[d].at # "join" THEN NoChannel
           ELSE [ch EXCEPT !.founder = NoOwner, !.amode = [a \in Owners |-> 0], !.lapsed = @ \/ ch.pending # NoOwner]
  /\ UNCHANGED <<umodes, inside, invitedTo, doing, given, used>>

\* CS CLEAR: privileges first; the members are read at once.
csClearHandler(c) ==
  /\ Orders(c) /\ csPrivsCheck(c)
  /\ \/ Decides(c, [at |-> "kick", whom |-> inside \ {c}])
     \/ Decides(c, [at |-> "clear"])
  /\ UNCHANGED <<ch, umodes, inside, invitedTo, given, used>>

resetAccess(c) ==
  /\ doing[c].at = "clear" /\ Decides(c, Idle)
  /\ ch' = [ch EXCEPT !.lists = NoChannel.lists,
                      !.amode = [a \in Owners |-> IF a = ch.founder THEN ChannelFounder ELSE 0]]
  /\ UNCHANGED <<umodes, inside, invitedTo, channelOps, given, used>>

transferOwnership(a) ==
  [ch EXCEPT !.founder = a, !.pending = NoOwner, !.by = NoOwner, !.lapsed = FALSE,
             !.amode = [b \in Owners |-> IF b = a THEN ChannelFounder
                                         ELSE IF b = ch.founder THEN 0 ELSE ch.amode[b]]]

\* CS TRANSFER: privileges first ...
csTransferHandler(c) ==
  /\ Orders(c) /\ csPrivsCheck(c)
  /\ \E a \in Owners : Decides(c, [at |-> "transfer", to |-> a])
  /\ UNCHANGED <<ch, umodes, inside, invitedTo, given, used>>

\* ... then, of a channel that is registered, an operator's transfer is done and the
\* founder's is an offer; an offer to the founder withdraws it.
Transfer(c) ==
  LET a == doing[c].to
  IN /\ doing[c].at = "transfer" /\ Decides(c, Idle)
     /\ ch' = IF ch.founder = NoOwner THEN ch
              ELSE IF c = Oper THEN transferOwnership(a)
              ELSE IF a = ch.founder THEN [ch EXCEPT !.pending = NoOwner, !.by = NoOwner, !.lapsed = FALSE]
              ELSE [ch EXCEPT !.pending = a, !.by = AccountOfFolk[c], !.lapsed = ~IsFounder(c)]
     /\ UNCHANGED <<umodes, inside, invitedTo, channelOps, given, used>>

\* CS TRANSFER ACCEPT.
processTransferAccept(c) ==
  /\ Orders(c) /\ ch.pending # NoOwner /\ AccountOfFolk[c] = ch.pending
  /\ ch' = transferOwnership(ch.pending)
  /\ UNCHANGED <<umodes, inside, invitedTo, doing, given, used>>

-----------------------------------------------------------------------------
ChannelModesNext == \E c \in Folk :
  \/ joinHandler(c) \/ sajoinHandler(c) \/ Join(c) \/ Part(c) \/ kickHandler(c) \/ Kick(c)
  \/ Invite(c) \/ InviteClient(c) \/ Uninvite(c)
  \/ cmodeHandler(c) \/ ApplyChannelModeChanges(c)
  \/ csAmodeHandler(c) \/ AmodeMembers(c) \/ csOpHandler(c) \/ csDeopHandler(c)
  \/ csRegisterHandler(c) \/ csUnregisterHandler(c) \/ csClearHandler(c) \/ resetAccess(c)
  \/ csTransferHandler(c) \/ Transfer(c) \/ processTransferAccept(c)

ChannelModesSpec == ChannelModesInit /\ [][ChannelModesNext]_channelVars

-----------------------------------------------------------------------------
(* Properties. *)

\* "Joining an invited channel uses up your invite, so you can't rejoin on kick":
\* nobody has entered this channel by invitation more often than a privileged member
\* of this channel has invited it; an invitation to an earlier channel of the same
\* name, to an empty one that was deleted or before a kick, is worth nothing.
InvitesSuffice == \A c \in Folk : used[c] <= given[c]

\* The founder of a registered channel is replaced only by an operator or by the
\* account to which it has offered the channel, with its registration; and while it
\* is the founder, its +q entry is taken only by an operator or by one who has +q
\* too, whatever the admins and operators of the channel do.  Left out (`lapsed`) is an offer that
\* SetUnregistered did not clear, or that Transfer noted after the founder that the
\* handler had seen was replaced.
FounderIsKept ==
  /\ ch.founder # NoOwner /\ ch'.founder \notin {NoOwner, ch.founder}
       => \/ doing[Oper].at = "transfer" /\ ch'.founder = doing[Oper].to
          \/ ch'.founder = ch.pending /\ (ch.by = ch.founder \/ ch.lapsed)
  /\ ch.founder # NoOwner /\ ch'.founder = ch.founder
     /\ ch.amode[ch.founder] = ChannelFounder /\ ch'.amode[ch.founder] # ChannelFounder
       => \E c \in Folk : csAmodeHandler(c) /\ (c = Oper \/ Amode(c) = ChannelFounder)

\* No step takes the channel from its founder otherwise.
FounderKeepsChannel == [][FounderIsKept]_channelVars

=============================================================================
