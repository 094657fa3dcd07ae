----------------------------- MODULE AccessProofs -----------------------------
(***************************************************************************)
(* Theorems about who gets in, how fast and how it is answered:           *)
(* ChannelModes, for any clients, accounts, length of the mask lists and   *)
(* number of commands, Handshake, for any number of lines, conversations   *)
(* and rehashes, and Messages, fakelag and the labels and batches of what  *)
(* is sent, for any limits and any number of commands.                     *)
(***************************************************************************)
EXTENDS ChannelModes, Handshake, Messages, FiniteSetTheorems, TLAPS

-----------------------------------------------------------------------------
(* ChannelModes *)

Accs == Owners \cup {NoOwner}

Channels ==
  [created : Nat, founder : Accs, pending : Accs, by : Accs, lapsed : BOOLEAN,
   amode : [Owners -> 0..ChannelFounder], flags : SUBSET {"i", "R"}, key : BOOLEAN, limit : {0, 1},
   lists : [{"b", "e", "I"} -> SUBSET Folk]]

(* What a goroutine may be about to do after `ops` commands.               *)
TaskType(d, ops) ==
  /\ d.at \in {"idle", "join", "kick", "invite", "mode", "amode", "clear", "transfer"}
  /\ d.at = "join" => d.rank \in 0..ChannelFounder
  /\ d.at = "kick" => d.whom \subseteq Folk
  /\ d.at = "invite" => d.whom \in Folk /\ d.to \in 1..ops
  /\ d.at = "mode" => d.change \in ParseChannelModeChanges
  /\ d.at = "amode" => d.a \in Owners /\ d.rank \in Ranks /\ d.add \in BOOLEAN
  /\ d.at = "transfer" => d.to \in Owners

ModesType ==
  /\ ch \in Channels /\ ch.created <= channelOps
  /\ umodes \in [Folk -> SUBSET Ranks] /\ inside \subseteq Folk
  /\ invitedTo \in [Folk -> Nat] /\ \A c \in Folk : invitedTo[c] <= channelOps
  /\ doing = [c \in Folk |-> doing[c]] /\ \A c \in Folk : TaskType(doing[c], channelOps)
  /\ channelOps \in Nat /\ given \in [Folk -> Nat] /\ used \in [Folk -> Nat]

(* Whoever holds an invitation to the present channel has one that it has  *)
(* not used.  No invitation is to a channel of the future, whose creation  *)
(* time is that of a later command.                                        *)
InviteInv == \A c \in Folk :
  used[c] <= given[c] /\ (CheckInvited(c) => used[c] < given[c])

(* An offer of the channel is the present founder's, or has lapsed.        *)
OfferInv == ch.pending # NoOwner => (ch.founder # NoOwner /\ ch.by = ch.founder) \/ ch.lapsed

ModesInv == ModesType /\ InviteInv /\ OfferInv

Ranked == 0..ChannelFounder

(* The fields of the channel that its ownership is decided by.             *)
SameOwner(r) ==
  /\ r \in Channels /\ r.created = ch.created /\ r.founder = ch.founder /\ r.pending = ch.pending
  /\ r.by = ch.by /\ r.lapsed = ch.lapsed

-----------------------------------------------------------------------------
(* The ranks as numbers.                                                   *)
LEMMA Numbers ==
  /\ Ranks = 1..5 /\ Ranked = {0, 1, 2, 3, 4, 5} /\ ChannelFounder = 5 /\ ChannelOperator = 3 /\ ChannelAdmin = 4
  /\ Halfop = 2 /\ Voice = 1
BY DEF Ranks, Ranked, ChannelFounder, ChannelOperator, ChannelAdmin, Halfop, Voice

(* A client's account is an account.                                       *)
LEMMA AccountsOfFolk == \A c \in Folk : AccountOfFolk[c] # NoOwner => AccountOfFolk[c] \in Owners
BY DEF Owners

(* The values of a channel that does not exist.                            *)
LEMMA NoChannelType == /\ NoChannel \in Channels /\ NoChannel.created = 0 /\ NoChannel.founder = NoOwner
                       /\ NoChannel.pending = NoOwner
<1>1. [a \in Owners |-> 0] \in [Owners -> 0..ChannelFounder]
  BY Numbers
<1>2. [l \in {"b", "e", "I"} |-> {}] \in [{"b", "e", "I"} -> SUBSET Folk]
  OBVIOUS
<1> QED BY <1>1, <1>2 DEF NoChannel, Channels, Accs

(* What the handlers make of the channel.                                  *)
LEMMA AmodeIsRank ==
  ASSUME ModesType, NEW c \in Folk PROVE Amode(c) \in Ranked
BY AccountsOfFolk, Numbers DEF Amode, ModesType, Channels, Ranked

(* A mode change leaves the owner alone.                                   *)
LEMMA ModeChange ==
  ASSUME ModesType, NEW c \in Folk, ApplyChannelModeChanges(c) PROVE SameOwner(ch')
<1> DEFINE change == doing[c].change
<1>1. change \in ParseChannelModeChanges /\ ch \in Channels
  BY DEF ModesType, TaskType, ApplyChannelModeChanges
<1>2. CASE change.kind = "member"
  BY <1>1, <1>2 DEF ApplyChannelModeChanges, SameOwner
<1>3. CASE change.kind = "list"
  <2>1. change.list \in {"b", "e", "I"} /\ change.whom \in Folk
    BY <1>1, <1>3 DEF ParseChannelModeChanges, ListChanges, MemberChanges, FlagChanges, ArgChanges
  <2>2. PICK s \in SUBSET Folk : ch' = [ch EXCEPT !.lists[change.list] = s]
    BY <1>1, <1>3, <2>1 DEF ApplyChannelModeChanges, ChangeList, Channels
  <2>3. ch' = [ch EXCEPT !.lists = [ch.lists EXCEPT ![change.list] = s]]
    BY <1>1, <2>2 DEF Channels
  <2>4. [ch.lists EXCEPT ![change.list] = s] \in [{"b", "e", "I"} -> SUBSET Folk]
    BY <1>1, <2>1 DEF Channels
  <2> QED BY <1>1, <2>3, <2>4 DEF Channels, SameOwner
<1>4. CASE change.kind \in {"flag", "key", "limit"}
  <2>1. change.add \in BOOLEAN /\ (change.kind = "flag" => change.flag \in {"i", "R"})
    BY <1>1, <1>4 DEF ParseChannelModeChanges, ListChanges, MemberChanges, FlagChanges, ArgChanges
  <2>2. ch' = ChangeFlags(change)
    BY <1>4 DEF ApplyChannelModeChanges
  <2>3. CASE change.kind = "flag"
    <3>1. PICK f \in SUBSET {"i", "R"} : ch' = [ch EXCEPT !.flags = f]
      BY <1>1, <2>1, <2>2, <2>3 DEF ChangeFlags, Channels
    <3> QED BY <1>1, <3>1 DEF Channels, SameOwner
  <2>4. CASE change.kind = "key"
    BY <1>1, <2>1, <2>2, <2>4 DEF ChangeFlags, Channels, SameOwner
  <2>5. CASE change.kind = "limit"
    <3>1. PICK n \in {0, 1} : ch' = [ch EXCEPT !.limit = n]
      BY <2>2, <2>5 DEF ChangeFlags
    <3> QED BY <1>1, <3>1 DEF Channels, SameOwner
  <2> QED BY <1>4, <2>3, <2>4, <2>5
<1> QED BY <1>1, <1>2, <1>3, <1>4 DEF ParseChannelModeChanges, ListChanges, MemberChanges, FlagChanges, ArgChanges

(* So does a change of the access list.                                    *)
LEMMA AccessChange ==
  ASSUME ModesType, NEW m \in [Owners -> Ranked] PROVE SameOwner([ch EXCEPT !.amode = m])
BY DEF ModesType, Channels, SameOwner, Ranked

(* A transfer of the channel.                                              *)
LEMMA Transferred ==
  ASSUME ModesType, NEW a \in Owners, NEW r, r = transferOwnership(a)
  PROVE  /\ r \in Channels /\ r.created = ch.created /\ r.founder = a /\ r.pending = NoOwner
         /\ r.amode[a] = ChannelFounder
<1> DEFINE m == [b \in Owners |-> IF b = a THEN ChannelFounder ELSE IF b = ch.founder THEN 0 ELSE ch.amode[b]]
<1>1. m \in [Owners -> 0..ChannelFounder] /\ m[a] = ChannelFounder
  BY Numbers DEF ModesType, Channels, Ranked
<1>2. r = [ch EXCEPT !.founder = a, !.pending = NoOwner, !.by = NoOwner, !.lapsed = FALSE, !.amode = m]
  BY DEF transferOwnership
<1> HIDE DEF m
<1> QED BY <1>1, <1>2 DEF ModesType, Channels, Accs

-----------------------------------------------------------------------------
(* What a step does to the channel: it stays, or it is gone; its offers    *)
(* are its founder's; and its founder stays.                               *)
Lasts == ch'.created = ch.created
Gone == ch' = NoChannel

Effect ==
  /\ ch' \in Channels /\ OfferInv' /\ FounderIsKept
  /\ (Lasts /\ UNCHANGED <<given, used, invitedTo>>) \/ (Gone /\ UNCHANGED <<given, used, invitedTo>>)

(* The channel keeps its owner.                                            *)
LEMMA SameOwnerEffect ==
  ASSUME ModesType, OfferInv, SameOwner(ch'), UNCHANGED <<given, used, invitedTo>>,
         ch.founder # NoOwner /\ ch.amode[ch.founder] = ChannelFounder => ch'.amode[ch.founder] = ChannelFounder
  PROVE  Effect
BY DEF SameOwner, OfferInv, FounderIsKept, Effect, Lasts

(* The channel ceases to exist.                                            *)
LEMMA GoneEffect ==
  ASSUME ModesType, ch' = NoChannel, UNCHANGED <<given, used, invitedTo>> PROVE Effect
BY NoChannelType DEF OfferInv, FounderIsKept, Effect, Gone

(* The steps that change the channel.                                      *)
LEMMA ChannelEffect ==
  ASSUME ModesType, OfferInv, NEW c \in Folk,
         \/ Part(c) \/ Kick(c) \/ ApplyChannelModeChanges(c) \/ csAmodeHandler(c) \/ csRegisterHandler(c)
         \/ csUnregisterHandler(c) \/ resetAccess(c) \/ Transfer(c) \/ processTransferAccept(c)
  PROVE  Effect
<1> USE DEF ModesType
<1>1. ch \in Channels /\ SameOwner(ch)
  BY DEF SameOwner
<1>2. CASE Part(c) \/ Kick(c)
  <2>1. (ch' = NoChannel \/ ch' = ch) /\ UNCHANGED <<given, used, invitedTo>>
    BY <1>2 DEF Part, Kick, Quit
  <2>2. CASE ch' = ch
    BY <1>1, <2>1, <2>2, SameOwnerEffect
  <2> QED BY <2>1, <2>2, GoneEffect
<1>3. CASE ApplyChannelModeChanges(c)
  <2>1. SameOwner(ch') /\ UNCHANGED <<given, used, invitedTo>>
    BY <1>3, ModeChange DEF ApplyChannelModeChanges
  <2>2. ch'.amode = ch.amode
    <3> DEFINE change == doing[c].change
    <3>1. change \in ParseChannelModeChanges
      BY <1>3 DEF TaskType, ApplyChannelModeChanges
    <3>2. change.kind \in {"member", "list", "flag", "key", "limit"}
      BY <3>1 DEF ParseChannelModeChanges, ListChanges, MemberChanges, FlagChanges, ArgChanges
    <3>3. CASE change.kind = "member"
      BY <1>3, <3>3 DEF ApplyChannelModeChanges
    <3>4. CASE change.kind = "list"
      BY <1>1, <1>3, <3>4 DEF ApplyChannelModeChanges, ChangeList, Channels
    <3>5. CASE change.kind \in {"flag", "key", "limit"}
      <4>1. ch' = ChangeFlags(change)
        BY <1>3, <3>5 DEF ApplyChannelModeChanges
      <4> QED BY <1>1, <3>5, <4>1 DEF ChangeFlags, Channels
    <3> QED BY <3>2, <3>3, <3>4, <3>5
  <2> QED BY <2>1, <2>2, SameOwnerEffect
<1>4. CASE csAmodeHandler(c)
  <2>1. PICK a \in Owners, rank \in Ranks, add \in BOOLEAN :
          MayAmode(c, a, rank, add) /\ ch' = [ch EXCEPT !.amode[a] = IF add THEN rank ELSE 0]
    BY <1>4 DEF csAmodeHandler
  <2> DEFINE m == [ch.amode EXCEPT ![a] = IF add THEN rank ELSE 0]
  <2>2. m \in [Owners -> Ranked] /\ ch' = [ch EXCEPT !.amode = m]
    BY <1>1, <2>1, Numbers DEF Channels, Ranked
  <2>3. SameOwner(ch') /\ ch'.amode = m /\ UNCHANGED <<given, used, invitedTo>>
    BY <1>1, <1>4, <2>2, AccessChange DEF csAmodeHandler, Channels
  <2>4. CASE a # ch.founder
    <3>1. ch.founder # NoOwner => ch'.amode[ch.founder] = ch.amode[ch.founder]
      BY <1>1, <2>3, <2>4 DEF Channels, Accs
    <3> QED BY <2>3, <3>1, SameOwnerEffect
  <2>5. CASE a = ch.founder
    <3>1. ASSUME ch.amode[a] = ChannelFounder PROVE c = Oper \/ Amode(c) = ChannelFounder
      <4>1. a # NoOwner
        BY DEF Owners
      <4>2. ~channelUserModeHasPrivsOver(Amode(c), ch.amode[a]) \/ Amode(c) = ChannelFounder
        BY <3>1, Numbers DEF channelUserModeHasPrivsOver
      <4> QED BY <2>1, <2>5, <3>1, <4>1, <4>2 DEF MayAmode, IsFounder, Amode
    <3>2. FounderIsKept
      BY <1>4, <2>3, <2>5, <3>1 DEF FounderIsKept, SameOwner
    <3> QED BY <2>3, <3>2 DEF SameOwner, OfferInv, Effect, Lasts
  <2> QED BY <2>4, <2>5
<1>5. CASE csRegisterHandler(c)
  <2> DEFINE a == AccountOfFolk[c]
             m == [ch.amode EXCEPT ![a] = ChannelFounder]
  <2>1. a \in Owners /\ ch.founder = NoOwner /\ UNCHANGED <<given, used, invitedTo>>
    BY <1>5, AccountsOfFolk DEF csRegisterHandler
  <2>2. m \in [Owners -> 0..ChannelFounder] /\ ch' = [ch EXCEPT !.founder = a, !.amode = m]
    BY <1>1, <1>5, <2>1, Numbers DEF csRegisterHandler, Channels, Ranked
  <2>3. /\ ch' \in Channels /\ ch'.created = ch.created /\ ch'.pending = ch.pending /\ ch'.by = ch.by
        /\ ch'.lapsed = ch.lapsed /\ ch'.founder = a
    BY <1>1, <2>1, <2>2 DEF Channels, Accs
  <2> QED BY <2>1, <2>3 DEF OfferInv, FounderIsKept, Effect, Lasts
<1>6. CASE csUnregisterHandler(c)
  <2>1. UNCHANGED <<given, used, invitedTo>>
    BY <1>6 DEF csUnregisterHandler
  <2>2. CASE ch' = NoChannel
    BY <2>1, <2>2, GoneEffect
  <2>3. CASE ch' # NoChannel
    <3> DEFINE m == [a \in Owners |-> 0]
    <3>1. m \in [Owners -> 0..ChannelFounder]
      BY Numbers DEF Ranked
    <3>2. ch' = [ch EXCEPT !.founder = NoOwner, !.amode = m, !.lapsed = ch.lapsed \/ ch.pending # NoOwner]
      BY <1>6, <2>3 DEF csUnregisterHandler
    <3> HIDE DEF m
    <3>3. /\ ch' \in Channels /\ ch'.created = ch.created /\ ch'.pending = ch.pending /\ ch'.founder = NoOwner
          /\ ch'.lapsed = (ch.lapsed \/ ch.pending # NoOwner)
      BY <1>1, <3>1, <3>2 DEF Channels, Accs
    <3> QED BY <2>1, <3>3 DEF OfferInv, FounderIsKept, Effect, Lasts
  <2> QED BY <2>2, <2>3
<1>7. CASE resetAccess(c)
  <2> DEFINE m == [a \in Owners |-> IF a = ch.founder THEN ChannelFounder ELSE 0]
             l == NoChannel.lists
  <2>1. m \in [Owners -> 0..ChannelFounder] /\ (ch.founder # NoOwner => m[ch.founder] = ChannelFounder)
    BY <1>1, Numbers DEF Ranked, Channels, Accs
  <2>2. l \in [{"b", "e", "I"} -> SUBSET Folk]
    BY NoChannelType DEF Channels
  <2>3. ch' = [ch EXCEPT !.lists = l, !.amode = m] /\ UNCHANGED <<given, used, invitedTo>>
    BY <1>7 DEF resetAccess
  <2> HIDE DEF m, l
  <2>4. SameOwner(ch') /\ ch'.amode = m
    BY <1>1, <2>1, <2>2, <2>3 DEF SameOwner, Channels
  <2> QED BY <2>1, <2>3, <2>4, SameOwnerEffect
<1>8. CASE Transfer(c)
  <2>1. doing[c].to \in Owners /\ doing[c].at = "transfer" /\ UNCHANGED <<given, used, invitedTo>>
    BY <1>8 DEF Transfer, TaskType
  <2>2. PICK a \in Owners : a = doing[c].to
    BY <2>1
  <2>3. CASE ch.founder = NoOwner
    BY <1>1, <1>8, <2>1, <2>3, SameOwnerEffect DEF Transfer
  <2>4. CASE ch.founder # NoOwner /\ c = Oper
    <3>1. ch' = transferOwnership(a)
      BY <1>8, <2>2, <2>4 DEF Transfer
    <3>2. /\ ch' \in Channels /\ ch'.created = ch.created /\ ch'.founder = a /\ ch'.pending = NoOwner
          /\ ch'.amode[a] = ChannelFounder
      BY <3>1, Transferred
    <3> QED BY <2>1, <2>2, <2>4, <3>2 DEF OfferInv, FounderIsKept, Effect, Lasts
  <2>5. CASE ch.founder # NoOwner /\ c # Oper /\ a = ch.founder
    <3>1. ch' = [ch EXCEPT !.pending = NoOwner, !.by = NoOwner, !.lapsed = FALSE]
      BY <1>8, <2>2, <2>5 DEF Transfer
    <3>2. /\ ch' \in Channels /\ ch'.created = ch.created /\ ch'.founder = ch.founder /\ ch'.pending = NoOwner
          /\ ch'.amode = ch.amode
      BY <1>1, <3>1 DEF Channels, Accs
    <3> QED BY <2>1, <3>2 DEF OfferInv, FounderIsKept, Effect, Lasts
  <2>6. CASE ch.founder # NoOwner /\ c # Oper /\ a # ch.founder
    <3>1. ch' = [ch EXCEPT !.pending = a, !.by = AccountOfFolk[c], !.lapsed = ~IsFounder(c)]
      BY <1>8, <2>2, <2>6 DEF Transfer
    <3>2. PICK b \in Accs, l \in BOOLEAN : b = AccountOfFolk[c] /\ l = ~IsFounder(c)
      BY AccountsOfFolk DEF Accs, IsFounder
    <3>3. /\ ch' \in Channels /\ ch'.created = ch.created /\ ch'.founder = ch.founder
          /\ ch'.amode = ch.amode /\ ch'.by = b /\ ch'.lapsed = l
      BY <1>1, <3>1, <3>2 DEF Channels, Accs
    <3>4. OfferInv'
      BY <2>6, <3>2, <3>3 DEF OfferInv, IsFounder
    <3> QED BY <2>1, <3>3, <3>4 DEF FounderIsKept, Effect, Lasts
  <2> QED BY <2>3, <2>4, <2>5, <2>6
<1>9. CASE processTransferAccept(c)
  <2>1. PICK a \in Owners : a = ch.pending
    BY <1>1, <1>9 DEF processTransferAccept, Channels, Accs
  <2>2. ch' = transferOwnership(a) /\ UNCHANGED <<given, used, invitedTo>>
    BY <1>9, <2>1 DEF processTransferAccept
  <2>3. /\ ch' \in Channels /\ ch'.created = ch.created /\ ch'.founder = a /\ ch'.pending = NoOwner
        /\ ch'.amode[a] = ChannelFounder /\ a # NoOwner
    BY <2>2, Transferred DEF Owners
  <2> QED BY <2>1, <2>2, <2>3 DEF OfferInv, FounderIsKept, Effect, Lasts
<1> QED BY <1>2, <1>3, <1>4, <1>5, <1>6, <1>7, <1>8, <1>9

(* The invitations to a channel that lasts stay unused; one that is gone   *)
(* has none.                                                               *)
LEMMA InvitesKept ==
  ASSUME ModesType, InviteInv, UNCHANGED <<given, used, invitedTo>>, Lasts \/ Gone PROVE InviteInv'
BY NoChannelType DEF ModesType, InviteInv, CheckInvited, Lasts, Gone

(* A goroutine has something else to do, or nothing.                       *)
LEMMA TaskKeeps ==
  ASSUME ModesType, channelOps' \in {channelOps, channelOps + 1},
         doing' = doing \/ \E c \in Folk : \E d : doing' = [doing EXCEPT ![c] = d] /\ TaskType(d, channelOps')
  PROVE  doing' = [c \in Folk |-> doing'[c]] /\ \A c \in Folk : TaskType(doing'[c], channelOps')
<1>1. ASSUME NEW d, TaskType(d, channelOps) PROVE TaskType(d, channelOps')
  BY <1>1 DEF TaskType, ModesType
<1>2. CASE doing' = doing
  BY <1>1, <1>2 DEF ModesType
<1>3. ASSUME NEW c \in Folk, NEW d, doing' = [doing EXCEPT ![c] = d], TaskType(d, channelOps')
      PROVE  doing' = [b \in Folk |-> doing'[b]] /\ \A b \in Folk : TaskType(doing'[b], channelOps')
  <2>1. \A b \in Folk : doing'[b] = IF b = c THEN d ELSE doing[b]
    BY <1>3 DEF ModesType
  <2>2. \A b \in Folk : TaskType(doing'[b], channelOps')
    BY <1>1, <1>3, <2>1 DEF ModesType
  <2>3. doing' = [b \in Folk |-> doing'[b]]
    BY <1>3 DEF ModesType
  <2> QED BY <2>2, <2>3
<1> QED BY <1>2, <1>3

(* A goroutine without a task owes nothing.                                *)
LEMMA IdleTask == \A n : TaskType(Idle, n)
BY DEF TaskType, Idle

(* The steps that leave the channel as it is.                              *)
LEMMA SameChannel ==
  ASSUME ModesInv, NEW c \in Folk,
         \/ sajoinHandler(c) \/ Join(c) \/ kickHandler(c) \/ Invite(c) \/ InviteClient(c) \/ Uninvite(c)
         \/ cmodeHandler(c) \/ AmodeMembers(c) \/ csOpHandler(c) \/ csDeopHandler(c)
         \/ csClearHandler(c) \/ csTransferHandler(c)
  PROVE  ch' = ch /\ OfferInv' /\ FounderIsKept
<1>1. ch' = ch
  BY DEF sajoinHandler, Join, kickHandler, Invite, InviteClient, Uninvite, cmodeHandler, AmodeMembers, csOpHandler,
         csDeopHandler, csClearHandler, csTransferHandler
<1> QED BY <1>1 DEF ModesInv, OfferInv, FounderIsKept

(* What the commands decide to do.                                         *)
LEMMA Decisions ==
  ASSUME ModesType, NEW c \in Folk,
         \/ sajoinHandler(c) \/ kickHandler(c) \/ Invite(c) \/ cmodeHandler(c) \/ csAmodeHandler(c)
         \/ csOpHandler(c) \/ csRegisterHandler(c) \/ csClearHandler(c) \/ csTransferHandler(c)
  PROVE  /\ \E b \in Folk : \E d : doing' = [doing EXCEPT ![b] = d] /\ TaskType(d, channelOps')
         /\ channelOps' = channelOps + 1 /\ UNCHANGED <<umodes, inside, invitedTo, given, used>>
<1> USE DEF Decides, Orders
<1>1. channelOps' = channelOps + 1 /\ UNCHANGED <<umodes, inside, invitedTo, given, used>>
  BY DEF sajoinHandler, kickHandler, Invite, cmodeHandler, csAmodeHandler, csOpHandler, csRegisterHandler,
         csClearHandler, csTransferHandler
<1> SUFFICES \E b \in Folk : \E d : doing' = [doing EXCEPT ![b] = d] /\ TaskType(d, channelOps')
  BY <1>1
<1>2. CASE sajoinHandler(c)
  <2>1. TaskType([at |-> "join", rank |-> Amode(c)], channelOps')
    BY AmodeIsRank DEF TaskType, Ranked
  <2> QED BY <1>2, <2>1 DEF sajoinHandler
<1>3. CASE kickHandler(c)
  <2>1. PICK target \in Folk : doing' = [doing EXCEPT ![c] = [at |-> "kick", whom |-> {target}]]
    BY <1>3 DEF kickHandler, ModesType
  <2>2. TaskType([at |-> "kick", whom |-> {target}], channelOps')
    BY DEF TaskType
  <2> QED BY <2>1, <2>2
<1>4. CASE Invite(c)
  <2>1. PICK target \in Folk : doing' = [doing EXCEPT ![c] = [at |-> "invite", whom |-> target, to |-> ch.created]]
    BY <1>4 DEF Invite
  <2>2. ch.created \in 1..channelOps'
    BY <1>1, <1>4 DEF Invite, ModesType, Channels
  <2>3. TaskType([at |-> "invite", whom |-> target, to |-> ch.created], channelOps')
    BY <2>2 DEF TaskType
  <2> QED BY <2>1, <2>3
<1>5. CASE cmodeHandler(c)
  <2>1. PICK change \in ParseChannelModeChanges, samode \in BOOLEAN :
          doing' = [doing EXCEPT ![c] = [at |-> "mode", change |-> change, samode |-> samode]]
    BY <1>5 DEF cmodeHandler
  <2>2. TaskType([at |-> "mode", change |-> change, samode |-> samode], channelOps')
    BY DEF TaskType
  <2> QED BY <2>1, <2>2
<1>6. CASE csAmodeHandler(c)
  <2>1. PICK a \in Owners, rank \in Ranks, add \in BOOLEAN :
          doing' = [doing EXCEPT ![c] = [at |-> "amode", a |-> a, rank |-> rank, add |-> add]]
    BY <1>6 DEF csAmodeHandler
  <2>2. TaskType([at |-> "amode", a |-> a, rank |-> rank, add |-> add], channelOps')
    BY DEF TaskType
  <2> QED BY <2>1, <2>2
<1>7. ASSUME NEW rank \in Ranks, NEW target \in Folk
      PROVE  TaskType([at |-> "mode", samode |-> FALSE,
                       change |-> [kind |-> "member", rank |-> rank, add |-> TRUE, whom |-> target]], channelOps')
  BY <1>7 DEF TaskType, ParseChannelModeChanges, MemberChanges
<1>8. CASE csOpHandler(c)
  <2>1. PICK target \in Folk, rank \in Ranked \ {0} :
          doing' = [doing EXCEPT ![c] = [at |-> "mode", samode |-> FALSE,
                       change |-> [kind |-> "member", rank |-> rank, add |-> TRUE, whom |-> target]]]
    BY <1>8, AmodeIsRank, Numbers DEF csOpHandler
  <2>2. rank \in Ranks
    BY Numbers
  <2> QED BY <1>7, <2>1, <2>2
<1>9. CASE csRegisterHandler(c)
  <2>1. ChannelFounder \in Ranks
    BY Numbers
  <2> QED BY <1>7, <1>9, <2>1 DEF csRegisterHandler
<1>10. CASE csClearHandler(c)
  <2>1. TaskType([at |-> "kick", whom |-> inside \ {c}], channelOps') /\ TaskType([at |-> "clear"], channelOps')
    BY DEF TaskType, ModesType
  <2> QED BY <1>10, <2>1 DEF csClearHandler
<1>11. CASE csTransferHandler(c)
  <2>1. \A a \in Owners : TaskType([at |-> "transfer", to |-> a], channelOps')
    BY DEF TaskType
  <2> QED BY <1>11, <2>1 DEF csTransferHandler
<1> QED BY <1>2, <1>3, <1>4, <1>5, <1>6, <1>8, <1>9, <1>10, <1>11

-----------------------------------------------------------------------------
(* The members' modes, and the invitations, of the steps that change them. *)
LEMMA Others ==
  ASSUME ModesType, NEW c \in Folk,
         \/ Join(c) \/ Part(c) \/ Kick(c) \/ ApplyChannelModeChanges(c) \/ AmodeMembers(c) \/ csDeopHandler(c)
         \/ csUnregisterHandler(c) \/ resetAccess(c) \/ Transfer(c) \/ processTransferAccept(c)
  PROVE  /\ umodes' \in [Folk -> SUBSET Ranks] /\ inside' \subseteq Folk
         /\ doing' = doing \/ \E b \in Folk : \E d : doing' = [doing EXCEPT ![b] = d] /\ TaskType(d, channelOps')
         /\ channelOps' \in {channelOps, channelOps + 1} /\ UNCHANGED <<given, used, invitedTo>>
<1>1. /\ doing' = doing \/ doing' = [doing EXCEPT ![c] = Idle]
      /\ channelOps' \in {channelOps, channelOps + 1} /\ UNCHANGED <<given, used, invitedTo>>
  BY DEF Join, Part, Kick, Quit, ApplyChannelModeChanges, AmodeMembers, csDeopHandler, csUnregisterHandler,
         resetAccess, Transfer, processTransferAccept, Decides, Orders
<1>2. doing' = doing \/ \E b \in Folk : \E d : doing' = [doing EXCEPT ![b] = d] /\ TaskType(d, channelOps')
  BY <1>1, IdleTask
<1>3. inside' \subseteq Folk
  BY DEF Join, Part, Kick, Quit, ApplyChannelModeChanges, AmodeMembers, csDeopHandler, csUnregisterHandler,
         resetAccess, Transfer, processTransferAccept, ModesType
<1>4. umodes' \in [Folk -> SUBSET Ranks]
  <2> USE DEF ModesType
  <2>1. CASE Join(c)
    <3>1. doing[c].rank \in Ranked
      BY <2>1 DEF Join, TaskType, Ranked
    <3>2. PICK rank \in Ranked : umodes' = [umodes EXCEPT ![c] = {rank} \ {0}]
      BY <2>1, <3>1, Numbers DEF Join
    <3>3. {rank} \ {0} \subseteq Ranks
      BY Numbers
    <3> QED BY <3>2, <3>3
  <2>2. CASE Part(c) \/ Kick(c)
    BY <2>2 DEF Part, Kick, Quit
  <2>3. CASE ApplyChannelModeChanges(c)
    <3>1. PICK change \in ParseChannelModeChanges :
            \/ umodes' = umodes
            \/ change.kind = "member" /\ applyModeToMember(change)
      BY <2>3 DEF ApplyChannelModeChanges, TaskType
    <3>2. CASE umodes' = umodes
      BY <3>2
    <3>3. CASE change.kind = "member" /\ applyModeToMember(change)
      <4>1. change.rank \in Ranks /\ change.whom \in Folk
        BY <3>1, <3>3 DEF ParseChannelModeChanges, ListChanges, MemberChanges, FlagChanges, ArgChanges
      <4> QED BY <3>3, <4>1 DEF applyModeToMember
    <3> QED BY <3>1, <3>2, <3>3
  <2>4. CASE AmodeMembers(c)
    <3>1. doing[c].rank \in Ranks
      BY <2>4 DEF AmodeMembers, TaskType
    <3> QED BY <2>4, <3>1 DEF AmodeMembers
  <2>5. CASE csDeopHandler(c)
    BY <2>5 DEF csDeopHandler
  <2>6. CASE csUnregisterHandler(c) \/ resetAccess(c) \/ Transfer(c) \/ processTransferAccept(c)
    BY <2>6 DEF csUnregisterHandler, resetAccess, Transfer, processTransferAccept
  <2> QED BY <2>1, <2>2, <2>3, <2>4, <2>5, <2>6
<1> QED BY <1>1, <1>2, <1>3, <1>4

(* A type that nothing but the channel, the members and the tasks may      *)
(* threaten.                                                               *)
LEMMA TypeKept ==
  ASSUME ModesType, ch' \in Channels, ch'.created \in {0, ch.created},
         umodes' \in [Folk -> SUBSET Ranks], inside' \subseteq Folk,
         doing' = doing \/ \E b \in Folk : \E d : doing' = [doing EXCEPT ![b] = d] /\ TaskType(d, channelOps'),
         channelOps' \in {channelOps, channelOps + 1}, UNCHANGED <<given, used, invitedTo>>
  PROVE  ModesType'
<1>1. doing' = [c \in Folk |-> doing'[c]] /\ \A c \in Folk : TaskType(doing'[c], channelOps')
  BY TaskKeeps
<1>2. ch'.created <= channelOps' /\ channelOps' \in Nat /\ \A c \in Folk : invitedTo'[c] <= channelOps'
  BY DEF ModesType, Channels
<1> QED BY <1>1, <1>2 DEF ModesType

(* Joining a new channel makes every earlier invitation worthless; joining *)
(* an existing one looks the client's own invitation up and uses it.       *)
LEMMA JoinKeeps ==
  ASSUME ModesInv, NEW c \in Folk, joinHandler(c) PROVE ModesInv' /\ FounderIsKept
<1> USE DEF ModesInv
<1>1. channelOps' = channelOps + 1 /\ channelOps' \in Nat /\ UNCHANGED <<umodes, inside>>
  BY DEF joinHandler, ModesType
<1>2. CASE ch.created = 0
  <2>1. /\ ch' = [NoChannel EXCEPT !.created = channelOps + 1]
        /\ given' = [d \in Folk |-> 0] /\ used' = [d \in Folk |-> 0]
        /\ invitedTo' = [invitedTo EXCEPT ![c] = 0]
        /\ doing' = [doing EXCEPT ![c] = [at |-> "join", rank |-> 0]]
    BY <1>2 DEF joinHandler, Decides
  <2>2. /\ ch' \in Channels /\ ch'.created = channelOps + 1
        /\ ch'.founder = NoOwner /\ ch'.pending = NoOwner
    <3>1. NoChannel \in Channels /\ channelOps + 1 \in Nat
      BY NoChannelType DEF ModesType
    <3> QED BY <2>1, <3>1, NoChannelType DEF Channels
  <2>3. TaskType([at |-> "join", rank |-> 0], channelOps')
    BY Numbers DEF TaskType, Ranked
  <2>4. doing' = [d \in Folk |-> doing'[d]] /\ \A d \in Folk : TaskType(doing'[d], channelOps')
    BY <1>1, <2>1, <2>3, TaskKeeps
  <2>5. \A d \in Folk : invitedTo'[d] \in Nat /\ invitedTo'[d] < channelOps'
    BY <1>1, <2>1 DEF ModesType
  <2>6. ModesType'
    BY <1>1, <2>1, <2>2, <2>4, <2>5 DEF ModesType
  <2>7. InviteInv'
    BY <1>1, <2>1, <2>2, <2>5 DEF InviteInv, CheckInvited
  <2> QED BY <2>2, <2>6, <2>7 DEF OfferInv, FounderIsKept
<1>3. CASE ch.created # 0
  <2>1. PICK invited \in BOOLEAN :
          /\ invited => CheckInvited(c) /\ invitedTo' = [invitedTo EXCEPT ![c] = 0]
          /\ invitedTo' = invitedTo \/ invitedTo' = [invitedTo EXCEPT ![c] = 0]
          /\ used' = IF invited THEN [used EXCEPT ![c] = @ + 1] ELSE used
          /\ given' = given /\ ch' = ch
          /\ \/ doing' = [doing EXCEPT ![c] = [at |-> "join", rank |-> Amode(c)]]
             \/ doing' = [doing EXCEPT ![c] = Idle]
    BY <1>3 DEF joinHandler, Decides
  <2>2. TaskType([at |-> "join", rank |-> Amode(c)], channelOps') /\ TaskType(Idle, channelOps')
    BY AmodeIsRank, IdleTask DEF TaskType, Ranked
  <2>3. doing' = [d \in Folk |-> doing'[d]] /\ \A d \in Folk : TaskType(doing'[d], channelOps')
    BY <1>1, <2>1, <2>2, TaskKeeps
  <2>4. invitedTo' \in [Folk -> Nat] /\ \A d \in Folk : invitedTo'[d] \in {0, invitedTo[d]}
    BY <2>1 DEF ModesType
  <2>5. used' \in [Folk -> Nat]
    BY <2>1 DEF ModesType
  <2>6. ch'.created <= channelOps' /\ \A d \in Folk : invitedTo'[d] <= channelOps'
    BY <1>1, <2>1, <2>4 DEF ModesType, Channels
  <2>7. ModesType'
    BY <1>1, <2>1, <2>3, <2>4, <2>5, <2>6 DEF ModesType
  <2>8. InviteInv'
    BY <2>1 DEF InviteInv, CheckInvited, ModesType
  <2> QED BY <2>1, <2>7, <2>8 DEF OfferInv, FounderIsKept
<1> QED BY <1>2, <1>3

(* An invitation that is delivered to the present channel counts.          *)
LEMMA InviteKeeps ==
  ASSUME ModesInv, NEW c \in Folk, InviteClient(c) \/ Uninvite(c) PROVE ModesType' /\ InviteInv'
<1> USE DEF ModesInv
<1>1. CASE InviteClient(c)
  <2>1. PICK w \in Folk, to \in 1..channelOps :
          /\ invitedTo' = [invitedTo EXCEPT ![w] = to]
          /\ given' = IF to = ch.created THEN [given EXCEPT ![w] = @ + 1] ELSE given
    BY <1>1 DEF InviteClient, ModesType, TaskType
  <2>2. doing' = [doing EXCEPT ![c] = Idle] /\ UNCHANGED <<ch, umodes, inside, channelOps, used>>
    BY <1>1 DEF InviteClient, Decides
  <2>3. doing' = [d \in Folk |-> doing'[d]] /\ \A d \in Folk : TaskType(doing'[d], channelOps')
    BY <2>2, TaskKeeps, IdleTask
  <2>4. given' \in [Folk -> Nat] /\ invitedTo' \in [Folk -> Nat] /\ \A d \in Folk : invitedTo'[d] <= channelOps
    BY <2>1 DEF ModesType
  <2>5. ModesType'
    BY <2>2, <2>3, <2>4 DEF ModesType
  <2>6. InviteInv'
    BY <2>1, <2>2 DEF InviteInv, CheckInvited, ModesType
  <2> QED BY <2>5, <2>6
<1>2. CASE Uninvite(c)
  <2>1. PICK w \in Folk : invitedTo' = [invitedTo EXCEPT ![w] = 0]
    BY <1>2 DEF Uninvite
  <2>2. channelOps' = channelOps + 1 /\ UNCHANGED <<ch, umodes, inside, doing, given, used>>
    BY <1>2 DEF Uninvite, Orders
  <2>3. doing' = [d \in Folk |-> doing'[d]] /\ \A d \in Folk : TaskType(doing'[d], channelOps')
    BY <2>2, TaskKeeps
  <2>4. invitedTo' \in [Folk -> Nat] /\ \A d \in Folk : invitedTo'[d] <= channelOps'
    BY <2>1, <2>2 DEF ModesType
  <2>5. ch'.created <= channelOps' /\ channelOps' \in Nat
    BY <2>2 DEF ModesType, Channels
  <2>6. ModesType'
    BY <2>2, <2>3, <2>4, <2>5 DEF ModesType
  <2>7. InviteInv'
    BY <2>1, <2>2 DEF InviteInv, CheckInvited, ModesType
  <2> QED BY <2>6, <2>7
<1> QED BY <1>1, <1>2

-----------------------------------------------------------------------------
(* The invariant holds at startup.                                         *)
LEMMA InitModes == ChannelModesInit => ModesInv
<1> SUFFICES ASSUME ChannelModesInit PROVE ModesInv
  OBVIOUS
<1> USE NoChannelType, IdleTask DEF ChannelModesInit
<1>1. ModesType
  BY DEF ModesType
<1>2. InviteInv /\ OfferInv
  BY DEF InviteInv, OfferInv, CheckInvited
<1> QED BY <1>1, <1>2 DEF ModesInv

(* Every step keeps the invariant.                                         *)
LEMMA NextModes ==
  ASSUME ModesInv, NEW c \in Folk,
         \/ joinHandler(c) \/ sajoinHandler(c) \/ Join(c) \/ Part(c) \/ kickHandler(c) \/ Kick(c)
         \/ Invite(c) \/ InviteClient(c) \/ Uninvite(c)
         \/ cmodeHandler(c) \/ ApplyChannelModeChanges(c)
         \/ csAmodeHandler(c) \/ AmodeMembers(c) \/ csOpHandler(c) \/ csDeopHandler(c)
         \/ csRegisterHandler(c) \/ csUnregisterHandler(c) \/ csClearHandler(c) \/ resetAccess(c)
         \/ csTransferHandler(c) \/ Transfer(c) \/ processTransferAccept(c)
  PROVE  ModesInv' /\ FounderIsKept
<1>1. ModesType /\ InviteInv /\ OfferInv
  BY DEF ModesInv
(* Decisions about the channel as it is. *)
<1>2. CASE \/ sajoinHandler(c) \/ kickHandler(c) \/ Invite(c) \/ cmodeHandler(c)
           \/ csOpHandler(c) \/ csClearHandler(c) \/ csTransferHandler(c)
  <2>1. ch' = ch /\ OfferInv' /\ FounderIsKept
    BY <1>2, SameChannel
  <2>2. /\ \E b \in Folk : \E d : doing' = [doing EXCEPT ![b] = d] /\ TaskType(d, channelOps')
        /\ channelOps' = channelOps + 1 /\ UNCHANGED <<umodes, inside, invitedTo, given, used>>
    BY <1>1, <1>2, Decisions
  <2>3. ModesType'
    BY <1>1, <2>1, <2>2, TypeKept DEF ModesType
  <2>4. InviteInv'
    BY <1>1, <2>1, <2>2, InvitesKept DEF Lasts
  <2> QED BY <2>1, <2>3, <2>4 DEF ModesInv
(* Decisions that come with a change of the channel. *)
<1>3. CASE csAmodeHandler(c) \/ csRegisterHandler(c)
  <2>1. Effect
    BY <1>1, <1>3, ChannelEffect
  <2>2. /\ \E b \in Folk : \E d : doing' = [doing EXCEPT ![b] = d] /\ TaskType(d, channelOps')
        /\ channelOps' = channelOps + 1 /\ UNCHANGED <<umodes, inside, invitedTo, given, used>>
    BY <1>1, <1>3, Decisions
  <2>3. ch' \in Channels /\ ch'.created \in {0, ch.created}
    BY <2>1, NoChannelType DEF Effect, Lasts, Gone
  <2>4. ModesType'
    BY <1>1, <2>2, <2>3, TypeKept DEF ModesType
  <2>5. InviteInv'
    BY <1>1, <2>1, InvitesKept DEF Effect
  <2> QED BY <2>1, <2>4, <2>5 DEF ModesInv, Effect
<1>4. CASE \/ Part(c) \/ Kick(c) \/ ApplyChannelModeChanges(c)
           \/ csUnregisterHandler(c) \/ resetAccess(c) \/ Transfer(c) \/ processTransferAccept(c)
  <2>1. Effect
    BY <1>1, <1>4, ChannelEffect
  <2>2. /\ umodes' \in [Folk -> SUBSET Ranks] /\ inside' \subseteq Folk
        /\ doing' = doing \/ \E b \in Folk : \E d : doing' = [doing EXCEPT ![b] = d] /\ TaskType(d, channelOps')
        /\ channelOps' \in {channelOps, channelOps + 1} /\ UNCHANGED <<given, used, invitedTo>>
    BY <1>1, <1>4, Others
  <2>3. ch' \in Channels /\ ch'.created \in {0, ch.created}
    BY <2>1, NoChannelType DEF Effect, Lasts, Gone
  <2>4. ModesType'
    BY <1>1, <2>2, <2>3, TypeKept
  <2>5. InviteInv'
    BY <1>1, <2>1, InvitesKept DEF Effect
  <2> QED BY <2>1, <2>4, <2>5 DEF ModesInv, Effect
<1>5. CASE Join(c) \/ AmodeMembers(c) \/ csDeopHandler(c)
  <2>1. ch' = ch /\ OfferInv' /\ FounderIsKept
    BY <1>5, SameChannel
  <2>2. /\ umodes' \in [Folk -> SUBSET Ranks] /\ inside' \subseteq Folk
        /\ doing' = doing \/ \E b \in Folk : \E d : doing' = [doing EXCEPT ![b] = d] /\ TaskType(d, channelOps')
        /\ channelOps' \in {channelOps, channelOps + 1} /\ UNCHANGED <<given, used, invitedTo>>
    BY <1>1, <1>5, Others
  <2>3. ModesType'
    BY <1>1, <2>1, <2>2, TypeKept DEF ModesType
  <2>4. InviteInv'
    BY <1>1, <2>1, <2>2, InvitesKept DEF Lasts
  <2> QED BY <2>1, <2>3, <2>4 DEF ModesInv
<1>6. CASE InviteClient(c) \/ Uninvite(c)
  BY <1>6, SameChannel, InviteKeeps DEF ModesInv
<1>7. CASE joinHandler(c)
  BY <1>7, JoinKeeps
<1> QED BY <1>2, <1>3, <1>4, <1>5, <1>6, <1>7

(* A step that changes nothing keeps it.                                   *)
LEMMA StutterModes == ModesInv /\ UNCHANGED channelVars => ModesInv'
BY DEF ModesInv, ModesType, InviteInv, OfferInv, CheckInvited, channelVars

(* Types, unused invitations and offers of the channel are as the properties *)
(* need them, whatever commands of members and services are interleaved    *)
(* (channel.go, chanserv.go).                                              *)
THEOREM ModesInvariant == ChannelModesSpec => []ModesInv
<1>1. ModesInv /\ [ChannelModesNext]_channelVars => ModesInv'
  BY NextModes, StutterModes DEF ChannelModesNext
<1> QED BY <1>1, InitModes, PTL DEF ChannelModesSpec

(* "Joining an invited channel uses up your invite": nobody has entered    *)
(* the present channel by invitation more often than its privileged        *)
(* members have invited it (Join, CheckInvited, Invite, Uninvite), however *)
(* often the channel was deleted and founded again in between.             *)
THEOREM InvitationsSuffice == ChannelModesSpec => []InvitesSuffice
<1>1. ModesInv => InvitesSuffice
  BY DEF ModesInv, InviteInv, InvitesSuffice
<1> QED BY <1>1, ModesInvariant, PTL

(* The founder of a registered channel keeps it, and its +q entry, unless  *)
(* an operator or the founder's own offer takes it away (Transfer,         *)
(* processTransferAccept, SetUnregistered, ProcessAccountToUmodeChange),   *)
(* in every step of every number of clients.                               *)
THEOREM FounderKept == ChannelModesSpec => FounderKeepsChannel
<1>1. ModesInv /\ [ChannelModesNext]_channelVars => [FounderIsKept]_channelVars
  BY NextModes DEF ChannelModesNext
<1> QED BY <1>1, ModesInvariant, PTL DEF ChannelModesSpec, FounderKeepsChannel
-----------------------------------------------------------------------------
(* Handshake *)

(* The connection as a record.                                             *)
Connection ==
  [st : {"handshake", "registered", "closed"}, tor : BOOLEAN, sts : BOOLEAN, soft : BOOLEAN,
   cert : BOOLEAN, proxied : BOOLEAN, nick : BOOLEAN, user : BOOLEAN,
   cap : {"none", "negotiating", "negotiated"}, pass : {"unsent", "ok", "failed"},
   account : BOOLEAN, mech : Mechanisms \cup {"none"}, buf : SUBSET Nat,
   conv : {"none", "first", "valid", "invalid", "refused"}, sent : BOOLEAN, lines : Nat,
   first : {"none", "right", "wrong"}, proved : BOOLEAN, talk : Nat]

(* Everything in the SASL buffer was sent in the present conversation, and *)
(* there is nothing in it outside one.                                     *)
BufferInv(h) == h.buf \subseteq {h.talk} /\ (h.mech = "none" => h.buf = {})

(* The server password is compared once, and what PASS left behind tells   *)
(* how that went or that it was a login.                                   *)
PassInv(h) ==
  /\ h.pass = "unsent" => h.first = "none"
  /\ h.pass = "ok" => h.first = "right" \/ h.proved

ConnectionInv(h) ==
  h \in Connection /\ BufferInv(h) /\ PassInv(h) /\ (h.account => h.proved)

(* What the configuration r asks of an admitted connection.                *)
Satisfies(h, r) ==
  /\ r.pass => h.first = "right" \/ h.proved
  /\ r.sasl \/ h.soft \/ (h.tor /\ r.torSasl) => h.proved

(* The inductive invariant.                                                *)
HandshakeInv ==
  /\ ConnectionInv(hs)
  /\ conf \in Requirements
  /\ hs.st = "registered" => \A r \in asked : Satisfies(hs, r)

-----------------------------------------------------------------------------
(* A handler's outcome is a connection that is not admitted yet.           *)
Pending(h) == ConnectionInv(h) /\ h.st \in {"handshake", "closed"}

(* saslStatus.Clear keeps the invariant.                                   *)
LEMMA ClearPending ==
  ASSUME NEW h, Pending(h) PROVE Pending(saslClear(h))
BY ZenonT(60) DEF Pending, ConnectionInv, Connection, BufferInv, PassInv, saslClear

(* So does a login with the client's own credentials.                      *)
LEMMA LoginPending ==
  ASSUME NEW h, Pending(h), NEW whole \in BOOLEAN, whole PROVE Pending(LoggedIn(h, whole))
BY DEF Pending, ConnectionInv, Connection, BufferInv, PassInv, LoggedIn

(* So does closing the connection.                                         *)
LEMMA ClosedPending ==
  ASSUME NEW h, Pending(h) PROVE Pending(Closed(h))
BY DEF Pending, ConnectionInv, Connection, BufferInv, PassInv, Closed

(* The handlers of single lines.  Those that touch neither PASS nor SASL.  *)
LEMMA PlainHandlersPending ==
  ASSUME NEW h, Pending(h),
         NEW g \in handleProxyCommand(h) \cup webircHandler(h) \cup nickHandler(h)
                    \cup userHandler(h) \cup capHandler(h) \cup registerHandler(h)
                    \cup verifyHandler(h)
  PROVE  Pending(g)
<1>1. Pending(LoggedIn(h, TRUE)) /\ Pending(Closed(h))
  BY LoginPending, ClosedPending
<1>2. CASE g \in handleProxyCommand(h) \cup webircHandler(h)
  <2>1. g \in ApplyProxiedIP(h) \/ g = h
    BY <1>2 DEF handleProxyCommand, webircHandler
  <2>2. ASSUME NEW soft \in BOOLEAN
        PROVE  Pending([h EXCEPT !.proxied = TRUE, !.soft = soft, !.cert = FALSE])
    <3> DEFINE f == [h EXCEPT !.proxied = TRUE, !.soft = soft, !.cert = FALSE]
    <3>1. f \in Connection
      BY DEF Pending, ConnectionInv, Connection
    <3>2. /\ f.st = h.st /\ f.buf = h.buf /\ f.mech = h.mech /\ f.talk = h.talk
          /\ f.pass = h.pass /\ f.first = h.first /\ f.proved = h.proved /\ f.account = h.account
      BY DEF Pending, ConnectionInv, Connection
    <3> HIDE DEF f
    <3>3. Pending(f)
      BY <3>1, <3>2 DEF Pending, ConnectionInv, BufferInv, PassInv
    <3> QED BY <3>3 DEF f
  <2> QED BY <1>1, <2>1, <2>2 DEF ApplyProxiedIP
<1>3. CASE g \in nickHandler(h)
  BY <1>3, ZenonT(60) DEF nickHandler, Pending, ConnectionInv, Connection, BufferInv, PassInv
<1>4. CASE g \in userHandler(h)
  <2>1. CASE g = [h EXCEPT !.user = TRUE]
    BY <2>1 DEF Pending, ConnectionInv, Connection, BufferInv, PassInv
  <2>2. CASE g = [LoggedIn(h, TRUE) EXCEPT !.user = TRUE]
    BY <1>1, <2>2, ZenonT(60) DEF Pending, ConnectionInv, Connection, BufferInv, PassInv
  <2> QED BY <1>4, <2>1, <2>2 DEF userHandler
<1>5. CASE g \in capHandler(h)
  <2>1. Pending([h EXCEPT !.cap = "negotiating"]) /\ Pending([h EXCEPT !.cap = "negotiated"])
    BY DEF Pending, ConnectionInv, Connection, BufferInv, PassInv
  <2> QED BY <1>1, <1>5, <2>1 DEF capHandler
<1>6. CASE g \in registerHandler(h)
  <2>1. Pending([h EXCEPT !.sent = TRUE])
    BY ZenonT(60) DEF Pending, ConnectionInv, Connection, BufferInv, PassInv
  <2> QED BY <1>1, <1>6, <2>1 DEF registerHandler
<1>7. CASE g \in verifyHandler(h)
  BY <1>1, <1>7 DEF verifyHandler
<1> QED BY <1>2, <1>3, <1>4, <1>5, <1>6, <1>7

(* PASS: one try; the ghost `first` is set with the status.                *)
LEMMA PassPending ==
  ASSUME NEW h, Pending(h), NEW g \in passHandler(h)
  PROVE  Pending(g)
<1>1. CASE g = h
  BY <1>1
<1>2. CASE g # h
  <2>1. h.pass = "unsent" /\ h.first = "none"
    BY <1>2 DEF passHandler, PassMayBeTried, Pending, ConnectionInv, PassInv
  <2>2. CASE g = [LoggedIn(h, TRUE) EXCEPT !.pass = "ok"]
    <3>1. Pending(LoggedIn(h, TRUE))
      BY LoginPending
    <3>2. LoggedIn(h, TRUE).proved
      BY DEF LoggedIn, Pending, ConnectionInv, Connection
    <3> QED BY <2>2, <3>1, <3>2 DEF Pending, ConnectionInv, Connection, BufferInv, PassInv
  <2>3. CASE g # [LoggedIn(h, TRUE) EXCEPT !.pass = "ok"]
    <3>1. PICK right \in BOOLEAN :
            g = [h EXCEPT !.pass = IF right THEN "ok" ELSE "failed",
                          !.first = IF @ # "none" THEN @ ELSE IF right THEN "right" ELSE "wrong"]
      BY <1>2, <2>1, <2>3 DEF passHandler, PassMayBeTried
    <3>2. \/ g = [h EXCEPT !.pass = "ok", !.first = "right"]
          \/ g = [h EXCEPT !.pass = "failed", !.first = "wrong"]
      BY <2>1, <3>1
    <3> QED BY <2>1, <3>2, ZenonT(60) DEF Pending, ConnectionInv, Connection, BufferInv, PassInv
  <2> QED BY <2>2, <2>3
<1> QED BY <1>1, <1>2

(* A mechanism that gets a message of the present conversation, with an    *)
(* empty buffer, logs the client in with its own credentials or not at all.*)
LEMMA SaslPending ==
  ASSUME NEW h, Pending(h), h.mech # "none", h.buf = {},
         NEW msg, msg \subseteq {h.talk}, NEW g \in saslHandler(h, msg)
  PROVE  Pending(g)
<1> DEFINE whole == msg \subseteq {h.talk}
<1>1. Pending(saslClear(h)) /\ Pending(LoggedIn(saslClear(h), whole))
  BY ClearPending, LoginPending
<1>2. h.mech \in Mechanisms
  BY DEF Pending, ConnectionInv, Connection
<1>3. \A c \in {"first", "valid", "invalid", "refused"} : Pending([h EXCEPT !.conv = c])
  BY DEF Pending, ConnectionInv, Connection, BufferInv, PassInv
<1>4. g \in {h, saslClear(h), LoggedIn(saslClear(h), whole)}
           \cup {[h EXCEPT !.conv = c] : c \in {"first", "valid", "invalid", "refused"}}
  BY <1>2 DEF saslHandler, authPlainHandler, authExternalHandler, authScramHandler,
              authIRCv3BearerHandler, authOauthBearerHandler, Mechanisms
<1> QED BY <1>1, <1>3, <1>4

(* AUTHENTICATE: a new conversation starts with an empty buffer, and only  *)
(* its own chunks are added.                                               *)
LEMMA AuthenticatePending ==
  ASSUME NEW h, Pending(h), NEW g \in authenticateHandler(h)
  PROVE  Pending(g)
<1>1. CASE g = h \/ g = saslClear(h)
  BY <1>1, ClearPending
<1>2. CASE h.mech = "none" /\ g # h /\ g # saslClear(h)
  <2>1. PICK m \in Mechanisms : g = [h EXCEPT !.mech = m, !.talk = @ + 1]
    BY <1>2 DEF authenticateHandler
  <2>2. m # "none" /\ h.buf = {}
    BY <1>2 DEF Mechanisms, Pending, ConnectionInv, BufferInv
  <2>3. g \in Connection
    <3>1. h \in Connection /\ h.talk + 1 \in Nat /\ m \in Mechanisms \cup {"none"}
      BY DEF Pending, ConnectionInv, Connection
    <3> QED BY <2>1, <3>1 DEF Connection
  <2>4. /\ g.st = h.st /\ g.buf = {} /\ g.mech # "none"
        /\ g.pass = h.pass /\ g.first = h.first /\ g.proved = h.proved /\ g.account = h.account
    BY <2>1, <2>2 DEF Pending, ConnectionInv, Connection
  <2> QED BY <2>3, <2>4 DEF Pending, ConnectionInv, BufferInv, PassInv
<1>3. CASE h.mech # "none" /\ g # h /\ g # saslClear(h)
  <2>1. g \in saslBufferAdd(h)
    BY <1>3 DEF authenticateHandler
  <2>2. CASE g = [h EXCEPT !.buf = @ \cup {h.talk}]
    BY <1>3, <2>2 DEF Pending, ConnectionInv, Connection, BufferInv, PassInv
  <2>3. CASE g \in saslHandler([h EXCEPT !.buf = {}], h.buf \cup {h.talk})
    <3> DEFINE e == [h EXCEPT !.buf = {}]
    <3>1. Pending(e) /\ e.mech # "none" /\ e.buf = {} /\ e.talk = h.talk
      BY <1>3 DEF Pending, ConnectionInv, Connection, BufferInv, PassInv
    <3>2. h.buf \cup {h.talk} \subseteq {e.talk}
      BY <3>1 DEF Pending, ConnectionInv, BufferInv
    <3> HIDE DEF e
    <3> QED BY <2>3, <3>1, <3>2, SaslPending DEF e
  <2> QED BY <1>3, <2>1, <2>2, <2>3 DEF saslBufferAdd
<1> QED BY <1>1, <1>2, <1>3

-----------------------------------------------------------------------------
(* tryRegister admits only who satisfies the configuration of the moment.  *)
LEMMA AdmitSatisfies ==
  ASSUME NEW h, Pending(h), NEW g \in Admit(h)
  PROVE  ConnectionInv(g) /\ (g.st = "registered" => Satisfies(g, conf))
<1> USE DEF Pending, ConnectionInv, Connection, BufferInv, PassInv
<1>1. CASE g = h \/ g = Closed(h) \/ g = [h EXCEPT !.nick = FALSE]
  BY <1>1, ZenonT(60) DEF Closed
<1>2. CASE g = [h EXCEPT !.st = "registered"] /\ isAuthorized(h)
  BY <1>2 DEF isAuthorized, Satisfies
<1> QED BY <1>1, <1>2 DEF Admit

(* One line of the client.                                                 *)
LEMMA RunInv ==
  ASSUME NEW outcomes, HandshakeInv, Run(outcomes),
         Pending(hs) => \A h \in outcomes : Pending(h)
  PROVE  HandshakeInv'
<1>1. Pending(hs)
  BY DEF Run, HandshakeInv, Pending
<1>2. CASE hs.lines = RegistrationMessages
  <2>1. hs' = Closed(hs) /\ hs'.st = "closed" /\ UNCHANGED <<conf, asked>>
    BY <1>1, <1>2 DEF Run, Closed, Pending, ConnectionInv, Connection
  <2> QED BY <1>1, <2>1, ClosedPending DEF HandshakeInv, Pending
<1>3. CASE hs.lines # RegistrationMessages
  <2>1. PICK h \in outcomes : \E g \in Admit([h EXCEPT !.lines = @ + 1]) :
           hs' = g /\ asked' = IF g.st = "registered" THEN {conf} ELSE asked
    BY <1>3 DEF Run
  <2>2. Pending([h EXCEPT !.lines = @ + 1])
    BY <1>1 DEF Pending, ConnectionInv, Connection, BufferInv, PassInv
  <2>3. ConnectionInv(hs') /\ (hs'.st = "registered" => Satisfies(hs', conf))
    BY <2>1, <2>2, AdmitSatisfies
  <2> QED BY <2>1, <2>3 DEF HandshakeInv, Run
<1> QED BY <1>2, <1>3

(* The invariant holds at startup.                                         *)
LEMMA InitHandshake == HandshakeInit => HandshakeInv
BY DEF HandshakeInit, HandshakeInv, NewConnection, ConnectionInv, Connection, BufferInv, PassInv

(* Every step keeps the invariant.                                         *)
LEMMA NextHandshake == HandshakeInv /\ [HandshakeNext]_handshakeVars => HandshakeInv'
<1> SUFFICES ASSUME HandshakeInv, [HandshakeNext]_handshakeVars PROVE HandshakeInv'
  OBVIOUS
<1>1. CASE Run(handleProxyCommand(hs)) \/ Run(webircHandler(hs))
  BY <1>1, RunInv, PlainHandlersPending
<1>2. CASE Run(nickHandler(hs)) \/ Run(userHandler(hs)) \/ Run(capHandler(hs))
  BY <1>2, RunInv, PlainHandlersPending
<1>3. CASE Run(registerHandler(hs)) \/ Run(verifyHandler(hs))
  BY <1>3, RunInv, PlainHandlersPending
<1>4. CASE Run(passHandler(hs))
  BY <1>4, RunInv, PassPending
<1>5. CASE Run(authenticateHandler(hs))
  BY <1>5, RunInv, AuthenticatePending
<1>6. CASE RegisterTimeoutFires
  <2>1. Pending(hs) /\ hs' = Closed(hs) /\ hs'.st = "closed" /\ UNCHANGED <<conf, asked>>
    BY <1>6 DEF RegisterTimeoutFires, HandshakeInv, Pending, ConnectionInv, Connection, Closed
  <2> QED BY <2>1, ClosedPending DEF HandshakeInv, Pending
<1>7. CASE Rehash
  BY <1>7 DEF Rehash, HandshakeInv
<1>8. CASE UNCHANGED handshakeVars
  BY <1>8 DEF handshakeVars, HandshakeInv
<1> QED BY <1>1, <1>2, <1>3, <1>4, <1>5, <1>6, <1>7, <1>8 DEF HandshakeNext

(* Whoever is admitted has shown what the configuration of that moment     *)
(* requires, and every login was made with the credentials of one          *)
(* conversation: PASS, CAP, AUTHENTICATE, NICK, USER, REGISTER and a       *)
(* rehash in any order and number (isAuthorized, tryRegister, SASLBuffer). *)
THEOREM HandshakeAdmittedHasProved == HandshakeSpec => []AdmittedHasProved
<1>1. HandshakeInv => AdmittedHasProved
  BY DEF HandshakeInv, AdmittedHasProved, ConnectionInv, Satisfies
<1> QED BY <1>1, InitHandshake, NextHandshake, PTL DEF HandshakeSpec

-----------------------------------------------------------------------------
(* Messages: fakelag *)

Fakelags ==
  [enabled : BOOLEAN, suspended : BOOLEAN, state : {"bursting", "throttled"}, burst : Nat,
   budget : 0..CommandBudget, slept : BOOLEAN]

Batches == [tag : {"", "a"}, label : Nat, notice : BOOLEAN, lines : Nat]

Sessions == [multiline : Batches, token : Batches, bill : {0, 1}, n : Nat, fl : Fakelags]

MessagesType == cmdSession \in Sessions /\ nofakelag \in BOOLEAN /\ foreign \in BOOLEAN /\ quick \in Nat

(* What a session has used of its budget and of its present burst.         *)
Burst(fl) == IF fl.state = "bursting" THEN (IF fl.burst < BurstLimit THEN fl.burst ELSE BurstLimit) ELSE 0

Spent(fl) == CommandBudget - fl.budget + Burst(fl)

(* Fakelag is suspended, and not just off, while a batch is open.          *)
SwitchInv(ses) ==
  /\ ses.fl.enabled = (ses.multiline.tag = "" /\ ~nofakelag)
  /\ ses.fl.suspended = (ses.multiline.tag # "" /\ ~nofakelag)

(* A multiline batch and a batch of TOKEN VALIDATE are never open at once.  *)
OneBatch(ses) == ses.multiline.tag = "" \/ ses.token.tag = ""

FakelagInv ==
  /\ MessagesType /\ OneBatch(cmdSession)
  /\ ~foreign => SwitchInv(cmdSession)
  /\ quick <= Spent(cmdSession.fl)

LEMMA SpentBound == ASSUME NEW fl \in Fakelags PROVE Spent(fl) \in 0..(CommandBudget + BurstLimit)
BY MessagesAssumption DEF Spent, Burst, Fakelags

LEMMA ThrottleDelays ==
  ASSUME NEW fl \in Fakelags, NEW elapsed \in {"short", "spaced", "long"}
  PROVE  /\ Throttle(fl, elapsed) \in Fakelags
         /\ Throttle(fl, elapsed).enabled = fl.enabled /\ Throttle(fl, elapsed).suspended = fl.suspended
         /\ elapsed = "short" => Throttle(fl, elapsed).slept
<1>1. CASE elapsed = "long"
  BY <1>1 DEF Throttle, Fakelags
<1>2. CASE elapsed # "long" /\ MessagesPerWindow > 0
  BY <1>2 DEF Throttle, Fakelags
<1>3. CASE elapsed # "long" /\ MessagesPerWindow = 0
  BY <1>3 DEF Throttle, Fakelags
<1> QED BY <1>1, <1>2, <1>3, MessagesAssumption

(* A command that is not delayed is paid for.                              *)
LEMMA TouchSpends ==
  ASSUME NEW fl \in Fakelags, NEW budgeted \in BOOLEAN, NEW elapsed \in {"short", "spaced", "long"}, NEW t,
         t = Touch(fl, budgeted, elapsed)
  PROVE  /\ t \in Fakelags /\ t.enabled = fl.enabled /\ t.suspended = fl.suspended
         /\ fl.enabled /\ elapsed = "short" /\ ~t.slept => Spent(t) >= Spent(fl) + 1
         /\ ~fl.enabled => Spent(t) = Spent(fl)
<1> DEFINE count == IF elapsed = "long" THEN 1 ELSE fl.burst + 1
<1>1. CASE ~fl.enabled
  <2>1. t = [fl EXCEPT !.slept = FALSE]
    BY <1>1 DEF Touch
  <2> QED BY <1>1, <2>1 DEF Fakelags, Spent, Burst
<1>2. CASE fl.enabled /\ budgeted /\ fl.budget > 0
  <2>1. t = [fl EXCEPT !.budget = @ - 1, !.slept = FALSE]
    BY <1>2 DEF Touch
  <2>4. fl.budget - 1 \in 0..CommandBudget
    BY <1>2, MessagesAssumption DEF Fakelags
  <2>2. /\ t \in Fakelags /\ t.enabled = fl.enabled /\ t.suspended = fl.suspended
        /\ t.budget = fl.budget - 1 /\ t.state = fl.state /\ t.burst = fl.burst
    BY <2>1, <2>4 DEF Fakelags
  <2>6. fl.budget \in 0..CommandBudget /\ fl.burst \in Nat
    BY DEF Fakelags
  <2>5. fl.budget \in Nat /\ fl.burst \in Nat
    BY <2>6, MessagesAssumption
  <2>7. Burst(t) = Burst(fl) /\ Burst(fl) \in Nat
    BY <2>2, <2>5, MessagesAssumption DEF Burst
  <2>3. Spent(t) = Spent(fl) + 1
    <3>1. CommandBudget \in Nat
      BY MessagesAssumption
    <3>2. Spent(t) = CommandBudget - (fl.budget - 1) + Burst(fl) /\ Spent(fl) = CommandBudget - fl.budget + Burst(fl)
      BY Zenon, <2>2, <2>7 DEF Spent
    <3> QED BY <2>5, <2>7, <3>1, <3>2
  <2>8. Spent(fl) \in Int
    BY SpentBound
  <2>9. Spent(t) >= Spent(fl) + 1
    BY <2>3, <2>8
  <2> QED BY Zenon, <1>2, <2>2, <2>9
<1>3. CASE fl.enabled /\ ~(budgeted /\ fl.budget > 0) /\ fl.state = "bursting" /\ count > BurstLimit
  <2> DEFINE f == [fl EXCEPT !.burst = 0]
  <2>1. t = Throttle(f, elapsed)
    BY <1>3 DEF Touch
  <2>2. f \in Fakelags /\ f.enabled = fl.enabled /\ f.suspended = fl.suspended
    BY DEF Fakelags
  <2> HIDE DEF f
  <2>3. /\ t \in Fakelags /\ t.enabled = fl.enabled /\ t.suspended = fl.suspended
        /\ elapsed = "short" => t.slept
    BY <2>1, <2>2, ThrottleDelays
  <2> QED BY <1>3, <2>3
<1>4. CASE fl.enabled /\ ~(budgeted /\ fl.budget > 0) /\ fl.state = "bursting" /\ ~(count > BurstLimit)
  <2>1. t = [fl EXCEPT !.burst = count, !.slept = FALSE]
    BY <1>4 DEF Touch
  <2>2. count \in Nat /\ (elapsed = "short" => count = fl.burst + 1)
    BY DEF Fakelags
  <2> HIDE DEF count
  <2>3. /\ t \in Fakelags /\ t.enabled = fl.enabled /\ t.suspended = fl.suspended
        /\ t.budget = fl.budget /\ t.state = fl.state /\ t.burst = count
    BY <2>1, <2>2 DEF Fakelags
  <2>4. elapsed = "short" => Spent(t) = Spent(fl) + 1
    <3>1. count <= BurstLimit
      BY <1>4, <2>2, MessagesAssumption
    <3> QED BY <1>4, <2>2, <2>3, <3>1, MessagesAssumption DEF Fakelags, Spent, Burst
  <2> QED BY <1>4, <2>3, <2>4, SpentBound
<1>5. CASE fl.enabled /\ ~(budgeted /\ fl.budget > 0) /\ fl.state = "throttled"
  <2>1. t = Throttle(fl, elapsed)
    BY <1>5 DEF Touch
  <2>2. /\ t \in Fakelags /\ t.enabled = fl.enabled /\ t.suspended = fl.suspended
        /\ elapsed = "short" => t.slept
    BY <2>1, ThrottleDelays
  <2> QED BY Zenon, <1>5, <2>2
<1> QED BY <1>1, <1>2, <1>3, <1>4, <1>5 DEF Fakelags

(* Suspending and resuming costs nothing.                                  *)
LEMMA SwitchSpends ==
  ASSUME NEW fl \in Fakelags, NEW f \in {SuspendFakelag(fl), Unsuspend(fl), fl}
  PROVE  f \in Fakelags /\ Spent(f) = Spent(fl) /\ f.slept = fl.slept
BY DEF SuspendFakelag, Unsuspend, Fakelags, Spent, Burst

(* What a command does to the batch and to fakelag.                        *)
Same(ses, r) == r.multiline.tag = ses.multiline.tag /\ r.fl = ses.fl /\ r.bill = ses.bill
Ended(ses, r) == r.multiline.tag = "" /\ r.fl = Unsuspend(ses.fl) /\ r.bill = 1
Started(ses, r) ==
  ses.multiline.tag = "" /\ r.multiline.tag = "a" /\ r.fl = SuspendFakelag(ses.fl) /\ r.bill = ses.bill

Proceeds(ses, r) == r \in Sessions /\ OneBatch(r) /\ (Same(ses, r) \/ Ended(ses, r) \/ Started(ses, r))

LEMMA EndProceeds ==
  ASSUME NEW ses \in Sessions
  PROVE  /\ EndMultilineBatch(ses) \in Sessions /\ Ended(ses, EndMultilineBatch(ses))
         /\ OneBatch(EndMultilineBatch(ses))
<1>1. Unsuspend(ses.fl) \in Fakelags
  BY SwitchSpends DEF Sessions
<1>2. NoBatch \in Batches /\ NoBatch.tag = ""
  BY DEF NoBatch, Batches
<1> QED BY <1>1, <1>2 DEF EndMultilineBatch, Ended, Sessions, OneBatch

LEMMA TokenProceeds ==
  ASSUME NEW ses \in Sessions, OneBatch(ses), NEW b \in Batches,
         ses.multiline.tag = "" \/ b.tag \in {"", ses.token.tag}
  PROVE  Proceeds(ses, [ses EXCEPT !.token = b]) /\ Proceeds(ses, ses)
BY DEF Proceeds, Same, Sessions, OneBatch

LEMMA BatchProceeds ==
  ASSUME NEW ses \in Sessions, OneBatch(ses), NEW rb, rb.label \in Nat, NEW m \in Lines("BATCH")
  PROVE  Proceeds(ses, batchHandler(ses, rb, m).ses)
<1>1. m.op = "+" /\ m.tag # "invalid" => m.tag = "a"
  BY DEF Lines
<1>2. NoBatch \in Batches /\ NoBatch.tag = ""
  BY DEF NoBatch, Batches
<1> DEFINE res == batchHandler(ses, rb, m).ses
           open == ses.multiline.tag # "" \/ ses.token.tag # ""
           ended == EndMultilineBatch(ses)
           tokenless == [ses EXCEPT !.token = NoBatch]
<1>3. ended \in Sessions /\ Ended(ses, ended) /\ OneBatch(ended)
  BY EndProceeds
<1>4. Proceeds(ses, tokenless) /\ Proceeds(ses, ses)
  BY <1>2, TokenProceeds
<1>5. CASE m.tag # "invalid" /\ m.op = "+" /\ ~open /\ m.type = "multiline"
  <2>1. res \in {ended, StartMultilineBatch(ses, m.tag, rb.label)}
    BY <1>5 DEF batchHandler, batchHandlerMultiline, Result
  <2>2. [NoBatch EXCEPT !.tag = m.tag, !.label = rb.label] \in Batches
    BY <1>1, <1>5 DEF NoBatch, Batches
  <2>3. SuspendFakelag(ses.fl) \in Fakelags
    BY SwitchSpends DEF Sessions
  <2>4. Proceeds(ses, StartMultilineBatch(ses, m.tag, rb.label))
    BY <1>1, <1>5, <2>2, <2>3 DEF StartMultilineBatch, NoBatch, Sessions, Proceeds, Started, OneBatch
  <2> QED BY <1>3, <2>1, <2>4 DEF Proceeds
<1>6. CASE m.tag # "invalid" /\ m.op = "+" /\ ~open /\ m.type = "token"
  <2>1. res \in {ses, [ses EXCEPT !.token = [NoBatch EXCEPT !.tag = m.tag, !.label = rb.label]]}
    BY <1>6 DEF batchHandler, batchHandlerTokenStart, failBatch, Result
  <2>2. [NoBatch EXCEPT !.tag = m.tag, !.label = rb.label] \in Batches
    BY <1>1, <1>6 DEF NoBatch, Batches
  <2> QED BY <1>6, <2>1, <2>2, TokenProceeds
<1>7. CASE m.tag # "invalid" /\ m.op = "-" /\ ses.multiline.tag # ""
  <2>1. res = ended
    BY <1>7 DEF batchHandler, batchHandlerMultiline, Result
  <2> QED BY <1>3, <2>1 DEF Proceeds
<1>8. CASE m.tag # "invalid" /\ m.op = "-" /\ ses.multiline.tag = "" /\ ses.token.tag # ""
  <2>1. res = tokenless
    BY <1>8 DEF batchHandler, batchHandlerTokenEnd, failBatch, Result
  <2> QED BY <1>4, <2>1
<1>9. CASE m.tag = "invalid" \/ (m.op = "+" /\ open) \/ (m.op = "-" /\ ~open)
  <2>1. res = [ended EXCEPT !.token = NoBatch]
    BY <1>9 DEF batchHandler, failBatch, Result
  <2> QED BY <1>2, <1>3, <2>1 DEF Proceeds, Ended, Sessions, OneBatch
<1>10. m.op \in {"+", "-"} /\ (m.op = "+" => m.type \in {"multiline", "token"})
  BY DEF Lines
<1> QED BY <1>5, <1>6, <1>7, <1>8, <1>9, <1>10

LEMMA MessageProceeds ==
  ASSUME NEW ses \in Sessions, OneBatch(ses), NEW rb, NEW m \in Lines("MESSAGE")
  PROVE  Proceeds(ses, messageHandler(ses, rb, m).ses)
<1> DEFINE ok == [ses EXCEPT !.multiline.lines = @ + 1, !.multiline.notice = m.notice]
<1>1. messageHandler(ses, rb, m).ses \in {ses, ok, EndMultilineBatch(ses)}
  BY DEF messageHandler, absorbBatchedMessage, Result
<1>2. m.notice \in BOOLEAN
  BY DEF Lines
<1>3. Proceeds(ses, ok)
  <2>4. ses.multiline \in Batches
    BY DEF Sessions
  <2>5. ses.multiline.lines \in Nat
    BY <2>4 DEF Batches
  <2>3. ses.multiline.lines + 1 \in Nat
    BY <2>5
  <2>1. /\ [ses.multiline EXCEPT !.lines = @ + 1, !.notice = m.notice] \in Batches
        /\ [ses.multiline EXCEPT !.lines = @ + 1, !.notice = m.notice].tag = ses.multiline.tag
    BY <1>2, <2>3, <2>4 DEF Batches
  <2>2. ok = [ses EXCEPT !.multiline = [ses.multiline EXCEPT !.lines = @ + 1, !.notice = m.notice]]
    BY DEF Sessions, Batches
  <2> HIDE DEF ok
  <2> QED BY <2>1, <2>2 DEF Proceeds, Same, Sessions, OneBatch
<1> QED BY <1>1, <1>3, EndProceeds DEF Proceeds, Same

LEMMA TokenCommandProceeds ==
  ASSUME NEW ses \in Sessions, OneBatch(ses), NEW rb, NEW m \in Lines("TOKEN")
  PROVE  Proceeds(ses, tokenHandler(ses, rb, m).ses)
<1> DEFINE chunk == [ses EXCEPT !.token.lines = @ + 1]
           tokenless == [ses EXCEPT !.token = NoBatch]
<1>1. m.type \in {"servicelist", "generate", "validate", "unknown"}
  BY DEF Lines
<1>2. tokenHandler(ses, rb, m).ses \in {ses, chunk, tokenless}
  <2>1. CASE m.type # "validate"
    BY <1>1, <2>1 DEF tokenHandler, Result
  <2>2. CASE m.type = "validate"
    <3>1. ses.token.lines \in Nat
      BY DEF Sessions, Batches
    <3>2. tokenValidateHandler(ses, rb, m).ses \in {ses, chunk, tokenless}
      <4>1. CASE ~HasCap("batch") \/ m.short
        BY <4>1 DEF tokenValidateHandler, Result
      <4>2. CASE HasCap("batch") /\ ~m.short /\ m.tag = ""
        BY <4>2 DEF tokenValidateHandler, Result
      <4>3. CASE HasCap("batch") /\ ~m.short /\ m.tag # "" /\ m.tag # ses.token.tag
        BY <4>3 DEF tokenValidateHandler, Result
      <4>4. CASE HasCap("batch") /\ ~m.short /\ m.tag # "" /\ m.tag = ses.token.tag
        <5>1. tokenValidateHandler(ses, rb, m) =
                CASE m.tag # ses.token.tag -> Result(ses, rb)
                  [] m.tag = ses.token.tag /\ ses.token.lines < MaxTokenChunks -> Result(chunk, rb)
                  [] m.tag = ses.token.tag /\ ses.token.lines >= MaxTokenChunks ->
                       failBatch(tokenless, rb)
          BY <4>4 DEF tokenValidateHandler
        <5> HIDE DEF chunk, tokenless
        <5>2. CASE ses.token.lines < MaxTokenChunks
          <6>1. ~(ses.token.lines >= MaxTokenChunks)
            BY <3>1, <5>2, MessagesAssumption
          <6>2. tokenValidateHandler(ses, rb, m) = Result(chunk, rb)
            BY Zenon, <4>4, <5>1, <5>2, <6>1
          <6> QED BY <6>2 DEF Result
        <5>3. CASE ses.token.lines >= MaxTokenChunks
          <6>1. ~(ses.token.lines < MaxTokenChunks)
            BY <3>1, <5>3, MessagesAssumption
          <6>2. tokenValidateHandler(ses, rb, m) = failBatch(tokenless, rb)
            BY Zenon, <4>4, <5>1, <5>3, <6>1
          <6> QED BY <6>2 DEF failBatch, Result
        <5> QED BY <3>1, <5>2, <5>3, MessagesAssumption
      <4> QED BY <4>1, <4>2, <4>3, <4>4
    <3> QED BY <2>2, <3>2 DEF tokenHandler
  <2> QED BY <2>1, <2>2
<1>3. Proceeds(ses, chunk)
  <2>4. ses.token \in Batches
    BY DEF Sessions
  <2>5. ses.token.lines \in Nat
    BY <2>4 DEF Batches
  <2>3. ses.token.lines + 1 \in Nat
    BY <2>5
  <2>1. /\ [ses.token EXCEPT !.lines = @ + 1] \in Batches
        /\ [ses.token EXCEPT !.lines = @ + 1].tag = ses.token.tag
    BY <2>3, <2>4 DEF Batches
  <2>2. chunk = [ses EXCEPT !.token = [ses.token EXCEPT !.lines = @ + 1]]
    BY DEF Sessions, Batches
  <2> QED BY <2>1, <2>2, TokenProceeds
<1>4. NoBatch \in Batches /\ NoBatch.tag = ""
  BY DEF NoBatch, Batches
<1> QED BY <1>2, <1>3, <1>4, TokenProceeds

LEMMA CommandProceeds ==
  ASSUME NEW ses \in Sessions, OneBatch(ses), NEW rb, rb.label \in Nat,
         NEW command \in {"BATCH", "MESSAGE", "TOKEN", "OTHER"}, NEW m \in Lines(command)
  PROVE  Proceeds(ses, RunCommand(ses, rb, m).ses)
<1>1. m.command = command
  BY DEF Lines
<1>2. NoBatch \in Batches /\ NoBatch.tag = ""
  BY DEF NoBatch, Batches
<1>3. CASE ses.multiline.tag # "" /\ m.command \notin {"BATCH", "MESSAGE"}
  <2>3. ses.token.tag = ""
    BY <1>3 DEF OneBatch
  <2>1. RunCommand(ses, rb, m) = Result(EndMultilineBatch(ses), Reply(rb))
    BY Zenon, <1>3, <2>3 DEF RunCommand
  <2>2. RunCommand(ses, rb, m).ses = EndMultilineBatch(ses)
    BY <2>1 DEF Result
  <2> QED BY <2>2, EndProceeds DEF Proceeds
<1>4. CASE /\ ~(ses.multiline.tag # "" /\ m.command \notin {"BATCH", "MESSAGE"})
           /\ ses.token.tag # "" /\ m.command \notin {"BATCH", "TOKEN"}
  <2>1. RunCommand(ses, rb, m).ses = [ses EXCEPT !.token = NoBatch]
    BY <1>4 DEF RunCommand, Result
  <2> QED BY <1>2, <2>1, TokenProceeds
<1>5. CASE /\ ~(ses.multiline.tag # "" /\ m.command \notin {"BATCH", "MESSAGE"})
           /\ ~(ses.token.tag # "" /\ m.command \notin {"BATCH", "TOKEN"})
  <2>1. CASE command = "BATCH"
    BY <1>1, <1>5, <2>1, BatchProceeds DEF RunCommand
  <2>2. CASE command = "MESSAGE"
    BY <1>1, <1>5, <2>2, MessageProceeds DEF RunCommand
  <2>3. CASE command = "TOKEN"
    BY <1>1, <1>5, <2>3, TokenCommandProceeds DEF RunCommand
  <2>4. CASE command = "OTHER"
    <3>1. RunCommand(ses, rb, m).ses = ses
      BY <1>1, <1>5, <2>4 DEF RunCommand, Result
    <3> QED BY <1>2, <3>1, TokenProceeds
  <2> QED BY <2>1, <2>2, <2>3, <2>4
<1> QED BY <1>3, <1>4, <1>5

(* The session after fakelag and before the command, and after the bill.   *)
Touched(old, command, elapsed, touched) ==
  touched = [old EXCEPT !.n = @ + 1, !.bill = 0, !.fl = Touch(@, command = "OTHER", elapsed)]

Billed(s, new) == new = [s EXCEPT !.fl = IF s.bill = 0 THEN @ ELSE Touch(@, FALSE, "short"), !.bill = 0]

(* A round leaves the switch as the batch requires, however the batch      *)
(* ended, and a command that was not delayed has been paid for.            *)
LEMMA RoundProceeds ==
  ASSUME NEW old \in Sessions, OneBatch(old), nofakelag \in BOOLEAN,
         NEW command \in {"BATCH", "MESSAGE", "TOKEN", "OTHER"}, NEW elapsed \in {"short", "spaced", "long"},
         NEW touched, Touched(old, command, elapsed, touched),
         NEW s, Proceeds(touched, s),
         NEW new, Billed(s, new)
  PROVE  /\ new \in Sessions /\ OneBatch(new)
         /\ SwitchInv(old) => SwitchInv(new)
         /\ touched.fl.enabled /\ ~touched.fl.slept /\ ~new.fl.slept /\ elapsed = "short" => Spent(new.fl) >= Spent(old.fl) + 1
<1> DEFINE t == Touch(old.fl, command = "OTHER", elapsed)
           g == IF s.bill = 0 THEN s.fl ELSE Touch(s.fl, FALSE, "short")
<1>1. old.fl \in Fakelags /\ old.n \in Nat /\ old.n + 1 \in Nat
  BY DEF Sessions
<1>2. /\ t \in Fakelags /\ t.enabled = old.fl.enabled /\ t.suspended = old.fl.suspended
      /\ old.fl.enabled /\ elapsed = "short" /\ ~t.slept => Spent(t) >= Spent(old.fl) + 1
  <2>1. (command = "OTHER") \in BOOLEAN
    OBVIOUS
  <2> QED BY <1>1, <2>1, TouchSpends
<1> HIDE DEF t
<1>3. /\ touched \in Sessions /\ touched.fl = t /\ touched.bill = 0
      /\ touched.multiline = old.multiline /\ touched.token = old.token
  <2>1. touched = [old EXCEPT !.n = @ + 1, !.bill = 0, !.fl = t]
    BY DEF t, Touched
  <2> QED BY <1>1, <1>2, <2>1 DEF Sessions
<1>4. s \in Sessions /\ OneBatch(s) /\ s.fl \in {SuspendFakelag(t), Unsuspend(t), t} /\ s.fl \in Fakelags
  BY <1>3 DEF Proceeds, Same, Ended, Started, Sessions
<1>5. Spent(s.fl) = Spent(t)
  BY <1>2, <1>4, SwitchSpends
<1>6. /\ g \in Fakelags /\ g.enabled = s.fl.enabled /\ g.suspended = s.fl.suspended
      /\ ~g.slept => g = s.fl \/ Spent(g) >= Spent(s.fl)
  <2>1. CASE s.bill = 0
    BY <1>4, <2>1
  <2>2. CASE s.bill # 0
    <3>1. g = Touch(s.fl, FALSE, "short")
      BY <2>2
    <3> HIDE DEF g
    <3>2. /\ g \in Fakelags /\ g.enabled = s.fl.enabled /\ g.suspended = s.fl.suspended
          /\ s.fl.enabled /\ ~g.slept => Spent(g) >= Spent(s.fl) + 1
          /\ ~s.fl.enabled => Spent(g) = Spent(s.fl)
      BY <1>4, <3>1, TouchSpends
    <3>3. Spent(g) \in Int /\ Spent(s.fl) \in Int
      BY <1>4, <3>2, SpentBound
    <3>4. Spent(g) >= Spent(s.fl) + 1 \/ Spent(g) = Spent(s.fl) => Spent(g) >= Spent(s.fl)
      BY <3>3
    <3> QED BY Zenon, <3>2, <3>4
  <2> QED BY <2>1, <2>2
<1> HIDE DEF g
<1>7. new \in Sessions /\ new.fl = g /\ new.multiline = s.multiline /\ new.token = s.token
  <2>1. new = [s EXCEPT !.fl = g, !.bill = 0]
    BY <1>4 DEF g, Sessions, Billed
  <2> QED BY <1>4, <1>6, <2>1 DEF Sessions
<1>8. OneBatch(new)
  BY <1>4, <1>7 DEF OneBatch
<1>9. ASSUME SwitchInv(old)
      PROVE  SwitchInv(new)
  <2>1. /\ t.enabled = (touched.multiline.tag = "" /\ ~nofakelag)
        /\ t.suspended = (touched.multiline.tag # "" /\ ~nofakelag)
    BY <1>2, <1>3, <1>9 DEF SwitchInv
  <2>2. /\ s.fl.enabled = (s.multiline.tag = "" /\ ~nofakelag)
        /\ s.fl.suspended = (s.multiline.tag # "" /\ ~nofakelag)
    <3>1. CASE Same(touched, s)
      BY <1>3, <2>1, <3>1 DEF Same
    <3>2. CASE Ended(touched, s)
      BY <1>2, <1>3, <1>9, <2>1, <3>2 DEF Ended, Unsuspend, Fakelags
    <3>3. CASE Started(touched, s)
      BY <1>2, <1>3, <1>9, <2>1, <3>3 DEF Started, SuspendFakelag, Fakelags
    <3> QED BY <3>1, <3>2, <3>3 DEF Proceeds
  <2> QED BY Zenon, <1>6, <1>7, <2>2 DEF SwitchInv
<1>10. ASSUME touched.fl.enabled, ~touched.fl.slept, ~new.fl.slept, elapsed = "short"
       PROVE  Spent(new.fl) >= Spent(old.fl) + 1
  <2>1. Spent(t) >= Spent(old.fl) + 1
    BY <1>2, <1>3, <1>10
  <2>2. Spent(g) \in Int /\ Spent(t) \in Int /\ Spent(old.fl) \in Int
    BY <1>1, <1>2, <1>6, SpentBound
  <2>3. Spent(g) >= Spent(t)
    <3>1. g = s.fl \/ Spent(g) >= Spent(s.fl)
      BY Zenon, <1>6, <1>7, <1>10
    <3>2. CASE g = s.fl
      BY <1>5, <2>2, <3>2
    <3> QED BY <1>5, <3>1, <3>2
  <2>4. Spent(g) >= Spent(old.fl) + 1
    BY <2>1, <2>2, <2>3
  <2> QED BY Zenon, <1>7, <2>4
<1> QED BY <1>7, <1>8, <1>9, <1>10

LEMMA InitMessages == MessagesInit => FakelagInv
<1> SUFFICES ASSUME MessagesInit PROVE FakelagInv
  OBVIOUS
<1> DEFINE fl0 == [enabled |-> TRUE, suspended |-> FALSE, state |-> "bursting", burst |-> 0, budget |-> CommandBudget, slept |-> FALSE]
<1>1. CommandBudget \in 0..CommandBudget
  BY MessagesAssumption
<1>2. fl0 \in Fakelags /\ fl0.enabled = TRUE /\ fl0.suspended = FALSE
  BY <1>1 DEF Fakelags
<1>3. NoBatch \in Batches /\ NoBatch.tag = ""
  BY DEF NoBatch, Batches
<1>4. cmdSession = [multiline |-> NoBatch, token |-> NoBatch, bill |-> 0, n |-> 0, fl |-> fl0]
  BY DEF MessagesInit
<1> HIDE DEF fl0
<1>5. cmdSession \in Sessions /\ cmdSession.multiline = NoBatch /\ cmdSession.token = NoBatch /\ cmdSession.fl = fl0
  BY <1>2, <1>3, <1>4 DEF Sessions
<1>6. nofakelag = FALSE /\ foreign = FALSE /\ quick = 0
  BY DEF MessagesInit
<1>7. quick <= Spent(cmdSession.fl)
  BY <1>2, <1>5, <1>6, SpentBound
<1> QED BY <1>2, <1>3, <1>5, <1>6, <1>7 DEF FakelagInv, MessagesType, OneBatch, SwitchInv

LEMMA NextMessages == FakelagInv /\ [MessagesNext]_messageVars => FakelagInv'
<1> SUFFICES ASSUME FakelagInv, [MessagesNext]_messageVars PROVE FakelagInv'
  OBVIOUS
<1>1. cmdSession \in Sessions /\ OneBatch(cmdSession) /\ nofakelag \in BOOLEAN /\ foreign \in BOOLEAN /\ quick \in Nat
  BY DEF FakelagInv, MessagesType
<1>2. ASSUME NEW command \in {"BATCH", "MESSAGE", "TOKEN", "OTHER"}, RunLoop(command)
      PROVE  FakelagInv'
  <2>1. PICK m \in Lines(command), elapsed \in {"short", "spaced", "long"}, labelled \in {FALSE, HasCap("labeled-response")} :
          \E label \in {IF labelled THEN cmdSession.n + 1 ELSE 0},
             touched \in {[cmdSession EXCEPT !.n = @ + 1, !.bill = 0, !.fl = Touch(@, command = "OTHER", elapsed)]} :
          \E r \in {RunCommand(touched, NewResponseBuffer(label), m)} :
            Settle(m, elapsed, labelled, label, touched, r, flushInternal(r.rb, TRUE).sent)
    BY Zenon, <1>2 DEF RunLoop
  <2>2. PICK label \in {IF labelled THEN cmdSession.n + 1 ELSE 0},
             touched \in {[cmdSession EXCEPT !.n = @ + 1, !.bill = 0, !.fl = Touch(@, command = "OTHER", elapsed)]} :
          \E r \in {RunCommand(touched, NewResponseBuffer(label), m)} :
            Settle(m, elapsed, labelled, label, touched, r, flushInternal(r.rb, TRUE).sent)
    BY Zenon, <2>1
  <2>3. PICK r \in {RunCommand(touched, NewResponseBuffer(label), m)} :
          Settle(m, elapsed, labelled, label, touched, r, flushInternal(r.rb, TRUE).sent)
    BY Zenon, <2>2
  <2>14. r = RunCommand(touched, NewResponseBuffer(label), m) /\ Touched(cmdSession, command, elapsed, touched)
    BY Zenon DEF Touched
  <2>15. quick' = IF ~touched.fl.enabled \/ touched.fl.slept \/ cmdSession'.fl.slept \/ elapsed # "short" THEN 0 ELSE quick + 1
    BY Zenon, <2>3 DEF Settle
  <2>16. Billed(r.ses, cmdSession')
    BY Zenon, <2>3 DEF Settle, Billed
  <2>4. label \in Nat
    BY <1>1 DEF Sessions
  <2>5. NewResponseBuffer(label).label \in Nat
    BY <2>4 DEF NewResponseBuffer
  <2>7. touched \in Sessions /\ OneBatch(touched)
    <3>1. cmdSession.fl \in Fakelags /\ cmdSession.n + 1 \in Nat
      BY <1>1 DEF Sessions
    <3> DEFINE t == Touch(cmdSession.fl, command = "OTHER", elapsed)
    <3>2. t \in Fakelags
      BY <3>1, TouchSpends
    <3> HIDE DEF t
    <3>3. touched = [cmdSession EXCEPT !.n = @ + 1, !.bill = 0, !.fl = t]
      BY <2>14 DEF t, Touched
    <3> QED BY <1>1, <3>1, <3>2, <3>3 DEF Sessions, OneBatch
  <2>8. Proceeds(touched, r.ses)
    <3>1. Proceeds(touched, RunCommand(touched, NewResponseBuffer(label), m).ses)
      BY <2>5, <2>7, CommandProceeds
    <3> QED BY Zenon, <2>14, <3>1
  <2>9. /\ cmdSession' \in Sessions /\ OneBatch(cmdSession')
        /\ SwitchInv(cmdSession) => SwitchInv(cmdSession')
        /\ touched.fl.enabled /\ ~touched.fl.slept /\ ~cmdSession'.fl.slept /\ elapsed = "short"
             => Spent(cmdSession'.fl) >= Spent(cmdSession.fl) + 1
    <3> DEFINE Concl(tt, new) ==
                 /\ new \in Sessions /\ OneBatch(new)
                 /\ SwitchInv(cmdSession) => SwitchInv(new)
                 /\ tt.fl.enabled /\ ~tt.fl.slept /\ ~new.fl.slept /\ elapsed = "short"
                      => Spent(new.fl) >= Spent(cmdSession.fl) + 1
    <3>1. \A tt, ss, new : Touched(cmdSession, command, elapsed, tt) /\ Proceeds(tt, ss) /\ Billed(ss, new) => Concl(tt, new)
      BY <1>1, RoundProceeds
    <3> HIDE DEF Concl
    <3>2. Concl(touched, cmdSession')
      BY Zenon, <2>8, <2>14, <2>16, <3>1
    <3> QED BY Zenon, <3>2 DEF Concl
  <2>10. nofakelag' = nofakelag /\ foreign' = foreign
    BY Zenon, <1>2 DEF RunLoop
  <2>11. Spent(cmdSession.fl) \in Nat /\ Spent(cmdSession'.fl) \in Nat /\ quick <= Spent(cmdSession.fl)
    <3>1. cmdSession.fl \in Fakelags /\ cmdSession'.fl \in Fakelags
      BY <1>1, <2>9 DEF Sessions
    <3>2. quick <= Spent(cmdSession.fl)
      BY DEF FakelagInv
    <3> QED BY <3>1, <3>2, SpentBound
  <2>12. quick' \in Nat /\ quick' <= Spent(cmdSession'.fl)
    <3>1. CASE ~touched.fl.enabled \/ touched.fl.slept \/ cmdSession'.fl.slept \/ elapsed # "short"
      <4>1. quick' = 0
        BY Zenon, <2>15, <3>1
      <4> QED BY <2>11, <4>1
    <3>2. CASE ~(~touched.fl.enabled \/ touched.fl.slept \/ cmdSession'.fl.slept \/ elapsed # "short")
      <4>1. quick' = quick + 1
        BY Zenon, <2>15, <3>2
      <4>2. Spent(cmdSession'.fl) >= Spent(cmdSession.fl) + 1
        BY Zenon, <2>9, <3>2
      <4> QED BY <1>1, <2>11, <4>1, <4>2
    <3> QED BY <3>1, <3>2
  <2>13. ~foreign' => SwitchInv(cmdSession)'
    BY <2>9, <2>10 DEF FakelagInv, SwitchInv
  <2> QED BY <1>1, <2>9, <2>10, <2>12, <2>13 DEF FakelagInv, MessagesType, OneBatch
<1>3. ASSUME NEW here \in BOOLEAN, applyOper(here)
      PROVE  FakelagInv'
  <2> DEFINE f == FakelagInitialize(cmdSession.fl, nofakelag)
  <2>1. cmdSession.fl \in Fakelags /\ cmdSession.n + 1 \in Nat /\ CommandBudget \in 0..CommandBudget
    BY <1>1, MessagesAssumption DEF Sessions
  <2>2. f \in Fakelags /\ f.enabled = nofakelag /\ f.suspended = cmdSession.fl.suspended
    BY <1>1, <2>1 DEF FakelagInitialize, Fakelags
  <2>3. cmdSession' = [cmdSession EXCEPT !.fl = f, !.n = @ + 1]
    BY <1>3 DEF applyOper
  <2> HIDE DEF f
  <2>4. /\ cmdSession' \in Sessions /\ cmdSession'.fl = f
        /\ cmdSession'.multiline = cmdSession.multiline /\ cmdSession'.token = cmdSession.token
    BY <1>1, <2>1, <2>2, <2>3 DEF Sessions
  <2>5. nofakelag' = ~nofakelag /\ quick' = 0 /\ foreign' = (foreign \/ cmdSession.multiline # NoBatch)
    BY <1>3 DEF applyOper
  <2>6. quick' <= Spent(cmdSession'.fl)
    BY <2>2, <2>4, <2>5, SpentBound
  <2>7. ASSUME ~foreign' PROVE SwitchInv(cmdSession)'
    <3>1. ~foreign /\ cmdSession.multiline.tag = ""
      <4>1. ~foreign /\ cmdSession.multiline = NoBatch
        BY Zenon, <1>1, <2>5, <2>7
      <4>2. NoBatch.tag = ""
        BY DEF NoBatch
      <4> QED BY Zenon, <4>1, <4>2
    <3>2. SwitchInv(cmdSession)
      BY <3>1 DEF FakelagInv
    <3> QED BY <1>1, <2>2, <2>4, <2>5, <3>1, <3>2 DEF SwitchInv
  <2> QED BY <1>1, <2>4, <2>5, <2>6, <2>7 DEF FakelagInv, MessagesType, OneBatch
<1>4. CASE UNCHANGED messageVars
  BY <1>4 DEF FakelagInv, MessagesType, OneBatch, SwitchInv, messageVars
<1> QED BY <1>2, <1>3, <1>4 DEF MessagesNext

(* Fakelag is off exactly during a multiline batch and for exempt operators, *)
(* and a client that does not pause is delayed after its burst and budget, *)
(* for any limits and any lines: batches opened, failed, ended or dropped  *)
(* in every way, except after OPER or DEOPER in another session during a   *)
(* batch (RunCommand, batchHandler, Touch, Suspend, Unsuspend).            *)
THEOREM MessagesFakelagExact == MessagesSpec => []FakelagExact
<1>1. FakelagInv => FakelagExact
  <2> SUFFICES ASSUME FakelagInv, ~foreign
      PROVE  cmdSession.fl.enabled = (cmdSession.multiline.tag = "" /\ ~nofakelag) /\ quick <= BurstLimit + CommandBudget
    BY DEF FakelagExact
  <2>1. cmdSession.fl \in Fakelags /\ quick \in Nat /\ quick <= Spent(cmdSession.fl)
    BY DEF FakelagInv, MessagesType, Sessions
  <2>2. quick <= BurstLimit + CommandBudget
    BY <2>1, SpentBound, MessagesAssumption
  <2> QED BY <2>2 DEF FakelagInv, SwitchInv
<1> QED BY <1>1, InitMessages, NextMessages, PTL DEF MessagesSpec
-----------------------------------------------------------------------------
(* Messages: what a response buffer sends *)

WireLines == [kind : {"line", "start", "end"}, id : Nat, batch : Nat, label : Nat]

Begins(w, k, id) == w[k].kind = "start" /\ w[k].id = id
Ends(w, k, id) == w[k].kind = "end" /\ w[k].id = id

(* The batches in the lines `w`: `open` are those begun and not ended, and  *)
(* `next` and the later names are free.                                    *)
FreeNames(w, next) == \A k \in DOMAIN w : w[k].id < next

OnceEach(w) ==
  \A j, k \in DOMAIN w : w[j].kind # "line" /\ w[j].kind = w[k].kind /\ w[j].id = w[k].id => j = k

EndsAreBegun(w) == \A z \in DOMAIN w : w[z].kind = "end" => \E a \in DOMAIN w : a < z /\ Begins(w, a, w[z].id)

TagsAreInside(w) ==
  \A k \in DOMAIN w : w[k].batch # 0 =>
    /\ \E a \in DOMAIN w : a < k /\ Begins(w, a, w[k].batch)
    /\ \A z \in DOMAIN w : Ends(w, z, w[k].batch) => k < z

OpenAre(w, open) ==
  /\ \A id \in open : \E a \in DOMAIN w : Begins(w, a, id)
  /\ \A id \in open, z \in DOMAIN w : ~Ends(w, z, id)
  /\ \A a \in DOMAIN w : w[a].kind = "start" => w[a].id # 0 /\ (w[a].id \in open \/ \E z \in DOMAIN w : Ends(w, z, w[a].id))

Bracketed(w, open, next) ==
  FreeNames(w, next) /\ OnceEach(w) /\ EndsAreBegun(w) /\ TagsAreInside(w) /\ OpenAre(w, open)

(* At a line without a tag every batch begun before has been ended.        *)
Covered(w) ==
  \A k \in DOMAIN w : w[k].batch = 0 =>
    \A a \in DOMAIN w : a < k /\ w[a].kind = "start" => \E z \in DOMAIN w : z <= k /\ Ends(w, z, w[a].id)

(* `w` is a sequence of n lines.                                           *)
IsLines(w, n) == n \in Nat /\ DOMAIN w = 1..n /\ \A k \in 1..n : w[k] \in WireLines

(* `v` is `w` and m more lines.                                            *)
Continues(w, n, v, m) == IsLines(w, n) /\ m \in Nat /\ IsLines(v, n + m) /\ \A k \in 1..n : v[k] = w[k]

(* Tags stay inside when the new tags are of batches that stay open.       *)
LEMMA TagsKept ==
  ASSUME NEW w, NEW n, NEW v, NEW m, Continues(w, n, v, m), NEW open, NEW next, Bracketed(w, open, next),
         \A k \in (n + 1)..(n + m) : v[k].batch # 0 =>
           v[k].batch \in open /\ \A z \in (n + 1)..(n + m) : ~Ends(v, z, v[k].batch)
  PROVE  TagsAreInside(v)
<1>1. /\ n \in Nat /\ m \in Nat /\ DOMAIN w = 1..n /\ DOMAIN v = 1..(n + m)
      /\ \A k \in 1..n : v[k] = w[k]
  BY DEF Continues, IsLines
<1>2. /\ \A k \in 1..(n + m) : k \in 1..n \/ k \in (n + 1)..(n + m)
      /\ \A k \in 1..n : k \in 1..(n + m)
      /\ \A k \in (n + 1)..(n + m), a \in 1..n : a < k
  BY <1>1
<1>3. SUFFICES ASSUME NEW k \in 1..(n + m), v[k].batch # 0
      PROVE  /\ \E a \in 1..(n + m) : a < k /\ Begins(v, a, v[k].batch)
             /\ \A z \in 1..(n + m) : Ends(v, z, v[k].batch) => k < z
  BY <1>1 DEF TagsAreInside
<1>4. CASE k \in 1..n
  <2>1. /\ \E a \in 1..n : a < k /\ Begins(w, a, w[k].batch)
        /\ \A z \in 1..n : Ends(w, z, w[k].batch) => k < z
    BY <1>1, <1>3, <1>4 DEF Bracketed, TagsAreInside
  <2> QED BY <1>1, <1>2, <1>4, <2>1 DEF Begins, Ends
<1>5. CASE k \in (n + 1)..(n + m)
  <2>1. v[k].batch \in open /\ \A z \in (n + 1)..(n + m) : ~Ends(v, z, v[k].batch)
    BY <1>3, <1>5
  <2>2. PICK a \in 1..n : Begins(w, a, v[k].batch)
    BY <1>1, <2>1 DEF Bracketed, OpenAre
  <2>3. a \in 1..(n + m) /\ a < k /\ Begins(v, a, v[k].batch)
    BY <1>1, <1>2, <1>5, <2>2 DEF Begins
  <2>4. \A z \in 1..n : ~Ends(w, z, v[k].batch)
    BY <1>1, <2>1 DEF Bracketed, OpenAre
  <2> QED BY <1>1, <1>2, <2>1, <2>3, <2>4 DEF Ends
<1> QED BY <1>2, <1>4, <1>5

LEMMA AddLines ==
  ASSUME NEW w, NEW n, NEW v, NEW m, Continues(w, n, v, m),
         NEW open \in SUBSET Nat, NEW next \in Nat \ {0}, Bracketed(w, open, next), NEW b \in open \cup {0},
         \A k \in (n + 1)..(n + m) : v[k].kind = "line" /\ v[k].id = 0 /\ v[k].batch = b
  PROVE  /\ Bracketed(v, open, next)
         /\ Covered(w) /\ (b = 0 => open = {}) => Covered(v)
<1>1. /\ n \in Nat /\ m \in Nat /\ n + m \in Nat /\ DOMAIN w = 1..n /\ DOMAIN v = 1..(n + m)
      /\ \A k \in 1..n : k \in 1..(n + m) /\ v[k] = w[k]
  BY DEF Continues, IsLines
<1>2. \A k \in 1..(n + m) : k \in 1..n \/ k \in (n + 1)..(n + m)
  BY <1>1
<1>3. \A k \in (n + 1)..(n + m), a \in 1..n : a < k
  BY <1>1
<1>4. FreeNames(v, next)
  BY <1>1, <1>2 DEF Bracketed, FreeNames
<1>5. OnceEach(v)
  BY <1>1, <1>2 DEF Bracketed, OnceEach
<1>6. EndsAreBegun(v)
  BY <1>1, <1>2 DEF Bracketed, EndsAreBegun, Begins
<1>7. TagsAreInside(v)
  <2>1. \A k \in (n + 1)..(n + m) : v[k].batch # 0 =>
          v[k].batch \in open /\ \A z \in (n + 1)..(n + m) : ~Ends(v, z, v[k].batch)
    BY DEF Ends
  <2> QED BY <2>1, TagsKept
<1>8. OpenAre(v, open)
  <2>1. /\ \A i \in open : \E a \in 1..n : Begins(w, a, i)
        /\ \A i \in open, z \in 1..n : ~Ends(w, z, i)
        /\ \A a \in 1..n : w[a].kind = "start" => w[a].id # 0 /\ (w[a].id \in open \/ \E z \in 1..n : Ends(w, z, w[a].id))
    BY <1>1 DEF Bracketed, OpenAre
  <2>2. \A i \in open : \E a \in 1..(n + m) : Begins(v, a, i)
    BY <1>1, <2>1 DEF Begins
  <2>3. \A i \in open, z \in 1..(n + m) : ~Ends(v, z, i)
    BY <1>1, <1>2, <2>1 DEF Ends
  <2>4. \A a \in 1..(n + m) : v[a].kind = "start" =>
          v[a].id # 0 /\ (v[a].id \in open \/ \E z \in 1..(n + m) : Ends(v, z, v[a].id))
    BY <1>1, <1>2, <2>1 DEF Ends
  <2> QED BY <1>1, <2>2, <2>3, <2>4 DEF OpenAre
<1>9. ASSUME Covered(w), b = 0 => open = {}
      PROVE  Covered(v)
  <2>1. SUFFICES ASSUME NEW k \in 1..(n + m), v[k].batch = 0, NEW a \in 1..(n + m), a < k, v[a].kind = "start"
        PROVE  \E z \in 1..(n + m) : z <= k /\ Ends(v, z, v[a].id)
    BY <1>1 DEF Covered
  <2>2. a \in 1..n /\ w[a] = v[a]
    BY <1>1, <1>2, <2>1
  <2>3. CASE k \in 1..n
    BY <1>1, <1>9, <2>1, <2>2, <2>3 DEF Covered, Ends
  <2>4. CASE k \in (n + 1)..(n + m)
    <3>1. open = {}
      BY <1>9, <2>1, <2>4
    <3>2. PICK z \in 1..n : Ends(w, z, w[a].id)
      BY <1>1, <2>1, <2>2, <3>1 DEF Bracketed, OpenAre
    <3>3. z <= k
      BY <1>1, <2>4
    <3> QED BY <1>1, <2>2, <3>2, <3>3 DEF Ends
  <2> QED BY <1>2, <2>3, <2>4
<1> QED BY <1>4, <1>5, <1>6, <1>7, <1>8, <1>9 DEF Bracketed

LEMMA AddStart ==
  ASSUME NEW w, NEW n, NEW v, Continues(w, n, v, 1),
         NEW open \in SUBSET Nat, NEW next \in Nat \ {0}, Bracketed(w, open, next), NEW b \in open \cup {0},
         v[n + 1].kind = "start" /\ v[n + 1].id = next /\ v[n + 1].batch = b
  PROVE  /\ Bracketed(v, open \cup {next}, next + 1)
         /\ Covered(w) /\ (b = 0 => open = {}) => Covered(v)
<1>1. /\ n \in Nat /\ n + 1 \in Nat /\ DOMAIN w = 1..n /\ DOMAIN v = 1..(n + 1) /\ n + 1 \in 1..(n + 1)
      /\ \A k \in 1..n : k \in 1..(n + 1) /\ v[k] = w[k] /\ k < n + 1 /\ w[k].id \in Nat
  BY DEF Continues, IsLines, WireLines
<1>2. \A k \in 1..(n + 1) : k \in 1..n \/ k = n + 1
  BY <1>1
<1>3. \A k \in 1..n : w[k].id < next
  BY <1>1 DEF Bracketed, FreeNames
<1>4. FreeNames(v, next + 1)
  <2>1. \A i \in Nat : (i < next => i < next + 1) /\ next < next + 1
    OBVIOUS
  <2>2. \A k \in 1..(n + 1) : v[k].id < next + 1
    BY <1>1, <1>2, <1>3, <2>1
  <2> QED BY <1>1, <2>2 DEF FreeNames
<1>5. OnceEach(v)
  <2>1. SUFFICES ASSUME NEW j \in 1..(n + 1), NEW k \in 1..(n + 1), v[j].kind # "line", v[j].kind = v[k].kind, v[j].id = v[k].id
        PROVE  j = k
    BY <1>1 DEF OnceEach
  <2>2. CASE j \in 1..n /\ k \in 1..n
    BY <1>1, <2>1, <2>2 DEF Bracketed, OnceEach
  <2>3. CASE j = n + 1 /\ k \in 1..n
    BY <1>1, <1>3, <2>1, <2>3
  <2>4. CASE j \in 1..n /\ k = n + 1
    BY <1>1, <1>3, <2>1, <2>4
  <2> QED BY <1>2, <2>2, <2>3, <2>4
<1>6. EndsAreBegun(v)
  BY <1>1, <1>2 DEF Bracketed, EndsAreBegun, Begins
<1>7. TagsAreInside(v)
  <2>1. ASSUME NEW k \in 1..n, v[k].batch # 0
        PROVE  /\ \E a \in 1..(n + 1) : a < k /\ Begins(v, a, v[k].batch)
               /\ \A z \in 1..(n + 1) : Ends(v, z, v[k].batch) => k < z
    <3>1. /\ \E a \in 1..n : a < k /\ Begins(w, a, w[k].batch)
          /\ \A z \in 1..n : Ends(w, z, w[k].batch) => k < z
      BY <1>1, <2>1 DEF Bracketed, TagsAreInside
    <3> QED BY <1>1, <1>2, <3>1 DEF Begins, Ends
  <2>2. ASSUME v[n + 1].batch # 0
        PROVE  /\ \E a \in 1..(n + 1) : a < n + 1 /\ Begins(v, a, v[n + 1].batch)
               /\ \A z \in 1..(n + 1) : ~Ends(v, z, v[n + 1].batch)
    <3>1. b \in open /\ v[n + 1].batch = b
      BY <2>2
    <3>2. (\E a \in 1..n : Begins(w, a, b)) /\ (\A z \in 1..n : ~Ends(w, z, b))
      BY <1>1, <3>1 DEF Bracketed, OpenAre
    <3> QED BY <1>1, <1>2, <3>1, <3>2 DEF Begins, Ends
  <2> QED BY <1>1, <1>2, <2>1, <2>2 DEF TagsAreInside
<1>8. OpenAre(v, open \cup {next})
  <2>1. ASSUME NEW i \in open \cup {next} PROVE \E a \in 1..(n + 1) : Begins(v, a, i)
    <3>1. CASE i = next
      BY <1>1, <3>1 DEF Begins
    <3>2. CASE i \in open
      <4>1. PICK a \in 1..n : Begins(w, a, i)
        BY <1>1, <3>2 DEF Bracketed, OpenAre
      <4> QED BY <1>1, <4>1 DEF Begins
    <3> QED BY <3>1, <3>2
  <2>2. ASSUME NEW i \in open \cup {next}, NEW z \in 1..(n + 1) PROVE ~Ends(v, z, i)
    <3>1. CASE z = n + 1
      BY <3>1 DEF Ends
    <3>2. CASE z \in 1..n /\ i = next
      BY <1>1, <1>3, <3>2 DEF Ends
    <3>3. CASE z \in 1..n /\ i \in open
      <4>1. ~Ends(w, z, i)
        BY <1>1, <3>3 DEF Bracketed, OpenAre
      <4> QED BY <1>1, <3>3, <4>1 DEF Ends
    <3> QED BY <1>2, <3>1, <3>2, <3>3
  <2>3. ASSUME NEW a \in 1..(n + 1), v[a].kind = "start"
        PROVE  v[a].id # 0 /\ (v[a].id \in open \cup {next} \/ \E z \in 1..(n + 1) : Ends(v, z, v[a].id))
    <3>1. CASE a = n + 1
      BY <3>1
    <3>2. CASE a \in 1..n
      BY <1>1, <2>3, <3>2 DEF Bracketed, OpenAre, Ends
    <3> QED BY <1>2, <3>1, <3>2
  <2> QED BY <1>1, <2>1, <2>2, <2>3 DEF OpenAre
<1>9. ASSUME Covered(w), b = 0 => open = {}
      PROVE  Covered(v)
  <2>1. SUFFICES ASSUME NEW k \in 1..(n + 1), v[k].batch = 0, NEW a \in 1..(n + 1), a < k, v[a].kind = "start"
        PROVE  \E z \in 1..(n + 1) : z <= k /\ Ends(v, z, v[a].id)
    BY <1>1 DEF Covered
  <2>2. a \in 1..n /\ w[a] = v[a]
    BY <1>1, <1>2, <2>1
  <2>3. CASE k \in 1..n
    <3>1. w[k].batch = 0 /\ w[a].kind = "start"
      BY <1>1, <2>1, <2>2, <2>3
    <3>2. PICK z \in 1..n : z <= k /\ Ends(w, z, w[a].id)
      BY <1>1, <1>9, <2>1, <2>2, <2>3, <3>1 DEF Covered
    <3> QED BY <1>1, <2>2, <3>2 DEF Ends
  <2>4. CASE k = n + 1
    <3>1. open = {}
      BY <1>9, <2>1, <2>4
    <3>2. PICK z \in 1..n : Ends(w, z, w[a].id)
      BY <1>1, <2>1, <2>2, <3>1 DEF Bracketed, OpenAre
    <3>3. z <= k
      BY <1>1, <2>4
    <3> QED BY <1>1, <2>2, <3>2, <3>3 DEF Ends
  <2> QED BY <1>2, <2>3, <2>4
<1> QED BY <1>4, <1>5, <1>6, <1>7, <1>8, <1>9 DEF Bracketed

EndAdded(w, n, v, open, id, next, b) ==
  /\ Continues(w, n, v, 1) /\ open \in SUBSET Nat /\ id \in Nat /\ id \notin open
  /\ next \in Nat \ {0} /\ Bracketed(w, open \cup {id}, next) /\ b \in open \cup {0}
  /\ v[n + 1].kind = "end" /\ v[n + 1].id = id /\ v[n + 1].batch = b

LEMMA AddEnd ==
  ASSUME NEW w, NEW n, NEW v, NEW open, NEW id, NEW next, NEW b, EndAdded(w, n, v, open, id, next, b)
  PROVE  /\ Bracketed(v, open, next)
         /\ Covered(w) /\ (b = 0 => open = {}) => Covered(v)
<1> USE DEF EndAdded
<1>1. /\ n \in Nat /\ n + 1 \in Nat /\ DOMAIN w = 1..n /\ DOMAIN v = 1..(n + 1) /\ n + 1 \in 1..(n + 1)
      /\ \A k \in 1..n : k \in 1..(n + 1) /\ v[k] = w[k] /\ k < n + 1 /\ w[k].id \in Nat
  BY DEF Continues, IsLines, WireLines
<1>2. \A k \in 1..(n + 1) : k \in 1..n \/ k = n + 1
  BY <1>1
<1>3. /\ \A i \in open \cup {id} : \E a \in 1..n : Begins(w, a, i)
      /\ \A i \in open \cup {id}, z \in 1..n : ~Ends(w, z, i)
      /\ \A a \in 1..n : w[a].kind = "start" => w[a].id # 0 /\ (w[a].id \in open \cup {id} \/ \E z \in 1..n : Ends(w, z, w[a].id))
  BY <1>1 DEF Bracketed, OpenAre
<1>4. FreeNames(v, next)
  <2>1. \A k \in 1..n : w[k].id < next
    BY <1>1 DEF Bracketed, FreeNames
  <2>2. PICK s \in 1..n : Begins(w, s, id)
    BY <1>3
  <2> QED BY <1>1, <1>2, <2>1, <2>2 DEF FreeNames, Begins
<1>5. OnceEach(v)
  <2>1. SUFFICES ASSUME NEW j \in 1..(n + 1), NEW k \in 1..(n + 1), v[j].kind # "line", v[j].kind = v[k].kind, v[j].id = v[k].id
        PROVE  j = k
    BY <1>1 DEF OnceEach
  <2>2. CASE j \in 1..n /\ k \in 1..n
    BY <1>1, <2>1, <2>2 DEF Bracketed, OnceEach
  <2>3. CASE j = n + 1 /\ k \in 1..n
    BY <1>1, <1>3, <2>1, <2>3 DEF Ends
  <2>4. CASE j \in 1..n /\ k = n + 1
    BY <1>1, <1>3, <2>1, <2>4 DEF Ends
  <2> QED BY <1>2, <2>2, <2>3, <2>4
<1>6. EndsAreBegun(v)
  <2>1. SUFFICES ASSUME NEW z \in 1..(n + 1), v[z].kind = "end"
        PROVE  \E a \in 1..(n + 1) : a < z /\ Begins(v, a, v[z].id)
    BY <1>1 DEF EndsAreBegun
  <2>2. CASE z = n + 1
    <3>1. PICK a \in 1..n : Begins(w, a, id)
      BY <1>3
    <3> QED BY <1>1, <2>2, <3>1 DEF Begins
  <2>3. CASE z \in 1..n
    <3>1. PICK a \in 1..n : a < z /\ Begins(w, a, w[z].id)
      BY <1>1, <2>1, <2>3 DEF Bracketed, EndsAreBegun
    <3> QED BY <1>1, <2>3, <3>1 DEF Begins
  <2> QED BY <1>2, <2>2, <2>3
<1>7. TagsAreInside(v)
  <2>1. \A k \in (n + 1)..(n + 1) : k = n + 1
    BY <1>1
  <2>2. \A k \in (n + 1)..(n + 1) : v[k].batch # 0 =>
          v[k].batch \in open \cup {id} /\ \A z \in (n + 1)..(n + 1) : ~Ends(v, z, v[k].batch)
    BY <2>1 DEF Ends
  <2> QED BY <2>2, TagsKept
<1>8. OpenAre(v, open)
  <2>1. ASSUME NEW i \in open PROVE \E a \in 1..(n + 1) : Begins(v, a, i)
    <3>1. PICK a \in 1..n : Begins(w, a, i)
      BY <1>3, <2>1
    <3> QED BY <1>1, <3>1 DEF Begins
  <2>2. ASSUME NEW i \in open, NEW z \in 1..(n + 1) PROVE ~Ends(v, z, i)
    <3>1. CASE z = n + 1
      BY <2>2, <3>1 DEF Ends
    <3>2. CASE z \in 1..n
      <4>1. ~Ends(w, z, i)
        BY <1>3, <2>2, <3>2
      <4> QED BY <1>1, <3>2, <4>1 DEF Ends
    <3> QED BY <1>2, <3>1, <3>2
  <2>3. ASSUME NEW a \in 1..(n + 1), v[a].kind = "start"
        PROVE  v[a].id # 0 /\ (v[a].id \in open \/ \E z \in 1..(n + 1) : Ends(v, z, v[a].id))
    <3>1. a \in 1..n /\ w[a].kind = "start" /\ w[a].id = v[a].id
      BY <1>1, <1>2, <2>3
    <3>2. w[a].id # 0 /\ (w[a].id \in open \cup {id} \/ \E z \in 1..n : Ends(w, z, w[a].id))
      BY <1>3, <3>1
    <3>3. CASE v[a].id = id
      <4>1. Ends(v, n + 1, v[a].id)
        BY <3>3 DEF Ends
      <4> QED BY <1>1, <3>1, <3>2, <4>1
    <3>4. CASE \E z \in 1..n : Ends(w, z, w[a].id)
      <4>1. PICK z \in 1..n : Ends(w, z, w[a].id)
        BY <3>4
      <4>2. Ends(v, z, v[a].id)
        BY <1>1, <3>1, <4>1 DEF Ends
      <4> QED BY <1>1, <3>1, <3>2, <4>2
    <3> QED BY <3>1, <3>2, <3>3, <3>4
  <2> QED BY <1>1, <2>1, <2>2, <2>3 DEF OpenAre
<1>9. ASSUME Covered(w), b = 0 => open = {}
      PROVE  Covered(v)
  <2>1. SUFFICES ASSUME NEW k \in 1..(n + 1), v[k].batch = 0, NEW a \in 1..(n + 1), a < k, v[a].kind = "start"
        PROVE  \E z \in 1..(n + 1) : z <= k /\ Ends(v, z, v[a].id)
    BY <1>1 DEF Covered
  <2>2. a \in 1..n /\ w[a] = v[a]
    BY <1>1, <1>2, <2>1
  <2>3. CASE k \in 1..n
    <3>1. w[k].batch = 0 /\ w[a].kind = "start"
      BY <1>1, <2>1, <2>2, <2>3
    <3>2. PICK z \in 1..n : z <= k /\ Ends(w, z, w[a].id)
      BY <1>1, <1>9, <2>1, <2>2, <2>3, <3>1 DEF Covered
    <3> QED BY <1>1, <2>2, <3>2 DEF Ends
  <2>4. CASE k = n + 1
    <3>1. open = {}
      BY <1>9, <2>1, <2>4
    <3>2. CASE v[a].id = id
      BY <1>1, <2>4, <3>2 DEF Ends
    <3>3. CASE v[a].id # id
      <4>1. w[a].kind = "start" /\ w[a].id \notin open \cup {id}
        BY <2>1, <2>2, <3>1, <3>3
      <4>2. PICK z \in 1..n : Ends(w, z, w[a].id)
        BY <1>3, <2>2, <4>1
      <4>3. z <= k
        BY <1>1, <2>4
      <4> QED BY <1>1, <2>2, <4>2, <4>3 DEF Ends
    <3> QED BY <3>2, <3>3
  <2> QED BY <1>2, <2>3, <2>4
<1> QED BY <1>4, <1>5, <1>6, <1>7, <1>8, <1>9 DEF Bracketed

(* The batch of the whole answer is begun before all of it.                *)
LEMMA PutBefore ==
  ASSUME NEW w, NEW n, IsLines(w, n), NEW v, IsLines(v, n + 1), \A k \in 1..n : v[k + 1] = w[k],
         NEW open \in SUBSET Nat, NEW next \in Nat \ {0}, Bracketed(w, open, next),
         v[1].kind = "start" /\ v[1].id = next /\ v[1].batch = 0
  PROVE  Bracketed(v, open \cup {next}, next + 1)
<1>1. /\ n \in Nat /\ n + 1 \in Nat /\ DOMAIN w = 1..n /\ DOMAIN v = 1..(n + 1) /\ 1 \in 1..(n + 1)
      /\ \A k \in 1..n : k + 1 \in 1..(n + 1) /\ k + 1 # 1 /\ v[k + 1] = w[k] /\ w[k].id \in Nat /\ w[k].id < next
  <2>1. n \in Nat /\ DOMAIN w = 1..n /\ DOMAIN v = 1..(n + 1) /\ \A k \in 1..n : w[k].id \in Nat
    BY DEF IsLines, WireLines
  <2>2. \A k \in 1..n : w[k].id < next
    BY <2>1 DEF Bracketed, FreeNames
  <2>3. n + 1 \in Nat /\ 1 \in 1..(n + 1) /\ \A k \in 1..n : k + 1 \in 1..(n + 1) /\ k + 1 # 1
    BY <2>1
  <2> QED BY <2>1, <2>2, <2>3
<1>2. \A k \in 1..(n + 1) : k = 1 \/ \E j \in 1..n : k = j + 1
  <2>1. \A k \in 1..(n + 1) : k = 1 \/ (k - 1 \in 1..n /\ k = (k - 1) + 1)
    BY <1>1
  <2> QED BY <2>1
<1>4. FreeNames(v, next + 1)
  <2>1. ASSUME NEW k \in 1..(n + 1) PROVE v[k].id < next + 1
    <3>1. CASE k = 1
      BY <3>1
    <3>2. CASE k # 1
      <4>1. PICK j \in 1..n : k = j + 1
        BY <1>2, <3>2
      <4>2. v[k].id \in Nat /\ v[k].id < next
        BY <1>1, <4>1
      <4> QED BY <4>2
    <3> QED BY <3>1, <3>2
  <2> QED BY <1>1, <2>1 DEF FreeNames
<1>5. OnceEach(v)
  <2>1. SUFFICES ASSUME NEW j \in 1..(n + 1), NEW k \in 1..(n + 1), v[j].kind # "line", v[j].kind = v[k].kind, v[j].id = v[k].id
        PROVE  j = k
    BY <1>1 DEF OnceEach
  <2>2. CASE j = 1 \/ k = 1
    <3>1. ASSUME NEW i \in 1..(n + 1), i # 1 PROVE v[i].id # next
      <4>1. PICK b \in 1..n : i = b + 1
        BY <1>2, <3>1
      <4>2. v[i].id \in Nat /\ v[i].id < next
        BY <1>1, <4>1
      <4> QED BY <4>2
    <3> QED BY <2>1, <2>2, <3>1
  <2>3. CASE j # 1 /\ k # 1
    <3>1. PICK a \in 1..n : j = a + 1
      BY <1>2, <2>3
    <3>2. PICK b \in 1..n : k = b + 1
      BY <1>2, <2>3
    <3>3. v[j] = w[a] /\ v[k] = w[b]
      BY <1>1, <3>1, <3>2
    <3>4. w[a].kind # "line" /\ w[a].kind = w[b].kind /\ w[a].id = w[b].id
      BY <2>1, <3>3
    <3>5. a = b
      BY <1>1, <3>4 DEF Bracketed, OnceEach
    <3> QED BY <3>1, <3>2, <3>5
  <2> QED BY <2>2, <2>3
<1>6. EndsAreBegun(v)
  <2>1. SUFFICES ASSUME NEW z \in 1..(n + 1), v[z].kind = "end"
        PROVE  \E a \in 1..(n + 1) : a < z /\ Begins(v, a, v[z].id)
    BY <1>1 DEF EndsAreBegun
  <2>2. PICK j \in 1..n : z = j + 1
    BY <1>2, <2>1
  <2>3. PICK a \in 1..n : a < j /\ Begins(w, a, w[j].id)
    BY <1>1, <2>1, <2>2 DEF Bracketed, EndsAreBegun
  <2>4. a + 1 \in 1..(n + 1) /\ a + 1 < z /\ Begins(v, a + 1, v[z].id)
    BY <1>1, <2>2, <2>3 DEF Begins
  <2> QED BY <2>4
<1>7. TagsAreInside(v)
  <2>1. SUFFICES ASSUME NEW k \in 1..(n + 1), v[k].batch # 0
        PROVE  /\ \E a \in 1..(n + 1) : a < k /\ Begins(v, a, v[k].batch)
               /\ \A z \in 1..(n + 1) : Ends(v, z, v[k].batch) => k < z
    BY <1>1 DEF TagsAreInside
  <2>2. PICK j \in 1..n : k = j + 1
    BY <1>2, <2>1
  <2>3. /\ \E a \in 1..n : a < j /\ Begins(w, a, w[j].batch)
        /\ \A z \in 1..n : Ends(w, z, w[j].batch) => j < z
    BY <1>1, <2>1, <2>2 DEF Bracketed, TagsAreInside
  <2>4. PICK a \in 1..n : a < j /\ Begins(w, a, w[j].batch)
    BY <2>3
  <2>5. a + 1 \in 1..(n + 1) /\ a + 1 < k /\ Begins(v, a + 1, v[k].batch)
    BY <1>1, <2>2, <2>4 DEF Begins
  <2>6. ASSUME NEW z \in 1..(n + 1), Ends(v, z, v[k].batch) PROVE k < z
    <3>1. PICK y \in 1..n : z = y + 1
      BY <1>2, <2>6 DEF Ends
    <3>2. j < y
      BY <1>1, <2>2, <2>3, <2>6, <3>1 DEF Ends
    <3> QED BY <2>2, <3>1, <3>2
  <2> QED BY <2>5, <2>6
<1>8. OpenAre(v, open \cup {next})
  <2>1. ASSUME NEW id \in open \cup {next} PROVE \E a \in 1..(n + 1) : Begins(v, a, id)
    <3>1. CASE id = next
      BY <1>1, <3>1 DEF Begins
    <3>2. CASE id \in open
      <4>1. PICK a \in 1..n : Begins(w, a, id)
        BY <1>1, <3>2 DEF Bracketed, OpenAre
      <4>2. a + 1 \in 1..(n + 1) /\ Begins(v, a + 1, id)
        BY <1>1, <4>1 DEF Begins
      <4> QED BY <4>2
    <3> QED BY <2>1, <3>1, <3>2
  <2>2. ASSUME NEW id \in open \cup {next}, NEW z \in 1..(n + 1) PROVE ~Ends(v, z, id)
    <3>1. CASE z = 1
      BY <3>1 DEF Ends
    <3>2. CASE z # 1
      <4>1. PICK j \in 1..n : z = j + 1
        BY <1>2, <3>2
      <4>4. v[z] = w[j] /\ w[j].id \in Nat /\ w[j].id < next
        BY <1>1, <4>1
      <4>2. CASE id = next
        BY <4>2, <4>4 DEF Ends
      <4>3. CASE id \in open
        <5>1. ~Ends(w, j, id)
          BY <1>1, <4>3 DEF Bracketed, OpenAre
        <5> QED BY <4>4, <5>1 DEF Ends
      <4> QED BY <2>2, <4>2, <4>3
    <3> QED BY <3>1, <3>2
  <2>3. ASSUME NEW a \in 1..(n + 1), v[a].kind = "start"
        PROVE  v[a].id # 0 /\ (v[a].id \in open \cup {next} \/ \E z \in 1..(n + 1) : Ends(v, z, v[a].id))
    <3>1. CASE a = 1
      BY <3>1
    <3>2. CASE a # 1
      <4>1. PICK j \in 1..n : a = j + 1
        BY <1>2, <3>2
      <4>2. w[j].id # 0 /\ (w[j].id \in open \/ \E z \in 1..n : Ends(w, z, w[j].id))
        BY <1>1, <2>3, <4>1 DEF Bracketed, OpenAre
      <4>3. CASE \E z \in 1..n : Ends(w, z, w[j].id)
        <5>1. PICK z \in 1..n : Ends(w, z, w[j].id)
          BY <4>3
        <5>2. z + 1 \in 1..(n + 1) /\ Ends(v, z + 1, v[a].id)
          BY <1>1, <4>1, <5>1 DEF Ends
        <5> QED BY <1>1, <4>1, <4>2, <5>2
      <4> QED BY <1>1, <4>1, <4>2, <4>3
    <3> QED BY <3>1, <3>2
  <2> QED BY <1>1, <2>1, <2>2, <2>3 DEF OpenAre
<1> QED BY <1>4, <1>5, <1>6, <1>7, <1>8 DEF Bracketed

(* Lines after the p-th without a tag are tagged with an open batch that was begun *)
(* by then.                                                                *)
LEMMA PutTags ==
  ASSUME NEW w, NEW n, IsLines(w, n), NEW v, IsLines(v, n), NEW p \in Nat,
         NEW open \in SUBSET Nat, NEW next \in Nat \ {0}, Bracketed(w, open, next), NEW c \in open,
         NEW s \in 1..n, s <= p, Begins(w, s, c),
         \A k \in 1..n : /\ v[k].kind = w[k].kind /\ v[k].id = w[k].id
                         /\ v[k].batch = IF k > p /\ w[k].batch = 0 THEN c ELSE w[k].batch
  PROVE  Bracketed(v, open, next)
<1>1. n \in Nat /\ DOMAIN w = 1..n /\ DOMAIN v = 1..n
  BY DEF IsLines
<1>2. FreeNames(v, next) /\ OnceEach(v) /\ EndsAreBegun(v)
  <2>1. FreeNames(v, next) /\ OnceEach(v)
    BY <1>1 DEF Bracketed, FreeNames, OnceEach
  <2>2. EndsAreBegun(v)
    BY <1>1 DEF Bracketed, EndsAreBegun, Begins
  <2> QED BY <2>1, <2>2
<1>3. OpenAre(v, open)
  <2>1. \A a \in 1..n : \A i : (Begins(v, a, i) <=> Begins(w, a, i)) /\ (Ends(v, a, i) <=> Ends(w, a, i))
    BY DEF Begins, Ends
  <2>2. OpenAre(w, open)
    BY DEF Bracketed
  <2>3. \A i \in open : \E a \in 1..n : Begins(v, a, i)
    BY <1>1, <2>1, <2>2 DEF OpenAre
  <2>4. \A i \in open, z \in 1..n : ~Ends(v, z, i)
    BY <1>1, <2>1, <2>2 DEF OpenAre
  <2>5. ASSUME NEW a \in 1..n, v[a].kind = "start"
        PROVE  v[a].id # 0 /\ (v[a].id \in open \/ \E z \in 1..n : Ends(v, z, v[a].id))
    <3>1. w[a].kind = "start" /\ w[a].id = v[a].id
      BY <2>5
    <3>2. w[a].id # 0 /\ (w[a].id \in open \/ \E z \in 1..n : Ends(w, z, w[a].id))
      BY <1>1, <2>2, <3>1 DEF OpenAre
    <3> QED BY <2>1, <3>1, <3>2
  <2> QED BY <1>1, <2>3, <2>4, <2>5 DEF OpenAre
<1>4. ASSUME NEW k \in 1..n, v[k].batch # 0
      PROVE  /\ \E a \in 1..n : a < k /\ Begins(v, a, v[k].batch)
             /\ \A z \in 1..n : Ends(v, z, v[k].batch) => k < z
  <2>1. CASE k > p /\ w[k].batch = 0
    <3>1. v[k].batch = c /\ s < k
      BY <2>1
    <3>2. \A z \in 1..n : ~Ends(w, z, c)
      BY <1>1 DEF Bracketed, OpenAre
    <3> QED BY <3>1, <3>2 DEF Begins, Ends
  <2>2. CASE ~(k > p /\ w[k].batch = 0)
    BY <1>1, <1>4, <2>2 DEF Bracketed, TagsAreInside, Begins, Ends
  <2> QED BY <2>1, <2>2
<1>5. TagsAreInside(v)
  BY <1>1, <1>4 DEF TagsAreInside
<1> QED BY <1>2, <1>3, <1>5 DEF Bracketed

-----------------------------------------------------------------------------
(* The response buffer. *)

Responses ==
  [label : Nat, batchID : Nat, nested : Seq(Nat), messages : Seq(WireLines), next : Nat \ {0}, sent : Seq(WireLines)]

Labelled(rb) == HasCap("labeled-response") /\ rb.label # 0

Nested(rb) == {rb.nested[i] : i \in DOMAIN rb.nested}
Opened(rb) == Nested(rb) \cup ({rb.batchID} \ {0})

AllLines(rb) == rb.sent \o rb.messages

(* The nested batches are different ones, and none is that of the answer.  *)
Stacked(rb) ==
  \A i, j \in DOMAIN rb.nested :
    rb.nested[i] # 0 /\ rb.nested[i] # rb.batchID /\ (rb.nested[i] = rb.nested[j] => i = j)

(* The first line bears the label, and the others are in some batch.       *)
Headed(w, label) ==
  /\ 1 \in DOMAIN w /\ w[1].label = label /\ w[1].batch = 0
  /\ \A k \in DOMAIN w : k # 1 => w[k].label = 0 /\ (w[k].batch # 0 \/ w[k].kind = "end")

(* What has been sent already is in the batch of the answer.               *)
HeadInv(rb) ==
  /\ Labelled(rb) /\ rb.batchID = 0 => rb.sent = << >>
  /\ Labelled(rb) /\ rb.batchID # 0 => Headed(rb.sent, rb.label) /\ Begins(rb.sent, 1, rb.batchID)
  /\ ~Labelled(rb) => rb.batchID = 0 /\ \A k \in DOMAIN rb.sent : rb.sent[k].label = 0

Plain(ms) == \A k \in DOMAIN ms : ms[k].label = 0

ResponseInv(rb) ==
  /\ rb \in Responses /\ Stacked(rb) /\ HeadInv(rb) /\ Plain(rb.messages)
  /\ Bracketed(AllLines(rb), Opened(rb), rb.next)
  /\ rb.sent = << >> => Covered(AllLines(rb))

(* The lines before and after a step are numbered from the beginning.      *)
LEMMA Members ==
  ASSUME NEW S, NEW s \in Seq(S)
  PROVE  Len(s) \in Nat /\ DOMAIN s = 1..Len(s) /\ \A k \in DOMAIN s : s[k] \in S
OBVIOUS

LEMMA Concatenated ==
  ASSUME NEW S, NEW s \in Seq(S), NEW t \in Seq(S)
  PROVE  /\ Len(s) \in Nat /\ Len(t) \in Nat /\ DOMAIN s = 1..Len(s) /\ DOMAIN t = 1..Len(t)
         /\ s \o t \in Seq(S) /\ Len(s \o t) = Len(s) + Len(t) /\ DOMAIN (s \o t) = 1..(Len(s) + Len(t))
         /\ \A k \in 1..Len(s) : (s \o t)[k] = s[k]
         /\ \A k \in 1..Len(t) : (s \o t)[Len(s) + k] = t[k]
<1>1. Len(s) \in Nat /\ Len(t) \in Nat /\ DOMAIN s = 1..Len(s) /\ DOMAIN t = 1..Len(t)
  OBVIOUS
<1>2. s \o t \in Seq(S) /\ Len(s \o t) = Len(s) + Len(t)
  OBVIOUS
<1>3. DOMAIN (s \o t) = 1..(Len(s) + Len(t))
  BY <1>2
<1>4. ASSUME NEW k \in 1..Len(s) PROVE (s \o t)[k] = s[k]
  BY <1>1, <1>4
<1>5. ASSUME NEW k \in 1..Len(t) PROVE (s \o t)[Len(s) + k] = t[k]
  BY <1>1, <1>5
<1> QED BY <1>1, <1>2, <1>3, <1>4, <1>5

LEMMA Numbered ==
  ASSUME NEW rb \in Responses
  PROVE  /\ Len(rb.sent) \in Nat /\ Len(rb.messages) \in Nat /\ Len(rb.sent) + Len(rb.messages) \in Nat
         /\ IsLines(rb.sent, Len(rb.sent)) /\ IsLines(rb.messages, Len(rb.messages))
         /\ IsLines(AllLines(rb), Len(rb.sent) + Len(rb.messages))
         /\ \A k \in 1..Len(rb.sent) : AllLines(rb)[k] = rb.sent[k]
         /\ \A k \in 1..Len(rb.messages) : AllLines(rb)[Len(rb.sent) + k] = rb.messages[k]
<1> DEFINE s == rb.sent
           t == rb.messages
<1>1. s \in Seq(WireLines) /\ t \in Seq(WireLines)
  BY DEF Responses
<1>2. AllLines(rb) = s \o t
  BY DEF AllLines
<1> HIDE DEF s, t
<1>3. /\ Len(s) \in Nat /\ Len(t) \in Nat /\ DOMAIN s = 1..Len(s) /\ DOMAIN t = 1..Len(t)
      /\ s \o t \in Seq(WireLines) /\ Len(s \o t) = Len(s) + Len(t) /\ DOMAIN (s \o t) = 1..(Len(s) + Len(t))
      /\ \A k \in 1..Len(s) : (s \o t)[k] = s[k]
      /\ \A k \in 1..Len(t) : (s \o t)[Len(s) + k] = t[k]
  BY <1>1, Concatenated
<1>4. /\ \A k \in 1..Len(s) : s[k] \in WireLines
      /\ \A k \in 1..Len(t) : t[k] \in WireLines
      /\ \A k \in 1..(Len(s) + Len(t)) : (s \o t)[k] \in WireLines
  BY <1>1, <1>3
<1>5. IsLines(s, Len(s)) /\ IsLines(t, Len(t)) /\ IsLines(s \o t, Len(s) + Len(t)) /\ Len(s) + Len(t) \in Nat
  BY <1>3, <1>4 DEF IsLines
<1> QED BY <1>2, <1>3, <1>5 DEF s, t

(* More messages: the lines go on. *)
LEMMA MessagesGrow ==
  ASSUME NEW rb \in Responses, NEW new \in Responses, new.sent = rb.sent, NEW m \in Nat,
         Len(new.messages) = Len(rb.messages) + m,
         \A k \in 1..Len(rb.messages) : new.messages[k] = rb.messages[k]
  PROVE  LET n == Len(rb.sent) + Len(rb.messages)
         IN /\ Continues(AllLines(rb), n, AllLines(new), m)
            /\ \A k \in 1..m : AllLines(new)[n + k] = new.messages[Len(rb.messages) + k]
<1> DEFINE p == Len(rb.sent)
           q == Len(rb.messages)
           w == AllLines(rb)
           v == AllLines(new)
<1>1. /\ p \in Nat /\ q \in Nat /\ IsLines(w, p + q)
      /\ (\A k \in 1..p : w[k] = rb.sent[k]) /\ (\A k \in 1..q : w[p + k] = rb.messages[k])
  BY Numbered
<1>2. /\ IsLines(v, p + (q + m))
      /\ (\A k \in 1..p : v[k] = rb.sent[k]) /\ (\A k \in 1..(q + m) : v[p + k] = new.messages[k])
  <2>1. /\ IsLines(v, Len(new.sent) + Len(new.messages))
        /\ \A k \in 1..Len(new.sent) : v[k] = new.sent[k]
        /\ \A k \in 1..Len(new.messages) : v[Len(new.sent) + k] = new.messages[k]
    BY Numbered
  <2>2. Len(new.sent) = p /\ Len(new.messages) = q + m /\ new.sent = rb.sent
    OBVIOUS
  <2> HIDE DEF p, q, v
  <2> QED BY <2>1, <2>2
<1> HIDE DEF p, q, w, v
<1>3. IsLines(v, (p + q) + m)
  <2>1. p + (q + m) = (p + q) + m
    BY <1>1
  <2> QED BY <1>2, <2>1
<1>4. ASSUME NEW k \in 1..(p + q) PROVE v[k] = w[k]
  <2>1. CASE k <= p
    <3>1. k \in 1..p
      BY <1>1, <2>1
    <3>2. w[k] = rb.sent[k] /\ v[k] = rb.sent[k]
      BY <1>1, <1>2, <3>1
    <3> QED BY <3>2
  <2>2. CASE k > p
    <3>1. k - p \in 1..q /\ k - p \in 1..(q + m) /\ p + (k - p) = k
      BY <1>1, <1>4, <2>2
    <3>2. w[k] = rb.messages[k - p] /\ v[k] = new.messages[k - p]
      BY <1>1, <1>2, <3>1
    <3> QED BY <3>1, <3>2 DEF q
  <2> QED BY <1>1, <1>4, <2>1, <2>2
<1>5. ASSUME NEW k \in 1..m PROVE v[(p + q) + k] = new.messages[q + k]
  <2>1. q + k \in 1..(q + m) /\ p + (q + k) = (p + q) + k
    BY <1>1, <1>5
  <2> QED BY <1>2, <2>1
<1>6. Continues(w, p + q, v, m)
  BY <1>1, <1>3, <1>4 DEF Continues
<1> QED BY <1>5, <1>6 DEF p, q, w, v

(* The tag of what is added now.                                           *)
TagOf(rb) == IF rb.nested = << >> THEN 0 ELSE rb.nested[Len(rb.nested)]

LEMMA TagIs ==
  ASSUME NEW rb \in Responses, Stacked(rb)
  PROVE  /\ TagOf(rb) \in Nat /\ TagOf(rb) \in Nested(rb) \cup {0}
         /\ TagOf(rb) = 0 => rb.nested = << >> /\ Nested(rb) = {}
<1>1. rb.nested \in Seq(Nat)
  BY DEF Responses
<1>2. CASE rb.nested = << >>
  BY <1>2 DEF TagOf, Nested
<1>3. CASE rb.nested # << >>
  <2>1. Len(rb.nested) \in DOMAIN rb.nested
    BY <1>1, <1>3
  <2>2. rb.nested[Len(rb.nested)] \in Nat
    BY <1>1, <2>1
  <2> QED BY <1>3, <2>1, <2>2 DEF TagOf, Nested, Stacked
<1> QED BY <1>2, <1>3

LEMMA TagSet ==
  ASSUME NEW rb \in Responses, NEW kind \in {"line", "start", "end"}, NEW id \in Nat, Stacked(rb)
  PROVE  /\ setNestedBatchTag(rb, Line(kind, id)) = [kind |-> kind, id |-> id, batch |-> TagOf(rb), label |-> 0]
         /\ setNestedBatchTag(rb, Line(kind, id)) \in WireLines
<1>1. TagOf(rb) \in Nat
  BY TagIs
<1>2. setNestedBatchTag(rb, Line(kind, id)) = [kind |-> kind, id |-> id, batch |-> TagOf(rb), label |-> 0]
  BY DEF setNestedBatchTag, Line, TagOf, Last
<1> QED BY <1>1, <1>2 DEF WireLines

LEMMA OpenedType ==
  ASSUME NEW rb, ResponseInv(rb)
  PROVE  /\ Opened(rb) \in SUBSET Nat /\ rb.next \in Nat \ {0}
         /\ \A id \in Opened(rb) : id < rb.next
         /\ rb.sent = << >> => Opened(rb) = Nested(rb)
<1>1. rb \in Responses
  BY DEF ResponseInv
<1>2. rb.nested \in Seq(Nat) /\ rb.batchID \in Nat /\ rb.next \in Nat \ {0}
  BY <1>1 DEF Responses
<1>3. Opened(rb) \in SUBSET Nat
  BY <1>2 DEF Opened, Nested
<1>4. \A id \in Opened(rb) : id < rb.next
  BY DEF ResponseInv, Bracketed, OpenAre, FreeNames, Begins
<1>5. rb.sent = << >> => rb.batchID = 0
  BY DEF ResponseInv, HeadInv, Headed
<1> QED BY <1>2, <1>3, <1>4, <1>5 DEF Opened

(* The lines of a message, or one line, are added.                         *)
PlainLines(ms, tag) ==
  /\ ms \in Seq(WireLines)
  /\ \A k \in 1..Len(ms) : ms[k] = [kind |-> "line", id |-> 0, batch |-> tag, label |-> 0]

More(rb, ms) == [rb EXCEPT !.messages = @ \o ms]

LEMMA LinesAdded ==
  ASSUME NEW rb, ResponseInv(rb), NEW ms, PlainLines(ms, TagOf(rb)), NEW new, new = More(rb, ms)
  PROVE  ResponseInv(new) /\ new.label = rb.label /\ new.nested = rb.nested
<1>1. rb \in Responses /\ Stacked(rb)
  BY DEF ResponseInv
<1>2. rb.messages \in Seq(WireLines) /\ ms \in Seq(WireLines) /\ rb.messages \o ms \in Seq(WireLines)
  BY <1>1 DEF Responses, PlainLines
<1>3. /\ new.label = rb.label /\ new.batchID = rb.batchID /\ new.nested = rb.nested /\ new.next = rb.next
      /\ new.sent = rb.sent /\ new.messages = rb.messages \o ms /\ new \in Responses
  BY <1>1, <1>2 DEF Responses, More
<1> DEFINE q == Len(rb.messages)
           m == Len(ms)
           n == Len(rb.sent) + Len(rb.messages)
           w == AllLines(rb)
           v == AllLines(new)
<1>4. q \in Nat /\ m \in Nat
  BY <1>2
<1>5. /\ Len(new.messages) = q + m
      /\ \A k \in 1..q : new.messages[k] = rb.messages[k]
      /\ \A k \in 1..m : new.messages[q + k] = ms[k]
  <2> DEFINE old == rb.messages
             all == new.messages
  <2>1. all = old \o ms /\ old \in Seq(WireLines) /\ ms \in Seq(WireLines)
    BY <1>2, <1>3
  <2> HIDE DEF old, all
  <2>2. /\ Len(all) = Len(old) + Len(ms)
        /\ \A k \in 1..Len(old) : all[k] = old[k]
        /\ \A k \in 1..Len(ms) : all[Len(old) + k] = ms[k]
    BY <2>1, Concatenated
  <2> QED BY <2>2 DEF old, all
<1>6. Continues(w, n, v, m) /\ \A k \in 1..m : v[n + k] = new.messages[q + k]
  BY <1>1, <1>3, <1>4, <1>5, MessagesGrow
<1>7. n \in Nat
  BY <1>1, Numbered
<1> HIDE DEF q, m, n, w, v
<1>8. \A k \in (n + 1)..(n + m) : v[k].kind = "line" /\ v[k].id = 0 /\ v[k].batch = TagOf(rb)
  <2>1. ASSUME NEW k \in (n + 1)..(n + m) PROVE v[k] = ms[k - n] /\ k - n \in 1..m
    <3>1. k - n \in 1..m /\ n + (k - n) = k
      BY <1>4, <1>7
    <3> QED BY <1>5, <1>6, <3>1
  <2> QED BY <2>1 DEF m, PlainLines
<1>9. Opened(new) = Opened(rb) /\ Stacked(new)
  BY <1>1, <1>3 DEF Opened, Nested, Stacked
<1>10. TagOf(rb) \in Opened(rb) \cup {0} /\ (rb.sent = << >> => (TagOf(rb) = 0 => Opened(rb) = {}))
  BY <1>1, TagIs, OpenedType DEF Opened
<1>11. Opened(rb) \in SUBSET Nat /\ rb.next \in Nat \ {0} /\ Bracketed(w, Opened(rb), rb.next) /\ (rb.sent = << >> => Covered(w))
  BY OpenedType DEF ResponseInv, w
<1>12. /\ Bracketed(v, Opened(rb), rb.next)
       /\ Covered(w) /\ (TagOf(rb) = 0 => Opened(rb) = {}) => Covered(v)
  <2> DEFINE open == Opened(rb)
             next == rb.next
             b == TagOf(rb)
  <2>1. /\ open \in SUBSET Nat /\ next \in Nat \ {0} /\ Bracketed(w, open, next) /\ b \in open \cup {0}
        /\ \A k \in (n + 1)..(n + m) : v[k].kind = "line" /\ v[k].id = 0 /\ v[k].batch = b
        /\ Continues(w, n, v, m)
    BY <1>6, <1>8, <1>10, <1>11
  <2> HIDE DEF open, next, b
  <2>2. Bracketed(v, open, next) /\ (Covered(w) /\ (b = 0 => open = {}) => Covered(v))
    BY <2>1, AddLines
  <2> QED BY <2>2 DEF open, next, b
<1>13. Plain(new.messages)
  <2>1. DOMAIN new.messages = 1..(q + m)
    <3>1. new.messages \in Seq(WireLines)
      BY <1>3 DEF Responses
    <3> QED BY <1>5, <3>1
  <2>2. ASSUME NEW k \in 1..(q + m) PROVE new.messages[k].label = 0
    <3>1. CASE k <= q
      <4>1. k \in DOMAIN rb.messages
        BY <1>2, <1>4, <3>1 DEF q
      <4> QED BY <1>4, <1>5, <2>2, <3>1, <4>1 DEF ResponseInv, Plain
    <3>2. CASE k > q
      <4>1. k - q \in 1..m /\ q + (k - q) = k
        BY <1>4, <2>2, <3>2
      <4>2. new.messages[k] = ms[k - q]
        BY <1>5, <4>1
      <4>3. \A i \in 1..m : ms[i].label = 0
        BY DEF m, PlainLines
      <4> QED BY <4>1, <4>2, <4>3
    <3>3. k <= q \/ k > q
      BY <1>4
    <3> QED BY <3>1, <3>2, <3>3
  <2> QED BY <2>1, <2>2 DEF Plain
<1>14. HeadInv(new)
  BY <1>3 DEF ResponseInv, HeadInv, Labelled
<1> QED BY <1>3, <1>9, <1>10, <1>11, <1>12, <1>13, <1>14 DEF ResponseInv, v

LEMMA ReplyKeeps ==
  ASSUME NEW rb, ResponseInv(rb)
  PROVE  ResponseInv(Reply(rb)) /\ Reply(rb).label = rb.label /\ Reply(rb).nested = rb.nested
<1> DEFINE m == setNestedBatchTag(rb, Line("line", 0))
<1>1. rb \in Responses /\ Stacked(rb)
  BY DEF ResponseInv
<1>2. m = [kind |-> "line", id |-> 0, batch |-> TagOf(rb), label |-> 0] /\ m \in WireLines
  BY <1>1, TagSet
<1>3. Reply(rb) = [rb EXCEPT !.messages = Append(@, m)]
  BY DEF Reply, AddMessage
<1> HIDE DEF m
<1>4. rb.messages \in Seq(WireLines)
  BY <1>1 DEF Responses
<1>5. <<m>> \in Seq(WireLines) /\ Len(<<m>>) = 1 /\ <<m>>[1] = m /\ Append(rb.messages, m) = rb.messages \o <<m>>
  BY <1>2, <1>4
<1>6. Reply(rb) = More(rb, <<m>>)
  BY <1>3, <1>5 DEF More
<1>7. PlainLines(<<m>>, TagOf(rb))
  BY <1>2, <1>5 DEF PlainLines
<1> QED BY <1>6, <1>7, LinesAdded

(* One more message. *)
LEMMA MessageAdded ==
  ASSUME NEW rb \in Responses, NEW new \in Responses, NEW m \in WireLines, new.sent = rb.sent,
         new.messages = Append(rb.messages, m), Plain(rb.messages), m.label = 0
  PROVE  LET n == Len(rb.sent) + Len(rb.messages)
         IN /\ Continues(AllLines(rb), n, AllLines(new), 1) /\ AllLines(new)[n + 1] = m
            /\ Plain(new.messages)
<1> DEFINE q == Len(rb.messages)
           n == Len(rb.sent) + Len(rb.messages)
<1>1. rb.messages \in Seq(WireLines) /\ q \in Nat /\ DOMAIN rb.messages = 1..q
  BY DEF Responses
<1>2. /\ Len(new.messages) = q + 1 /\ DOMAIN new.messages = 1..(q + 1)
      /\ new.messages[q + 1] = m /\ \A k \in 1..q : new.messages[k] = rb.messages[k]
  BY <1>1
<1> HIDE DEF q
<1>3. Continues(AllLines(rb), n, AllLines(new), 1) /\ \A k \in 1..1 : AllLines(new)[n + k] = new.messages[q + k]
  <2>1. Len(new.messages) = Len(rb.messages) + 1 /\ \A k \in 1..Len(rb.messages) : new.messages[k] = rb.messages[k]
    BY <1>2 DEF q
  <2>2. 1 \in Nat
    OBVIOUS
  <2>3. /\ Continues(AllLines(rb), Len(rb.sent) + Len(rb.messages), AllLines(new), 1)
        /\ \A k \in 1..1 : AllLines(new)[(Len(rb.sent) + Len(rb.messages)) + k] = new.messages[Len(rb.messages) + k]
    BY <2>1, <2>2, MessagesGrow
  <2> QED BY <2>3 DEF q
<1> HIDE DEF n
<1>4. AllLines(new)[n + 1] = m
  <2>1. 1 \in 1..1
    OBVIOUS
  <2>2. AllLines(new)[n + 1] = new.messages[q + 1]
    BY <1>3, <2>1
  <2> QED BY <1>2, <2>2
<1>5. Plain(new.messages)
  BY <1>1, <1>2 DEF Plain
<1> QED BY <1>3, <1>4, <1>5 DEF n

LEMMA StartKeeps ==
  ASSUME NEW rb, ResponseInv(rb), HasCap("batch")
  PROVE  LET new == StartNestedBatch(rb)
         IN ResponseInv(new) /\ new.label = rb.label /\ new.nested = Append(rb.nested, rb.next)
<1> DEFINE m == setNestedBatchTag(rb, Line("start", rb.next))
           new == StartNestedBatch(rb)
           n == Len(rb.sent) + Len(rb.messages)
           v == AllLines(new)
<1>1. rb \in Responses /\ Stacked(rb) /\ Plain(rb.messages)
  BY DEF ResponseInv
<1>2. rb.messages \in Seq(WireLines) /\ rb.next \in Nat \ {0} /\ rb.nested \in Seq(Nat) /\ rb.next + 1 \in Nat \ {0}
  BY <1>1 DEF Responses
<1>3. m = [kind |-> "start", id |-> rb.next, batch |-> TagOf(rb), label |-> 0] /\ m \in WireLines
  BY <1>1, <1>2, TagSet
<1>4. /\ Append(rb.messages, m) \in Seq(WireLines) /\ Append(rb.nested, rb.next) \in Seq(Nat)
  BY <1>2, <1>3
<1>5. new = [rb EXCEPT !.messages = Append(@, m), !.nested = Append(@, rb.next), !.next = @ + 1]
  BY <1>1 DEF StartNestedBatch, AddMessage, Responses
<1> HIDE DEF m, new
<1>6. /\ new \in Responses /\ new.label = rb.label /\ new.batchID = rb.batchID /\ new.sent = rb.sent /\ new.next = rb.next + 1
      /\ new.messages = Append(rb.messages, m) /\ new.nested = Append(rb.nested, rb.next)
  BY <1>1, <1>2, <1>4, <1>5 DEF Responses
<1>7. /\ Continues(AllLines(rb), n, v, 1) /\ v[n + 1] = m /\ Plain(new.messages)
  <2>1. m.label = 0
    BY <1>3
  <2> QED BY <1>1, <1>3, <1>6, <2>1, MessageAdded
<1>8. /\ Opened(rb) \in SUBSET Nat /\ \A id \in Opened(rb) : id < rb.next
  BY OpenedType
<1>9. /\ Len(rb.nested) \in Nat /\ DOMAIN rb.nested = 1..Len(rb.nested) /\ DOMAIN new.nested = 1..(Len(rb.nested) + 1)
      /\ new.nested[Len(rb.nested) + 1] = rb.next /\ \A i \in 1..Len(rb.nested) : new.nested[i] = rb.nested[i]
  BY <1>2, <1>6
<1>10. Nested(new) = Nested(rb) \cup {rb.next} /\ Opened(new) = Opened(rb) \cup {rb.next}
  <2>1. Nested(new) = Nested(rb) \cup {rb.next}
    <3>1. \A i \in DOMAIN new.nested : i \in DOMAIN rb.nested \/ i = Len(rb.nested) + 1
      BY <1>9
    <3>2. \A i \in DOMAIN rb.nested : i \in DOMAIN new.nested /\ new.nested[i] = rb.nested[i]
      BY <1>9
    <3>3. Len(rb.nested) + 1 \in DOMAIN new.nested /\ new.nested[Len(rb.nested) + 1] = rb.next
      BY <1>9
    <3> QED BY <3>1, <3>2, <3>3 DEF Nested
  <2> QED BY <1>6, <2>1 DEF Opened
<1>11. Stacked(new)
  <2>1. rb.next \notin Opened(rb) /\ rb.next # 0
    BY <1>2, <1>8
  <2>2. rb.next # rb.batchID
    BY <2>1 DEF Opened
  <2>3. \A i \in 1..Len(rb.nested) : rb.nested[i] # rb.next
    BY <1>9, <2>1 DEF Opened, Nested
  <2> QED BY <1>1, <1>6, <1>9, <2>1, <2>2, <2>3 DEF Stacked
<1>12. TagOf(rb) \in Opened(rb) \cup {0} /\ (rb.sent = << >> => (TagOf(rb) = 0 => Opened(rb) = {}))
  BY <1>1, TagIs, OpenedType DEF Opened
<1>13. Bracketed(AllLines(rb), Opened(rb), rb.next) /\ (rb.sent = << >> => Covered(AllLines(rb)))
  BY DEF ResponseInv
<1> HIDE DEF n, v
<1>14. /\ Bracketed(v, Opened(rb) \cup {rb.next}, rb.next + 1)
       /\ Covered(AllLines(rb)) /\ (TagOf(rb) = 0 => Opened(rb) = {}) => Covered(v)
  <2>1. v[n + 1].kind = "start" /\ v[n + 1].id = rb.next /\ v[n + 1].batch = TagOf(rb)
    BY <1>3, <1>7
  <2> QED BY <1>2, <1>7, <1>8, <1>12, <1>13, <2>1, AddStart
<1>15. HeadInv(new)
  BY <1>6 DEF ResponseInv, HeadInv, Labelled
<1>16. ResponseInv(new)
  BY <1>6, <1>7, <1>10, <1>11, <1>12, <1>13, <1>14, <1>15 DEF ResponseInv, v
<1> QED BY <1>6, <1>16 DEF new

LEMMA Popped ==
  ASSUME NEW rb \in Responses, Stacked(rb), rb.nested # << >>
  PROVE  /\ Front(rb.nested) \in Seq(Nat) /\ Len(Front(rb.nested)) = Len(rb.nested) - 1
         /\ Last(rb.nested) \in Nested(rb)
         /\ {Front(rb.nested)[i] : i \in DOMAIN Front(rb.nested)} = Nested(rb) \ {Last(rb.nested)}
         /\ \A i \in DOMAIN Front(rb.nested) : i \in DOMAIN rb.nested /\ Front(rb.nested)[i] = rb.nested[i]
<1> DEFINE s == rb.nested
           f == Front(rb.nested)
           n == Len(rb.nested)
<1>1. s \in Seq(Nat) /\ n \in Nat \ {0} /\ DOMAIN s = 1..n
  BY DEF Responses
<1>2. f \in Seq(Nat) /\ Len(f) = n - 1 /\ \A i \in 1..(n - 1) : f[i] = s[i]
  BY <1>1 DEF Front
<1>3. DOMAIN f = 1..(n - 1)
  BY <1>2
<1>4. Last(s) = s[n]
  BY DEF Last
<1> HIDE DEF s, f, n
<1>5. \A i \in 1..n : i = n \/ i \in 1..(n - 1)
  BY <1>1
<1>6. \A i \in 1..(n - 1) : i \in 1..n /\ i # n
  BY <1>1
<1>7. n \in 1..n
  BY <1>1
<1>8. \A i, j \in 1..n : s[i] = s[j] => i = j
  BY <1>1 DEF Stacked, s
<1>9. {f[i] : i \in 1..(n - 1)} = {s[i] : i \in 1..n} \ {s[n]}
  BY <1>2, <1>5, <1>6, <1>7, <1>8
<1>10. Nested(rb) = {s[i] : i \in 1..n} /\ s[n] \in Nested(rb)
  BY <1>1, <1>7 DEF Nested, s
<1> QED BY <1>1, <1>2, <1>3, <1>4, <1>6, <1>9, <1>10 DEF s, f, n

LEMMA EndKeeps ==
  ASSUME NEW rb, ResponseInv(rb), rb.nested # << >>
  PROVE  LET new == EndNestedBatch(rb)
         IN ResponseInv(new) /\ new.label = rb.label /\ Len(new.nested) = Len(rb.nested) - 1
<1> DEFINE id == Last(rb.nested)
           less == [rb EXCEPT !.nested = Front(@)]
           m == setNestedBatchTag(less, Line("end", id))
           new == EndNestedBatch(rb)
           n == Len(rb.sent) + Len(rb.messages)
           v == AllLines(new)
<1>1. rb \in Responses /\ Stacked(rb) /\ Plain(rb.messages)
  BY DEF ResponseInv
<1>2. /\ Front(rb.nested) \in Seq(Nat) /\ Len(Front(rb.nested)) = Len(rb.nested) - 1
      /\ id \in Nested(rb)
      /\ {Front(rb.nested)[i] : i \in DOMAIN Front(rb.nested)} = Nested(rb) \ {id}
      /\ \A i \in DOMAIN Front(rb.nested) : i \in DOMAIN rb.nested /\ Front(rb.nested)[i] = rb.nested[i]
  BY <1>1, Popped
<1>3. id \in Nat
  BY <1>1, <1>2 DEF Nested, Responses
<1>4. /\ less \in Responses /\ less.nested = Front(rb.nested) /\ less.label = rb.label /\ less.batchID = rb.batchID
      /\ less.sent = rb.sent /\ less.next = rb.next /\ less.messages = rb.messages
  BY <1>1, <1>2 DEF Responses
<1>5. new = [less EXCEPT !.messages = Append(@, m)]
  BY DEF EndNestedBatch, AddMessage
<1> HIDE DEF less, id
<1>6. Stacked(less) /\ Nested(less) = Nested(rb) \ {id}
  <2>1. Nested(less) = Nested(rb) \ {id}
    BY <1>2, <1>4 DEF Nested
  <2>2. Stacked(less)
    BY <1>1, <1>2, <1>4 DEF Stacked
  <2> QED BY <2>1, <2>2
<1>7. m = [kind |-> "end", id |-> id, batch |-> TagOf(less), label |-> 0] /\ m \in WireLines
  BY <1>3, <1>4, <1>6, TagSet
<1>8. rb.messages \in Seq(WireLines) /\ Append(rb.messages, m) \in Seq(WireLines)
  BY <1>1, <1>7 DEF Responses
<1> HIDE DEF m, new
<1>9. /\ new \in Responses /\ new.label = rb.label /\ new.batchID = rb.batchID /\ new.sent = rb.sent /\ new.next = rb.next
      /\ new.messages = Append(rb.messages, m) /\ new.nested = less.nested
  BY <1>4, <1>5, <1>8 DEF Responses
<1>10. /\ Continues(AllLines(rb), n, v, 1) /\ v[n + 1] = m /\ Plain(new.messages)
  <2>1. m.label = 0
    BY <1>7
  <2>2. /\ rb \in Responses /\ new \in Responses /\ m \in WireLines /\ new.sent = rb.sent
        /\ new.messages = Append(rb.messages, m) /\ Plain(rb.messages)
    BY <1>1, <1>7, <1>9
  <2> QED BY <2>1, <2>2, MessageAdded
<1>11. /\ Opened(rb) \in SUBSET Nat /\ rb.next \in Nat \ {0} /\ id \in Opened(rb) /\ (rb.sent = << >> => Opened(rb) = Nested(rb))
  BY <1>2, OpenedType DEF Opened
<1>12. Nested(new) = Nested(rb) \ {id} /\ Opened(new) = Opened(rb) \ {id} /\ Stacked(new)
  <2>1. Nested(new) = Nested(rb) \ {id}
    BY <1>6, <1>9 DEF Nested
  <2>2. id # rb.batchID
    BY <1>1, <1>2 DEF Stacked, Nested
  <2>3. Stacked(new)
    BY <1>4, <1>6, <1>9 DEF Stacked
  <2> QED BY <1>9, <2>1, <2>2, <2>3 DEF Opened
<1>13. TagOf(less) \in (Opened(rb) \ {id}) \cup {0} /\ (rb.sent = << >> => (TagOf(less) = 0 => Opened(rb) \ {id} = {}))
  <2>1. TagOf(less) \in Nested(less) \cup {0} /\ (TagOf(less) = 0 => Nested(less) = {})
    BY <1>4, <1>6, TagIs
  <2> QED BY <1>6, <1>11, <2>1 DEF Opened
<1>14. Bracketed(AllLines(rb), Opened(rb), rb.next) /\ (rb.sent = << >> => Covered(AllLines(rb)))
  BY DEF ResponseInv
<1> HIDE DEF n, v
<1>15. /\ Bracketed(v, Opened(rb) \ {id}, rb.next)
       /\ Covered(AllLines(rb)) /\ (TagOf(less) = 0 => Opened(rb) \ {id} = {}) => Covered(v)
  <2> DEFINE open == Opened(rb) \ {id}
             next == rb.next
             b == TagOf(less)
             w == AllLines(rb)
  <2>1. v[n + 1].kind = "end" /\ v[n + 1].id = id /\ v[n + 1].batch = b
    BY <1>7, <1>10
  <2>2. open \in SUBSET Nat /\ id \notin open /\ open \cup {id} = Opened(rb)
    BY <1>11
  <2>3. /\ Continues(w, n, v, 1) /\ next \in Nat \ {0} /\ Bracketed(w, open \cup {id}, next) /\ b \in open \cup {0}
    BY <1>10, <1>11, <1>13, <1>14, <2>2
  <2> HIDE DEF open, next, b, w
  <2>4. EndAdded(w, n, v, open, id, next, b)
    BY <1>3, <2>1, <2>2, <2>3 DEF EndAdded
  <2>5. Bracketed(v, open, next) /\ (Covered(w) /\ (b = 0 => open = {}) => Covered(v))
    BY <2>4, AddEnd
  <2> QED BY <2>5 DEF open, next, b, w
<1>16. HeadInv(new)
  BY <1>9 DEF ResponseInv, HeadInv, Labelled
<1>17. ResponseInv(new)
  BY <1>9, <1>10, <1>12, <1>13, <1>14, <1>15, <1>16 DEF ResponseInv, v
<1>18. Len(new.nested) = Len(rb.nested) - 1
  BY <1>2, <1>4, <1>9
<1> QED BY <1>9, <1>17, <1>18 DEF new

(* A message of several lines, in a batch of its own.                      *)
LEMMA SplitKeeps ==
  ASSUME NEW rb, ResponseInv(rb), NEW lines \in Nat
  PROVE  LET new == AddSplitMessageFromClient(rb, lines)
         IN ResponseInv(new) /\ new.label = rb.label /\ new.nested = rb.nested
<1>1. rb \in Responses /\ Stacked(rb) /\ Plain(rb.messages)
  BY DEF ResponseInv
<1>2. rb.messages \in Seq(WireLines) /\ rb.next \in Nat \ {0} /\ rb.next + 1 \in Nat \ {0} /\ TagOf(rb) \in Nat
  BY <1>1, TagIs DEF Responses
<1>3. CASE lines = 0
  <2>1. AddSplitMessageFromClient(rb, lines) = Reply(rb)
    BY <1>3 DEF AddSplitMessageFromClient
  <2> QED BY <2>1, ReplyKeeps
<1>4. CASE lines > 0 /\ ~HasCap("multiline")
  <2> DEFINE m == setNestedBatchTag(rb, Line("line", 0))
             ms == [k \in 1..lines |-> m]
             new == AddSplitMessageFromClient(rb, lines)
  <2>1. new = More(rb, ms)
    BY <1>4 DEF AddSplitMessageFromClient, More
  <2>2. m = [kind |-> "line", id |-> 0, batch |-> TagOf(rb), label |-> 0] /\ m \in WireLines
    BY <1>1, TagSet
  <2> HIDE DEF m
  <2>3. ms \in Seq(WireLines) /\ Len(ms) = lines /\ \A k \in 1..lines : ms[k] = m
    BY <2>2
  <2> HIDE DEF ms
  <2>4. PlainLines(ms, TagOf(rb))
    BY <2>2, <2>3 DEF PlainLines
  <2> HIDE DEF new
  <2>5. ResponseInv(new) /\ new.label = rb.label /\ new.nested = rb.nested
    BY <2>1, <2>4, LinesAdded
  <2> QED BY <2>5 DEF new
<1>5. CASE lines > 0 /\ HasCap("multiline")
  <2> DEFINE id == rb.next
             s == setNestedBatchTag(rb, Line("start", id))
             l == [Line("line", 0) EXCEPT !.batch = id]
             ls == [k \in 1..lines |-> l]
             e == setNestedBatchTag(rb, Line("end", id))
             ms == <<s>> \o ls \o <<e>>
             new == AddSplitMessageFromClient(rb, lines)
             p == Len(rb.messages)
             n == Len(rb.sent) + Len(rb.messages)
             w == AllLines(rb)
             v == AllLines(new)
  <2>1. new = [rb EXCEPT !.messages = @ \o ms, !.next = @ + 1]
    BY <1>5 DEF AddSplitMessageFromClient
  <2>2. /\ s = [kind |-> "start", id |-> rb.next, batch |-> TagOf(rb), label |-> 0] /\ s \in WireLines
        /\ e = [kind |-> "end", id |-> rb.next, batch |-> TagOf(rb), label |-> 0] /\ e \in WireLines
    BY <1>1, <1>2, TagSet
  <2>3. l = [kind |-> "line", id |-> 0, batch |-> rb.next, label |-> 0] /\ l \in WireLines
    BY <1>2 DEF Line, WireLines
  <2> HIDE DEF s, e, l, new
  <2>4. ls \in Seq(WireLines) /\ Len(ls) = lines /\ \A k \in 1..lines : ls[k] = l
    BY <2>3
  <2> HIDE DEF ls
  <2>5. /\ <<s>> \o ls \in Seq(WireLines) /\ Len(<<s>> \o ls) = lines + 1 /\ (<<s>> \o ls)[1] = s
        /\ \A k \in 2..(lines + 1) : (<<s>> \o ls)[k] = l
    <3>1. /\ <<s>> \in Seq(WireLines) /\ Len(<<s>>) = 1 /\ <<s>>[1] = s
      BY <2>2
    <3>2. /\ <<s>> \o ls \in Seq(WireLines) /\ Len(<<s>> \o ls) = lines + 1
          /\ \A k \in 1..(lines + 1) : (<<s>> \o ls)[k] = IF k <= 1 THEN <<s>>[k] ELSE ls[k - 1]
      BY <2>4, <3>1
    <3> QED BY <2>4, <3>1, <3>2
  <2>6. /\ ms \in Seq(WireLines) /\ Len(ms) = lines + 2 /\ ms[1] = s /\ ms[lines + 2] = e
        /\ \A k \in 2..(lines + 1) : ms[k] = l
    <3> DEFINE f == <<s>> \o ls
    <3>1. /\ <<e>> \in Seq(WireLines) /\ Len(<<e>>) = 1 /\ <<e>>[1] = e /\ f \in Seq(WireLines) /\ Len(f) = lines + 1
      BY <2>2, <2>5
    <3>3. f[1] = s /\ \A k \in 2..(lines + 1) : f[k] = l
      BY <2>5
    <3>4. ms = f \o <<e>>
      OBVIOUS
    <3> HIDE DEF f, ms
    <3>2. /\ ms \in Seq(WireLines) /\ Len(ms) = lines + 2
          /\ \A k \in 1..(lines + 2) : ms[k] = IF k <= lines + 1 THEN f[k] ELSE <<e>>[k - (lines + 1)]
      BY <3>1, <3>4
    <3> QED BY <3>1, <3>2, <3>3
  <2> HIDE DEF ms
  <2>7. rb.messages \o ms \in Seq(WireLines) /\ p \in Nat
    BY <1>2, <2>6
  <2>8. /\ new \in Responses /\ new.label = rb.label /\ new.batchID = rb.batchID /\ new.nested = rb.nested /\ new.next = rb.next + 1
        /\ new.sent = rb.sent /\ new.messages = rb.messages \o ms
    BY <1>1, <1>2, <2>1, <2>7 DEF Responses
  <2>9. /\ Len(new.messages) = p + (lines + 2)
        /\ \A k \in 1..p : new.messages[k] = rb.messages[k]
        /\ \A k \in 1..(lines + 2) : new.messages[p + k] = ms[k]
    <3>1. /\ Len(rb.messages \o ms) = Len(rb.messages) + Len(ms)
          /\ \A k \in 1..Len(rb.messages) : (rb.messages \o ms)[k] = rb.messages[k]
          /\ \A k \in 1..Len(ms) : (rb.messages \o ms)[Len(rb.messages) + k] = ms[k]
      <4>1. rb.messages \in Seq(WireLines) /\ ms \in Seq(WireLines)
        BY <1>2, <2>6
      <4> QED BY <4>1, Concatenated
    <3>2. Len(ms) = lines + 2
      BY <2>6
    <3> QED BY <2>8, <3>1, <3>2
  <2>10. Continues(w, n, v, lines + 2) /\ \A k \in 1..(lines + 2) : v[n + k] = new.messages[p + k]
    <3>1. lines + 2 \in Nat
      OBVIOUS
    <3> QED BY <1>1, <2>8, <2>9, <3>1, MessagesGrow
  <2>11. n \in Nat
    BY <1>1, Numbered
  <2> HIDE DEF n, p, w, v
  <2>12. /\ v[n + 1] = s /\ v[n + 1 + lines + 1] = e
         /\ \A k \in (n + 2)..(n + 1 + lines) : v[k] = l
    <3>1. v[n + 1] = s
      <4>1. 1 \in 1..(lines + 2)
        OBVIOUS
      <4> QED BY <2>6, <2>9, <2>10, <4>1
    <3>2. v[n + 1 + lines + 1] = e
      <4>1. lines + 2 \in 1..(lines + 2) /\ n + (lines + 2) = n + 1 + lines + 1
        BY <2>11
      <4> QED BY <2>6, <2>9, <2>10, <4>1
    <3>3. ASSUME NEW k \in (n + 2)..(n + 1 + lines) PROVE v[k] = l
      <4>1. k - n \in 2..(lines + 1) /\ k - n \in 1..(lines + 2) /\ n + (k - n) = k
        BY <2>11
      <4> QED BY <2>6, <2>9, <2>10, <4>1
    <3> QED BY <3>1, <3>2, <3>3
  <2> DEFINE v1 == [k \in 1..(n + 1) |-> v[k]]
             v2 == [k \in 1..(n + 1 + lines) |-> v[k]]
  <2>13. Continues(w, n, v1, 1) /\ Continues(v1, n + 1, v2, lines) /\ Continues(v2, n + 1 + lines, v, 1)
    <3>1. /\ IsLines(w, n) /\ \A k \in 1..n : v[k] = w[k]
          /\ DOMAIN v = 1..(n + 1 + lines + 1) /\ \A k \in 1..(n + 1 + lines + 1) : v[k] \in WireLines
      <4>1. n + (lines + 2) = n + 1 + lines + 1
        BY <2>11
      <4> QED BY <2>10, <4>1 DEF Continues, IsLines
    <3>2. /\ \A k \in 1..n : k \in 1..(n + 1)
          /\ \A k \in 1..(n + 1) : k \in 1..(n + 1 + lines)
          /\ \A k \in 1..(n + 1 + lines) : k \in 1..(n + 1 + lines + 1)
          /\ n + 1 \in Nat /\ n + 1 + lines \in Nat /\ n + 1 + lines + 1 \in Nat
      BY <2>11
    <3>3. IsLines(v1, n + 1) /\ IsLines(v2, n + 1 + lines) /\ IsLines(v, n + 1 + lines + 1)
      BY <3>1, <3>2 DEF IsLines
    <3>4. /\ \A k \in 1..n : v1[k] = w[k]
          /\ \A k \in 1..(n + 1) : v2[k] = v1[k]
          /\ \A k \in 1..(n + 1 + lines) : v[k] = v2[k]
      BY <3>1, <3>2
    <3> HIDE DEF v1, v2
    <3> QED BY <2>11, <3>1, <3>2, <3>3, <3>4 DEF Continues
  <2>14. /\ v1[n + 1] = s /\ \A k \in (n + 2)..(n + 1 + lines) : v2[k] = l
    BY <2>11, <2>12
  <2> HIDE DEF v1, v2
  <2> DEFINE O == Opened(rb)
  <2>15. /\ O \in SUBSET Nat /\ (\A i \in O : i < rb.next) /\ Bracketed(w, O, rb.next) /\ (rb.sent = << >> => Covered(w))
    BY OpenedType DEF ResponseInv, w
  <2>16. TagOf(rb) \in O \cup {0} /\ (rb.sent = << >> => (TagOf(rb) = 0 => O = {}))
    BY <1>1, TagIs, OpenedType DEF Opened
  <2>17. rb.next \notin O
    BY <1>2, <2>15
  <2> HIDE DEF O
  <2>18. /\ Bracketed(v1, O \cup {rb.next}, rb.next + 1)
         /\ Covered(w) /\ (TagOf(rb) = 0 => O = {}) => Covered(v1)
    <3>1. v1[n + 1].kind = "start" /\ v1[n + 1].id = rb.next /\ v1[n + 1].batch = TagOf(rb)
      BY <2>2, <2>14
    <3> QED BY <1>2, <2>13, <2>15, <2>16, <3>1, AddStart
  <2>19. /\ Bracketed(v2, O \cup {rb.next}, rb.next + 1)
         /\ Covered(v1) => Covered(v2)
    <3>1. \A k \in ((n + 1) + 1)..((n + 1) + lines) : v2[k].kind = "line" /\ v2[k].id = 0 /\ v2[k].batch = rb.next
      BY <2>3, <2>11, <2>14
    <3>2. O \cup {rb.next} \in SUBSET Nat /\ rb.next \in (O \cup {rb.next}) \cup {0} /\ rb.next # 0
      BY <1>2, <2>15
    <3> DEFINE o2 == O \cup {rb.next}
               next == rb.next
    <3>3. /\ Continues(v1, n + 1, v2, lines) /\ o2 \in SUBSET Nat /\ next + 1 \in Nat \ {0} /\ Bracketed(v1, o2, next + 1)
          /\ next \in o2 \cup {0} /\ next # 0
          /\ \A k \in ((n + 1) + 1)..((n + 1) + lines) : v2[k].kind = "line" /\ v2[k].id = 0 /\ v2[k].batch = next
      BY <1>2, <2>13, <2>18, <3>1, <3>2
    <3> HIDE DEF o2, next
    <3>4. Bracketed(v2, o2, next + 1) /\ (Covered(v1) /\ (next = 0 => o2 = {}) => Covered(v2))
      BY <3>3, AddLines
    <3>5. Bracketed(v2, o2, next + 1) /\ (Covered(v1) => Covered(v2))
      BY <3>3, <3>4
    <3> QED BY <3>5 DEF o2, next
  <2>20. /\ Bracketed(v, O, rb.next + 1)
         /\ Covered(v2) /\ (TagOf(rb) = 0 => O = {}) => Covered(v)
    <3> DEFINE next == rb.next
               b == TagOf(rb)
    <3>1. v[n + 1 + lines + 1].kind = "end" /\ v[n + 1 + lines + 1].id = next /\ v[n + 1 + lines + 1].batch = b
      BY <2>2, <2>12
    <3>2. /\ Continues(v2, n + 1 + lines, v, 1) /\ O \in SUBSET Nat /\ next \in Nat /\ next \notin O
          /\ next + 1 \in Nat \ {0} /\ Bracketed(v2, O \cup {next}, next + 1) /\ b \in O \cup {0}
      BY <1>2, <2>13, <2>15, <2>16, <2>17, <2>19
    <3> HIDE DEF next, b
    <3>3. EndAdded(v2, n + 1 + lines, v, O, next, next + 1, b)
      BY <3>1, <3>2 DEF EndAdded
    <3>4. Bracketed(v, O, next + 1) /\ (Covered(v2) /\ (b = 0 => O = {}) => Covered(v))
      BY <3>3, AddEnd
    <3> QED BY <3>4 DEF next, b
  <2>21. Opened(new) = O /\ Stacked(new)
    BY <1>1, <2>8 DEF Opened, Nested, Stacked, O
  <2>22. Plain(new.messages)
    <3>1. DOMAIN new.messages = 1..(p + (lines + 2))
      <4>1. new.messages \in Seq(WireLines)
        BY <2>8 DEF Responses
      <4> QED BY <2>9, <4>1
    <3>2. DOMAIN rb.messages = 1..p
      BY <1>2 DEF p
    <3>3. \A k \in 1..p : new.messages[k].label = 0
      BY <1>1, <2>9, <3>2 DEF Plain
    <3>4. \A k \in 1..(lines + 2) : ms[k].label = 0
      <4>1. \A k \in 1..(lines + 2) : k = 1 \/ k = lines + 2 \/ k \in 2..(lines + 1)
        OBVIOUS
      <4> QED BY <2>2, <2>3, <2>6, <4>1
    <3>5. ASSUME NEW k \in 1..(p + (lines + 2)) PROVE k \in 1..p \/ (k - p \in 1..(lines + 2) /\ p + (k - p) = k)
      BY <2>7
    <3>6. \A k \in 1..(p + (lines + 2)) : new.messages[k].label = 0
      BY <2>9, <3>3, <3>4, <3>5
    <3> QED BY <3>1, <3>6 DEF Plain
  <2>23. HeadInv(new)
    BY <2>8 DEF ResponseInv, HeadInv, Labelled
  <2>24. new.sent = << >> => Covered(v)
    BY <2>8, <2>15, <2>16, <2>18, <2>19, <2>20
  <2>25. ResponseInv(new)
    BY <2>8, <2>20, <2>21, <2>22, <2>23, <2>24 DEF ResponseInv, v
  <2> QED BY <2>8, <2>25 DEF new
<1> QED BY <1>3, <1>4, <1>5

LEMMA EchoKeeps ==
  ASSUME NEW rb, ResponseInv(rb), NEW lines \in Nat
  PROVE  LET new == addEchoMessage(rb, lines)
         IN ResponseInv(new) /\ new.label = rb.label /\ new.nested = rb.nested
BY SplitKeeps DEF addEchoMessage

-----------------------------------------------------------------------------
(* Sending what the buffer has. *)

(* The messages go out, tagged with the batch of the answer.               *)
TaggedWith(m, id) == IF id # 0 /\ m.batch = 0 THEN [m EXCEPT !.batch = id] ELSE m

Emitted(b) ==
  [b EXCEPT !.sent = @ \o [k \in DOMAIN b.messages |-> TaggedWith(b.messages[k], b.batchID)], !.messages = << >>]

LEMMA EmittedLines ==
  ASSUME NEW b \in Responses
  PROVE  LET n == Len(b.sent) + Len(b.messages)
             w == AllLines(b)
             new == Emitted(b)
             v == AllLines(new)
         IN /\ new \in Responses /\ new.label = b.label /\ new.batchID = b.batchID /\ new.nested = b.nested /\ new.next = b.next
            /\ new.messages = << >> /\ v = new.sent
            /\ IsLines(w, n) /\ IsLines(v, n)
            /\ \A k \in 1..n : /\ v[k].kind = w[k].kind /\ v[k].id = w[k].id /\ v[k].label = w[k].label
                               /\ v[k].batch = IF k > Len(b.sent) /\ b.batchID # 0 /\ w[k].batch = 0 THEN b.batchID ELSE w[k].batch
<1> DEFINE p == Len(b.sent)
           q == Len(b.messages)
           n == Len(b.sent) + Len(b.messages)
           w == AllLines(b)
           ms == [k \in DOMAIN b.messages |-> TaggedWith(b.messages[k], b.batchID)]
           new == Emitted(b)
           v == AllLines(new)
<1>1. /\ b.sent \in Seq(WireLines) /\ b.messages \in Seq(WireLines) /\ b.batchID \in Nat
      /\ DOMAIN b.messages = 1..q
  BY DEF Responses
<1>2. \A m \in WireLines : /\ TaggedWith(m, b.batchID) \in WireLines
                           /\ LET t == TaggedWith(m, b.batchID)
                              IN /\ t.kind = m.kind /\ t.id = m.id /\ t.label = m.label
                                 /\ t.batch = IF b.batchID # 0 /\ m.batch = 0 THEN b.batchID ELSE m.batch
  BY <1>1 DEF TaggedWith, WireLines
<1>3. /\ p \in Nat /\ q \in Nat /\ IsLines(b.messages, q) /\ IsLines(w, n)
      /\ (\A k \in 1..p : w[k] = b.sent[k]) /\ (\A k \in 1..q : w[p + k] = b.messages[k])
  BY Numbered
<1>4. ms \in Seq(WireLines) /\ Len(ms) = q /\ \A k \in 1..q : ms[k] = TaggedWith(b.messages[k], b.batchID)
  <2>1. \A k \in 1..q : TaggedWith(b.messages[k], b.batchID) \in WireLines
    BY <1>2, <1>3 DEF IsLines
  <2>2. ms = [k \in 1..q |-> TaggedWith(b.messages[k], b.batchID)]
    BY <1>1
  <2> HIDE DEF q, ms
  <2> QED BY <1>3, <2>1, <2>2
<1> HIDE DEF ms
<1>5. b.sent \o ms \in Seq(WireLines) /\ << >> \in Seq(WireLines)
  BY <1>1, <1>4
<1>6. /\ new \in Responses /\ new.label = b.label /\ new.batchID = b.batchID /\ new.nested = b.nested /\ new.next = b.next
      /\ new.messages = << >> /\ new.sent = b.sent \o ms
  BY <1>5 DEF Emitted, ms, Responses
<1> HIDE DEF new
<1>7. v = new.sent
  BY <1>5, <1>6 DEF AllLines
<1>8. /\ IsLines(v, n) /\ (\A k \in 1..p : v[k] = b.sent[k]) /\ (\A k \in 1..q : v[p + k] = ms[k])
  <2>1. /\ Len(b.sent \o ms) = Len(b.sent) + Len(ms) /\ DOMAIN (b.sent \o ms) = 1..(Len(b.sent) + Len(ms))
        /\ \A k \in 1..Len(b.sent) : (b.sent \o ms)[k] = b.sent[k]
        /\ \A k \in 1..Len(ms) : (b.sent \o ms)[Len(b.sent) + k] = ms[k]
    <3>1. b.sent \in Seq(WireLines) /\ ms \in Seq(WireLines)
      BY <1>1, <1>4
    <3> QED BY <3>1, Concatenated
  <2>2. \A k \in 1..(Len(b.sent) + Len(ms)) : (b.sent \o ms)[k] \in WireLines
    BY <1>5, <2>1
  <2>3. v = b.sent \o ms
    BY <1>6, <1>7
  <2>4. Len(ms) = Len(b.messages) /\ Len(b.sent) + Len(b.messages) \in Nat
    BY <1>4, Numbered
  <2> QED BY <2>1, <2>2, <2>3, <2>4 DEF IsLines
<1> HIDE DEF v
<1>9. n = p + q
  OBVIOUS
<1> HIDE DEF p, q, n, w
<1>10. ASSUME NEW k \in 1..n
       PROVE  /\ v[k].kind = w[k].kind /\ v[k].id = w[k].id /\ v[k].label = w[k].label
              /\ v[k].batch = IF k > p /\ b.batchID # 0 /\ w[k].batch = 0 THEN b.batchID ELSE w[k].batch
  <2>1. CASE k <= p
    <3>1. k \in 1..p /\ ~(k > p)
      BY <1>3, <1>9, <1>10, <2>1
    <3>2. v[k] = w[k]
      BY <1>3, <1>8, <3>1
    <3> QED BY <3>1, <3>2
  <2>2. CASE k > p
    <3>1. k - p \in 1..q /\ p + (k - p) = k
      BY <1>3, <1>9, <1>10, <2>2
    <3>2. v[k] = TaggedWith(b.messages[k - p], b.batchID) /\ w[k] = b.messages[k - p]
      <4>1. w[p + (k - p)] = b.messages[k - p]
        BY <1>3, <3>1
      <4>2. v[p + (k - p)] = ms[k - p] /\ ms[k - p] = TaggedWith(b.messages[k - p], b.batchID)
        BY <1>4, <1>8, <3>1
      <4> QED BY <3>1, <4>1, <4>2
    <3>3. w[k] \in WireLines
      BY <1>3, <3>1, <3>2 DEF IsLines
    <3>4. v[k] = TaggedWith(w[k], b.batchID)
      BY <3>2
    <3> QED BY <1>2, <2>2, <3>3, <3>4
  <2> QED BY <1>3, <1>9, <1>10, <2>1, <2>2
<1> QED BY <1>3, <1>6, <1>7, <1>8, <1>10 DEF p, n, w, v, new

(* Lines that differ in their labels only.                                 *)
LEMMA Relabelled ==
  ASSUME NEW w, NEW v, NEW n, IsLines(w, n), IsLines(v, n), NEW open, NEW next, Bracketed(w, open, next),
         \A k \in 1..n : v[k].kind = w[k].kind /\ v[k].id = w[k].id /\ v[k].batch = w[k].batch
  PROVE  Bracketed(v, open, next)
<1>1. DOMAIN w = 1..n /\ DOMAIN v = 1..n
  BY DEF IsLines
<1>2. FreeNames(v, next) /\ OnceEach(v)
  BY <1>1 DEF Bracketed, FreeNames, OnceEach
<1>3. EndsAreBegun(v) /\ TagsAreInside(v)
  BY <1>1 DEF Bracketed, EndsAreBegun, TagsAreInside, Begins, Ends
<1>4. OpenAre(v, open)
  BY <1>1 DEF Bracketed, OpenAre, Begins, Ends
<1> QED BY <1>2, <1>3, <1>4 DEF Bracketed

LEMMA EmittedKeeps ==
  ASSUME NEW b, ResponseInv(b), Labelled(b) => b.batchID # 0
  PROVE  ResponseInv(Emitted(b))
<1> DEFINE new == Emitted(b)
           p == Len(b.sent)
           n == Len(b.sent) + Len(b.messages)
           w == AllLines(b)
           v == AllLines(new)
<1>1. b \in Responses /\ Stacked(b) /\ HeadInv(b) /\ Plain(b.messages) /\ Bracketed(w, Opened(b), b.next)
  BY DEF ResponseInv
<1>2. /\ new \in Responses /\ new.label = b.label /\ new.batchID = b.batchID /\ new.nested = b.nested /\ new.next = b.next
      /\ new.messages = << >> /\ v = new.sent
      /\ IsLines(w, n) /\ IsLines(v, n)
      /\ \A k \in 1..n : /\ v[k].kind = w[k].kind /\ v[k].id = w[k].id /\ v[k].label = w[k].label
                         /\ v[k].batch = IF k > p /\ b.batchID # 0 /\ w[k].batch = 0 THEN b.batchID ELSE w[k].batch
  BY <1>1, EmittedLines
<1>3. /\ p \in Nat /\ n \in Nat /\ Len(b.messages) \in Nat /\ p <= n /\ n = p + Len(b.messages)
      /\ DOMAIN b.sent = 1..p /\ DOMAIN b.messages = 1..Len(b.messages)
      /\ (\A k \in 1..p : w[k] = b.sent[k]) /\ (\A k \in 1..Len(b.messages) : w[p + k] = b.messages[k])
  <2>1. /\ p \in Nat /\ Len(b.messages) \in Nat
        /\ IsLines(b.sent, Len(b.sent)) /\ IsLines(b.messages, Len(b.messages))
        /\ (\A k \in 1..p : w[k] = b.sent[k]) /\ (\A k \in 1..Len(b.messages) : w[p + k] = b.messages[k])
    BY <1>1, Numbered
  <2>2. DOMAIN b.sent = 1..p /\ DOMAIN b.messages = 1..Len(b.messages)
    BY <2>1 DEF IsLines
  <2>3. \A x, y \in Nat : x + y \in Nat /\ x <= x + y
    OBVIOUS
  <2>4. n \in Nat /\ p <= n /\ n = p + Len(b.messages)
    BY <2>1, <2>3
  <2> QED BY <2>1, <2>2, <2>4
<1>4. Opened(new) = Opened(b) /\ Stacked(new)
  BY <1>1, <1>2 DEF Opened, Nested, Stacked
<1>5. Plain(new.messages)
  BY <1>2 DEF Plain
<1>6. Opened(b) \in SUBSET Nat /\ b.next \in Nat \ {0} /\ b.batchID \in Nat
  BY <1>1, OpenedType DEF Responses
<1> HIDE DEF new, w, v, n, p
<1>7. \A k \in 1..n : k > p => w[k].label = 0
  <2>1. ASSUME NEW k \in 1..n, k > p PROVE w[k].label = 0
    <3>1. k - p \in DOMAIN b.messages /\ p + (k - p) = k
      BY <1>3, <2>1
    <3>2. w[p + (k - p)] = b.messages[k - p]
      BY <1>3, <3>1
    <3>3. b.messages[k - p].label = 0
      BY <1>1, <3>1 DEF Plain
    <3> QED BY <3>1, <3>2, <3>3
  <2> QED BY <2>1
<1>8. CASE b.batchID = 0
  <2>1. \A k \in 1..n : v[k].kind = w[k].kind /\ v[k].id = w[k].id /\ v[k].batch = w[k].batch
    BY <1>2, <1>8
  <2>2. Bracketed(v, Opened(b), b.next)
    BY <1>1, <1>2, <2>1, Relabelled
  <2>3. ~Labelled(b)
    BY <1>8
  <2>4. \A k \in 1..n : v[k].label = 0
    <3>1. \A k \in 1..p : w[k].label = 0
      BY <1>1, <1>3, <2>3 DEF HeadInv
    <3>2. \A k \in 1..n : k \in 1..p \/ k > p
      BY <1>3
    <3> QED BY <1>2, <1>7, <3>1, <3>2
  <2>5. DOMAIN new.sent = 1..n
    BY <1>2 DEF IsLines
  <2>6. HeadInv(new)
    BY <1>2, <1>8, <2>3, <2>4, <2>5 DEF HeadInv, Labelled
  <2>7. new.sent = << >> => Covered(v)
    BY <1>2 DEF Covered
  <2> QED BY <1>2, <1>4, <1>5, <2>2, <2>6, <2>7 DEF ResponseInv, v, new
<1>9. CASE b.batchID # 0
  <2>1. Labelled(b) /\ Headed(b.sent, b.label) /\ Begins(b.sent, 1, b.batchID)
    BY <1>1, <1>9 DEF HeadInv
  <2>2. 1 \in 1..p /\ 1 \in 1..n /\ 1 <= p /\ w[1] = b.sent[1]
    BY <1>3, <2>1 DEF Headed
  <2>3. Bracketed(v, Opened(b), b.next)
    <3>1. b.batchID \in Opened(b) /\ Begins(w, 1, b.batchID)
      BY <1>9, <2>1, <2>2 DEF Opened, Begins
    <3>2. \A k \in 1..n : /\ v[k].kind = w[k].kind /\ v[k].id = w[k].id
                          /\ v[k].batch = IF k > p /\ w[k].batch = 0 THEN b.batchID ELSE w[k].batch
      BY <1>2, <1>9
    <3> DEFINE open == Opened(b)
               next == b.next
               c == b.batchID
    <3>3. /\ open \in SUBSET Nat /\ next \in Nat \ {0} /\ Bracketed(w, open, next) /\ c \in open /\ Begins(w, 1, c)
          /\ IsLines(w, n) /\ IsLines(v, n) /\ p \in Nat /\ 1 \in 1..n /\ 1 <= p
          /\ \A k \in 1..n : /\ v[k].kind = w[k].kind /\ v[k].id = w[k].id
                             /\ v[k].batch = IF k > p /\ w[k].batch = 0 THEN c ELSE w[k].batch
      BY <1>1, <1>2, <1>3, <1>6, <2>2, <3>1, <3>2
    <3> HIDE DEF open, next, c
    <3>4. Bracketed(v, open, next)
      BY <3>3, PutTags
    <3> QED BY <3>4 DEF open, next
  <2>4. DOMAIN v = 1..n
    BY <1>2 DEF IsLines
  <2>5. Begins(v, 1, b.batchID) /\ v[1].label = b.label /\ v[1].batch = 0
    <3>1. ~(1 > p)
      BY <1>3, <2>2
    <3> QED BY <1>2, <2>1, <2>2, <3>1 DEF Begins, Headed
  <2>6. ASSUME NEW k \in 1..n, k # 1 PROVE v[k].label = 0 /\ (v[k].batch # 0 \/ v[k].kind = "end")
    <3>1. CASE k > p
      BY <1>2, <1>7, <1>9, <3>1
    <3>2. CASE ~(k > p)
      <4>1. k \in 1..p /\ w[k] = b.sent[k] /\ k \in DOMAIN b.sent
        BY <1>3, <2>6, <3>2
      <4>2. w[k].label = 0 /\ (w[k].batch # 0 \/ w[k].kind = "end")
        BY <2>1, <2>6, <4>1 DEF Headed
      <4> QED BY <1>2, <3>2, <4>2
    <3> QED BY <3>1, <3>2
  <2>7. HeadInv(new)
    <3>1. Headed(v, b.label)
      BY <2>2, <2>4, <2>5, <2>6 DEF Headed
    <3> QED BY <1>2, <1>9, <2>1, <2>5, <3>1 DEF HeadInv, Labelled
  <2>8. new.sent # << >>
    <3>1. 1 \in DOMAIN new.sent
      BY <1>2, <2>2, <2>4
    <3> QED BY <3>1
  <2> QED BY <1>2, <1>4, <1>5, <2>3, <2>7, <2>8 DEF ResponseInv, v, new
<1> QED BY <1>8, <1>9

(* The batch of the answer is begun.                                       *)
LEMMA BatchBegun ==
  ASSUME NEW rb, ResponseInv(rb), Labelled(rb)
  PROVE  LET new == sendBatchStart(rb)
         IN ResponseInv(new) /\ new.batchID # 0 /\ new.label = rb.label /\ new.nested = rb.nested /\ new.messages = rb.messages
<1>1. CASE rb.batchID # 0
  BY <1>1 DEF sendBatchStart
<1>2. CASE rb.batchID = 0
  <2> DEFINE s == [Line("start", rb.next) EXCEPT !.label = rb.label]
             new == sendBatchStart(rb)
             n == Len(rb.messages)
             w == AllLines(rb)
             v == AllLines(new)
  <2>1. rb \in Responses /\ Stacked(rb) /\ Plain(rb.messages) /\ rb.sent = << >> /\ Bracketed(w, Opened(rb), rb.next)
    BY <1>2 DEF ResponseInv, HeadInv
  <2>2. rb.label \in Nat /\ rb.next \in Nat \ {0} /\ rb.next + 1 \in Nat \ {0}
    BY <2>1 DEF Responses
  <2>3. s = [kind |-> "start", id |-> rb.next, batch |-> 0, label |-> rb.label] /\ s \in WireLines
    BY <2>2 DEF Line, WireLines
  <2>4. new = [rb EXCEPT !.batchID = rb.next, !.next = @ + 1, !.sent = Append(@, s)]
    BY <1>2 DEF sendBatchStart
  <2> HIDE DEF s, new
  <2>5. Append(rb.sent, s) = <<s>> /\ <<s>> \in Seq(WireLines)
    BY <2>1, <2>3
  <2>6. /\ new \in Responses /\ new.label = rb.label /\ new.batchID = rb.next /\ new.nested = rb.nested /\ new.next = rb.next + 1
        /\ new.messages = rb.messages /\ new.sent = <<s>>
    BY <2>1, <2>2, <2>4, <2>5 DEF Responses
  <2>7. Len(rb.sent) = 0 /\ Len(new.sent) = 1 /\ new.sent[1] = s /\ DOMAIN new.sent = {1}
    BY <2>1, <2>6
  <2>8. n \in Nat /\ IsLines(w, n) /\ \A k \in 1..n : w[k] = rb.messages[k]
    <3>1. /\ n \in Nat /\ IsLines(w, 0 + n) /\ \A k \in 1..n : w[0 + k] = rb.messages[k]
      BY <2>1, <2>7, Numbered
    <3> QED BY <3>1
  <2>9. IsLines(v, n + 1) /\ v[1] = s /\ \A k \in 1..n : v[k + 1] = rb.messages[k]
    <3>1. /\ n \in Nat /\ IsLines(v, 1 + n) /\ (\A k \in 1..1 : v[k] = new.sent[k]) /\ \A k \in 1..n : v[1 + k] = rb.messages[k]
      <4>1. new \in Responses /\ Len(new.sent) = 1 /\ new.messages = rb.messages
        BY <2>6, <2>7
      <4>2. /\ Len(new.messages) \in Nat /\ IsLines(v, Len(new.sent) + Len(new.messages))
            /\ \A k \in 1..Len(new.sent) : v[k] = new.sent[k]
            /\ \A k \in 1..Len(new.messages) : v[Len(new.sent) + k] = new.messages[k]
        BY <4>1, Numbered
      <4> QED BY <4>1, <4>2
    <3>2. 1 \in 1..1 /\ 1 + n = n + 1 /\ \A k \in 1..n : 1 + k = k + 1
      BY <3>1
    <3> HIDE DEF n, v
    <3> QED BY <2>7, <3>1, <3>2
  <2> HIDE DEF w, v, n
  <2>10. /\ Opened(rb) \in SUBSET Nat /\ (\A id \in Opened(rb) : id < rb.next) /\ Opened(rb) = Nested(rb)
    BY <2>1, OpenedType
  <2>11. Bracketed(v, Opened(rb) \cup {rb.next}, rb.next + 1)
    <3> DEFINE open == Opened(rb)
               next == rb.next
    <3>1. /\ IsLines(w, n) /\ IsLines(v, n + 1) /\ (\A k \in 1..n : v[k + 1] = w[k])
          /\ open \in SUBSET Nat /\ next \in Nat \ {0} /\ Bracketed(w, open, next)
          /\ v[1].kind = "start" /\ v[1].id = next /\ v[1].batch = 0
      BY <2>1, <2>2, <2>3, <2>8, <2>9, <2>10
    <3> HIDE DEF open, next
    <3>2. Bracketed(v, open \cup {next}, next + 1)
      BY <3>1, PutBefore
    <3> QED BY <3>2 DEF open, next
  <2>12. Opened(new) = Opened(rb) \cup {rb.next}
    BY <2>2, <2>6, <2>10 DEF Opened, Nested
  <2>13. Stacked(new)
    <3>1. \A i \in DOMAIN rb.nested : rb.nested[i] # rb.next
      BY <2>2, <2>10 DEF Nested
    <3> QED BY <2>1, <2>6, <3>1 DEF Stacked
  <2>14. HeadInv(new)
    BY <2>2, <2>3, <2>6, <2>7 DEF HeadInv, Labelled, Headed, Begins
  <2>15. ResponseInv(new)
    BY <2>1, <2>6, <2>11, <2>12, <2>13, <2>14 DEF ResponseInv, v
  <2> QED BY <2>2, <2>6, <2>15 DEF new
<1> QED BY <1>1, <1>2

LEMMA FlushKeeps ==
  ASSUME NEW rb, ResponseInv(rb)
  PROVE  LET new == flushInternal(rb, FALSE)
         IN ResponseInv(new) /\ new.label = rb.label /\ new.nested = rb.nested
<1> DEFINE begun == IF Labelled(rb) THEN sendBatchStart(rb) ELSE rb
<1>1. flushInternal(rb, FALSE) = Emitted(begun)
  BY DEF flushInternal, Emitted, TaggedWith, Labelled
<1>2. ResponseInv(begun) /\ (Labelled(begun) => begun.batchID # 0) /\ begun.label = rb.label /\ begun.nested = rb.nested
  BY BatchBegun DEF Labelled
<1> HIDE DEF begun
<1>3. begun \in Responses
  BY <1>2 DEF ResponseInv
<1>4. Emitted(begun).label = begun.label /\ Emitted(begun).nested = begun.nested
  BY <1>3, EmittedLines
<1>5. ResponseInv(Emitted(begun))
  BY <1>2, EmittedKeeps
<1> QED BY <1>1, <1>2, <1>4, <1>5

(* An answer in which every batch is ended, labelled at its head or nowhere. *)
LEMMA ProperWhenClosed ==
  ASSUME NEW w, NEW n, IsLines(w, n), NEW next, Bracketed(w, {}, next), NEW label \in Nat,
         IF label # 0 THEN Headed(w, label) ELSE \A k \in DOMAIN w : w[k].label = 0
  PROVE  ProperAnswer(w) /\ LabelsIn(w) = {label} \ {0}
<1> DEFINE At(kind, id) == {k \in DOMAIN w : w[k].kind = kind /\ w[k].id = id}
           ids == {w[k].id : k \in {q \in DOMAIN w : w[q].kind # "line"}}
<1>1. n \in Nat /\ DOMAIN w = 1..n /\ \A k \in 1..n : w[k].kind \in {"line", "start", "end"} /\ w[k].label \in Nat
  BY DEF IsLines, WireLines
<1>2. OnceEach(w) /\ EndsAreBegun(w) /\ TagsAreInside(w) /\ OpenAre(w, {})
  BY DEF Bracketed
<1>3. ASSUME NEW k \in DOMAIN w, w[k].kind # "line"
      PROVE  At(w[k].kind, w[k].id) = {k}
  BY <1>2, <1>3 DEF OnceEach
<1>4. ASSUME NEW id \in ids
      PROVE  \E a, z \in DOMAIN w : a < z /\ Begins(w, a, id) /\ Ends(w, z, id) /\ At("start", id) = {a} /\ At("end", id) = {z}
  <2>1. PICK k \in DOMAIN w : w[k].kind # "line" /\ w[k].id = id
    BY <1>4
  <2>2. \E z \in DOMAIN w : Ends(w, z, id)
    BY <1>1, <1>2, <2>1 DEF OpenAre, Ends
  <2>3. PICK z \in DOMAIN w : Ends(w, z, id)
    BY <2>2
  <2>4. PICK a \in DOMAIN w : a < z /\ Begins(w, a, id)
    BY <1>2, <2>3 DEF EndsAreBegun, Ends
  <2>5. w[a].kind = "start" /\ w[a].id = id /\ w[z].kind = "end" /\ w[z].id = id
    BY <2>3, <2>4 DEF Begins, Ends
  <2>6. At("start", id) = {a} /\ At("end", id) = {z}
    BY <1>3, <2>5
  <2> QED BY <2>3, <2>4, <2>6
<1>5. ASSUME NEW id \in ids PROVE Cardinality(At("start", id)) = 1 /\ Cardinality(At("end", id)) = 1
  <2>1. PICK a, z \in DOMAIN w : At("start", id) = {a} /\ At("end", id) = {z}
    BY <1>4
  <2> HIDE DEF At
  <2> QED BY <2>1, FS_Singleton
<1>6. ASSUME NEW id \in ids, NEW a \in DOMAIN w, NEW z \in DOMAIN w, a \in At("start", id), z \in At("end", id)
      PROVE  a < z /\ \A k \in DOMAIN w : w[k].batch = id => a < k /\ k < z
  <2>1. PICK b, y \in DOMAIN w : b < y /\ At("start", id) = {b} /\ At("end", id) = {y}
    BY <1>4
  <2>2. a = b /\ z = y
    BY <1>6, <2>1
  <2>3. w[a].kind = "start" /\ w[a].id = id /\ w[z].kind = "end" /\ w[z].id = id
    BY <1>6
  <2>4. id # 0
    BY <1>2, <2>3 DEF OpenAre
  <2>5. ASSUME NEW k \in DOMAIN w, w[k].batch = id PROVE a < k /\ k < z
    <3>1. PICK c \in DOMAIN w : c < k /\ Begins(w, c, id)
      BY <1>2, <2>4, <2>5 DEF TagsAreInside
    <3>2. c = a
      BY <1>2, <2>3, <3>1 DEF OnceEach, Begins
    <3>3. k < z
      BY <1>2, <2>3, <2>4, <2>5 DEF TagsAreInside, Ends
    <3> QED BY <3>1, <3>2, <3>3
  <2> QED BY <2>1, <2>2, <2>5
<1>7. ASSUME NEW k \in DOMAIN w, w[k].batch # 0 PROVE w[k].batch \in ids
  <2>1. PICK a \in DOMAIN w : Begins(w, a, w[k].batch)
    BY <1>2, <1>7 DEF TagsAreInside
  <2> QED BY <2>1 DEF Begins
<1>8. ASSUME NEW k \in DOMAIN w, w[k].label # 0
      PROVE  w[k].batch = 0 /\ \A l \in DOMAIN w : w[l].label # 0 => l = k
  BY <1>8 DEF Headed
<1>9. ASSUME LabelsIn(w) # {}, NEW k \in DOMAIN w, w[k].batch = 0
      PROVE  w[k].label # 0 \/ w[k].kind = "end"
  BY <1>9 DEF Headed, LabelsIn
<1>10. ProperAnswer(w)
  <2>1. /\ \A id \in ids : Cardinality(At("start", id)) = 1 /\ Cardinality(At("end", id)) = 1
        /\ \A id \in ids, a \in DOMAIN w, z \in DOMAIN w :
             a \in At("start", id) /\ z \in At("end", id) =>
               a < z /\ \A k \in DOMAIN w : w[k].batch = id => a < k /\ k < z
        /\ \A k \in DOMAIN w : w[k].batch # 0 => w[k].batch \in ids
    BY Zenon, <1>5, <1>6, <1>7
  <2>2. /\ \A k \in DOMAIN w : w[k].label # 0 => w[k].batch = 0 /\ \A l \in DOMAIN w : w[l].label # 0 => l = k
        /\ LabelsIn(w) # {} => \A k \in DOMAIN w : w[k].batch = 0 => w[k].label # 0 \/ w[k].kind = "end"
    BY Zenon, <1>8, <1>9
  <2> QED BY Zenon, <2>1, <2>2 DEF ProperAnswer
<1>11. LabelsIn(w) = {label} \ {0}
  BY DEF LabelsIn, Headed
<1> QED BY <1>10, <1>11

(* What flushInternal sends at last answers under the label, if there is one. *)
Answer(rb) == flushInternal(rb, TRUE).sent

Signed(rb, lines) == ProperAnswer(lines) /\ LabelsIn(lines) = IF Labelled(rb) THEN {rb.label} ELSE {}

LEMMA UnlabelledAnswer ==
  ASSUME NEW rb, ResponseInv(rb), rb.nested = << >>, ~Labelled(rb)
  PROVE  Signed(rb, Answer(rb))
<1> DEFINE new == Emitted(rb)
           n == Len(rb.sent) + Len(rb.messages)
<1>1. rb \in Responses /\ rb.batchID = 0
  BY DEF ResponseInv, HeadInv
<1>2. ~(HasCap("labeled-response") /\ rb.label # 0)
  BY DEF Labelled
<1>3. flushInternal(rb, TRUE) = sendBatchEnd(new)
  BY <1>2 DEF flushInternal, Emitted, TaggedWith
<1>4. new.batchID = 0 /\ AllLines(new) = new.sent /\ IsLines(new.sent, n) /\ new.nested = << >> /\ new.label = rb.label
  BY <1>1, EmittedLines
<1>5. ResponseInv(new)
  BY EmittedKeeps
<1> HIDE DEF new, n
<1>6. Answer(rb) = new.sent
  BY <1>3, <1>4 DEF Answer, sendBatchEnd
<1>7. Opened(new) = {}
  BY <1>4 DEF Opened, Nested
<1>8. Bracketed(new.sent, {}, new.next) /\ \A k \in DOMAIN new.sent : new.sent[k].label = 0
  BY <1>4, <1>5, <1>7 DEF ResponseInv, HeadInv, Labelled
<1>9. ProperAnswer(new.sent) /\ LabelsIn(new.sent) = {0} \ {0}
  <2>1. IF 0 # 0 THEN Headed(new.sent, 0) ELSE \A k \in DOMAIN new.sent : new.sent[k].label = 0
    BY <1>8
  <2>2. IsLines(new.sent, n) /\ 0 \in Nat
    BY <1>4
  <2> QED BY <1>8, <2>1, <2>2, ProperWhenClosed
<1> QED BY <1>6, <1>9 DEF Signed

LEMMA SameLength ==
  ASSUME NEW a \in Nat, NEW b \in Nat, 1..a = 1..b
  PROVE  a = b
<1>1. ASSUME a < b PROVE FALSE
  <2>1. b \in 1..b /\ b \notin 1..a
    BY <1>1
  <2> QED BY <2>1
<1>2. ASSUME b < a PROVE FALSE
  <2>1. a \in 1..a /\ a \notin 1..b
    BY <1>2
  <2> QED BY <2>1
<1> QED BY <1>1, <1>2

(* In a batch of its own. *)
LEMMA BatchAnswer ==
  ASSUME NEW b, ResponseInv(b), b.nested = << >>, Labelled(b), b.batchID # 0
  PROVE  Signed(b, sendBatchEnd(Emitted(b)).sent)
<1> DEFINE new == Emitted(b)
           e == Line("end", b.batchID)
           n == Len(b.sent) + Len(b.messages)
           w == new.sent
           v == Append(w, e)
<1>1. b \in Responses
  BY DEF ResponseInv
<1>2. /\ new \in Responses /\ new.batchID = b.batchID /\ AllLines(new) = w /\ IsLines(w, n)
      /\ new.nested = << >> /\ new.label = b.label /\ new.next = b.next
  BY <1>1, EmittedLines
<1>3. ResponseInv(new)
  BY EmittedKeeps
<1>4. b.batchID \in Nat /\ b.next \in Nat \ {0} /\ b.label \in Nat
  BY <1>1 DEF Responses
<1>5. e = [kind |-> "end", id |-> b.batchID, batch |-> 0, label |-> 0] /\ e \in WireLines
  BY <1>4 DEF Line, WireLines
<1>6. sendBatchEnd(new).sent = v
  BY <1>1, <1>2 DEF sendBatchEnd, Responses
<1> HIDE DEF e
<1>7. Opened(new) = {b.batchID} /\ Bracketed(w, {b.batchID}, b.next) /\ Headed(w, b.label)
  <2>1. Opened(new) = {b.batchID}
    BY <1>2 DEF Opened, Nested
  <2>2. Bracketed(w, Opened(new), new.next) /\ Headed(w, b.label)
    BY <1>2, <1>3 DEF ResponseInv, HeadInv, Labelled
  <2> QED BY <1>2, <2>1, <2>2
<1>8. w \in Seq(WireLines)
  BY <1>2 DEF Responses
<1> HIDE DEF new, w
<1>9. /\ Len(w) = n /\ n \in Nat /\ DOMAIN w = 1..n
      /\ v \in Seq(WireLines) /\ DOMAIN v = 1..(n + 1) /\ v[n + 1] = e /\ \A k \in 1..n : v[k] = w[k]
  <2>1. /\ Len(w) \in Nat /\ DOMAIN w = 1..Len(w) /\ v \in Seq(WireLines) /\ DOMAIN v = 1..(Len(w) + 1)
        /\ v[Len(w) + 1] = e /\ \A k \in 1..Len(w) : v[k] = w[k]
    BY <1>5, <1>8
  <2>2. n \in Nat /\ DOMAIN w = 1..n
    BY <1>2 DEF IsLines
  <2> HIDE DEF n, v
  <2>3. Len(w) = n
    BY <2>1, <2>2, SameLength
  <2> QED BY <2>1, <2>2, <2>3
<1>10. IsLines(v, n + 1) /\ Continues(w, n, v, 1)
  <2>2. v \in Seq(WireLines) /\ DOMAIN v = 1..(n + 1)
    BY <1>9
  <2> HIDE DEF n, v
  <2>1. \A k \in 1..(n + 1) : v[k] \in WireLines
    <3>1. \A k \in DOMAIN v : v[k] \in WireLines
      BY <2>2, Members
    <3> QED BY <2>2, <3>1
  <2> QED BY <1>2, <1>9, <2>1 DEF IsLines, Continues
<1> HIDE DEF n, v
<1>13. Bracketed(v, {}, b.next)
  <2> DEFINE open == {}
             id == b.batchID
             next == b.next
  <2>1. v[n + 1].kind = "end" /\ v[n + 1].id = id /\ v[n + 1].batch = 0
    BY <1>5, <1>9
  <2>2. open \in SUBSET Nat /\ id \in Nat /\ id \notin open /\ next \in Nat \ {0} /\ 0 \in open \cup {0}
    BY <1>4
  <2>3. Continues(w, n, v, 1) /\ Bracketed(w, open \cup {id}, next)
    <3>1. open \cup {id} = {b.batchID}
      OBVIOUS
    <3> HIDE DEF open, id
    <3> QED BY <1>7, <1>10, <3>1
  <2> HIDE DEF open, id, next
  <2>4. EndAdded(w, n, v, open, id, next, 0)
    BY <2>1, <2>2, <2>3 DEF EndAdded
  <2>5. Bracketed(v, open, next)
    BY <2>4, AddEnd
  <2> QED BY <2>5 DEF open, next
<1>14. Headed(v, b.label)
  <2>1. \A k \in 1..(n + 1) : k \in 1..n \/ k = n + 1
    BY <1>9
  <2>2. 1 \in 1..n /\ 1 \in 1..(n + 1)
    BY <1>7, <1>9 DEF Headed
  <2> QED BY <1>5, <1>7, <1>9, <2>1, <2>2 DEF Headed
<1>15. b.label # 0
  BY DEF Labelled
<1>16. ProperAnswer(v) /\ LabelsIn(v) = {b.label} \ {0}
  <2>1. IF b.label # 0 THEN Headed(v, b.label) ELSE \A k \in DOMAIN v : v[k].label = 0
    BY <1>14, <1>15
  <2>2. IsLines(v, n + 1) /\ b.label \in Nat
    BY <1>4, <1>10
  <2> QED BY <1>13, <2>1, <2>2, ProperWhenClosed
<1>17. LabelsIn(v) = {b.label}
  BY <1>15, <1>16
<1> QED BY <1>6, <1>16, <1>17 DEF Signed, new

(* One line, or one batch that is the answer: its first line bears the label. *)
LEMMA FirstAnswer ==
  ASSUME NEW rb, ResponseInv(rb), rb.nested = << >>, Labelled(rb), rb.batchID = 0,
         isCollapsible(rb) \/ Len(rb.messages) = 1
  PROVE  Signed(rb, Emitted([rb EXCEPT !.messages[1].label = rb.label]).sent)
<1> DEFINE b == [rb EXCEPT !.messages[1].label = rb.label]
           n == Len(rb.messages)
           w == rb.messages
           v == Emitted(b).sent
<1>1. rb \in Responses /\ rb.sent = << >> /\ Plain(w) /\ Bracketed(AllLines(rb), Opened(rb), rb.next) /\ Covered(AllLines(rb))
  BY DEF ResponseInv, HeadInv
<1>2. w \in Seq(WireLines) /\ n \in Nat /\ n >= 1 /\ DOMAIN w = 1..n /\ 1 \in 1..n /\ w[1] \in WireLines /\ rb.label \in Nat \ {0}
  <2>1. w \in Seq(WireLines) /\ n \in Nat /\ DOMAIN w = 1..n /\ rb.label \in Nat \ {0}
    BY <1>1 DEF Responses, Labelled
  <2>2. n >= 1
    <3>1. CASE isCollapsible(rb)
      <4>1. n >= 2
        BY <3>1 DEF isCollapsible
      <4> QED BY <2>1, <4>1
    <3>2. CASE n = 1
      BY <3>2
    <3> QED BY <3>1, <3>2
  <2> QED BY <2>1, <2>2
<1>3. AllLines(rb) = w
  BY <1>1, <1>2 DEF AllLines
<1>4. Opened(rb) = {}
  BY DEF Opened, Nested
<1> DEFINE ms == [w EXCEPT ![1] = [@ EXCEPT !.label = rb.label]]
<1>5. /\ ms \in Seq(WireLines) /\ Len(ms) = n /\ DOMAIN ms = 1..n
      /\ ms[1] = [w[1] EXCEPT !.label = rb.label] /\ \A k \in 1..n : k # 1 => ms[k] = w[k]
  <2>1. [w[1] EXCEPT !.label = rb.label] \in WireLines
    BY <1>2 DEF WireLines
  <2> QED BY <1>2, <2>1
<1>6. /\ b \in Responses /\ b.messages = ms /\ b.sent = << >> /\ b.batchID = 0
  <2>1. b = [rb EXCEPT !.messages = ms]
    BY <1>1 DEF Responses
  <2>2. rb \in Responses /\ rb.sent = << >> /\ rb.batchID = 0 /\ ms \in Seq(WireLines)
    BY <1>1, <1>5
  <2> HIDE DEF b, ms
  <2> QED BY <2>1, <2>2 DEF Responses
<1> HIDE DEF b
<1>7. AllLines(b) = ms
  <2>1. b.sent = << >> /\ b.messages = ms /\ ms \in Seq(WireLines)
    BY <1>5, <1>6
  <2> HIDE DEF ms
  <2> QED BY <2>1 DEF AllLines
<1>8. Len(b.sent) + Len(b.messages) = n
  <2>1. b.sent = << >> /\ b.messages = ms /\ Len(ms) = n /\ n \in Nat
    BY <1>2, <1>5, <1>6
  <2> HIDE DEF ms, n
  <2> QED BY <2>1
<1> HIDE DEF b
<1>9. /\ IsLines(ms, n) /\ IsLines(v, n)
      /\ \A k \in 1..n : v[k].kind = ms[k].kind /\ v[k].id = ms[k].id /\ v[k].label = ms[k].label /\ v[k].batch = ms[k].batch
  <2>1. /\ IsLines(AllLines(b), Len(b.sent) + Len(b.messages)) /\ IsLines(Emitted(b).sent, Len(b.sent) + Len(b.messages))
        /\ \A k \in 1..(Len(b.sent) + Len(b.messages)) :
             /\ Emitted(b).sent[k].kind = AllLines(b)[k].kind /\ Emitted(b).sent[k].id = AllLines(b)[k].id
             /\ Emitted(b).sent[k].label = AllLines(b)[k].label
             /\ Emitted(b).sent[k].batch =
                  IF k > Len(b.sent) /\ b.batchID # 0 /\ AllLines(b)[k].batch = 0 THEN b.batchID ELSE AllLines(b)[k].batch
    <3> DEFINE e == Emitted(b).sent
               u == AllLines(Emitted(b))
               m == Len(b.sent) + Len(b.messages)
    <3>1. b \in Responses
      BY <1>6
    <3>2. /\ u = e /\ IsLines(AllLines(b), m) /\ IsLines(u, m)
          /\ \A k \in 1..m : /\ u[k].kind = AllLines(b)[k].kind /\ u[k].id = AllLines(b)[k].id /\ u[k].label = AllLines(b)[k].label
                            /\ u[k].batch = IF k > Len(b.sent) /\ b.batchID # 0 /\ AllLines(b)[k].batch = 0
                                            THEN b.batchID ELSE AllLines(b)[k].batch
      BY <3>1, EmittedLines
    <3> HIDE DEF e, u, m
    <3>3. IsLines(e, m) /\ \A k \in 1..m : e[k] = u[k]
      BY <3>2
    <3> QED BY <3>2, <3>3 DEF e, m
  <2> HIDE DEF ms, n
  <2> QED BY <1>6, <1>7, <1>8, <2>1
<1> HIDE DEF ms, v
<1>10. \A k \in 1..n : /\ v[k].kind = w[k].kind /\ v[k].id = w[k].id /\ v[k].batch = w[k].batch
                       /\ v[k].label = IF k = 1 THEN rb.label ELSE 0
  <2>1. \A k \in 1..n : w[k] \in WireLines /\ w[k].label = 0
    BY <1>1, <1>2 DEF Plain
  <2>2. /\ ms[1].kind = w[1].kind /\ ms[1].id = w[1].id /\ ms[1].batch = w[1].batch /\ ms[1].label = rb.label
    BY <1>2, <1>5 DEF WireLines
  <2>3. ASSUME NEW k \in 1..n
        PROVE  /\ v[k].kind = w[k].kind /\ v[k].id = w[k].id /\ v[k].batch = w[k].batch
               /\ v[k].label = IF k = 1 THEN rb.label ELSE 0
    <3>1. CASE k = 1
      BY <1>9, <2>2, <2>3, <3>1
    <3>2. CASE k # 1
      <4>1. ms[k] = w[k]
        BY <1>5, <2>3, <3>2
      <4> QED BY <1>9, <2>1, <2>3, <3>2, <4>1
    <3> QED BY <3>1, <3>2
  <2> QED BY <2>3
<1>11. IsLines(w, n) /\ Bracketed(w, {}, rb.next) /\ Covered(w)
  BY <1>1, <1>2, <1>3, <1>4 DEF IsLines
<1> HIDE DEF w, n
<1>12. Bracketed(v, {}, rb.next)
  BY <1>9, <1>10, <1>11, Relabelled
<1>13. w[1].batch = 0
  <2>1. SUFFICES ASSUME w[1].batch # 0 PROVE FALSE
    OBVIOUS
  <2>2. PICK a \in DOMAIN w : a < 1
    BY <1>2, <1>11, <2>1 DEF Bracketed, TagsAreInside
  <2> QED BY <1>2, <2>2
<1>14. ASSUME NEW k \in 1..n, k # 1, w[k].batch = 0 PROVE w[k].kind = "end"
  <2>1. /\ n >= 2 /\ w[1].kind = "start" /\ w[n].kind = "end" /\ w[1].id = w[n].id
    BY <1>2, <1>14 DEF isCollapsible, Last, w, n
  <2>2. PICK z \in DOMAIN w : z <= k /\ Ends(w, z, w[1].id)
    BY <1>2, <1>11, <1>14, <2>1 DEF Covered
  <2>3. z = n
    BY <1>2, <1>11, <2>1, <2>2 DEF Bracketed, OnceEach, Ends
  <2>4. k = n
    BY <1>2, <1>14, <2>2, <2>3
  <2> QED BY <2>1, <2>4
<1>15. Headed(v, rb.label)
  <2>1. DOMAIN v = 1..n
    BY <1>9 DEF IsLines
  <2> QED BY <1>2, <1>10, <1>13, <1>14, <2>1 DEF Headed
<1>16. ProperAnswer(v) /\ LabelsIn(v) = {rb.label} \ {0}
  <2>1. IF rb.label # 0 THEN Headed(v, rb.label) ELSE \A k \in DOMAIN v : v[k].label = 0
    BY <1>2, <1>15
  <2>2. IsLines(v, n) /\ rb.label \in Nat
    BY <1>2, <1>9
  <2> QED BY <1>12, <2>1, <2>2, ProperWhenClosed
<1>17. LabelsIn(v) = {rb.label}
  BY <1>2, <1>16
<1> QED BY <1>16, <1>17 DEF Signed, v, b

(* Nothing to say: an empty line with the label. *)
LEMMA EmptyAnswer ==
  ASSUME NEW label \in Nat \ {0}
  PROVE  LET lines == << [Line("line", 0) EXCEPT !.label = label] >>
         IN ProperAnswer(lines) /\ LabelsIn(lines) = {label}
<1> DEFINE l == [Line("line", 0) EXCEPT !.label = label]
           v == <<l>>
<1>1. l = [kind |-> "line", id |-> 0, batch |-> 0, label |-> label] /\ l \in WireLines
  BY DEF Line, WireLines
<1> HIDE DEF l
<1>2. DOMAIN v = 1..1 /\ v[1] = l /\ 1..1 = {1}
  OBVIOUS
<1> HIDE DEF v
<1>3. IsLines(v, 1)
  BY <1>1, <1>2 DEF IsLines
<1>4. Bracketed(v, {}, 1)
  BY <1>1, <1>2 DEF Bracketed, FreeNames, OnceEach, EndsAreBegun, TagsAreInside, OpenAre, Begins, Ends
<1>5. Headed(v, label)
  BY <1>1, <1>2 DEF Headed
<1>6. ProperAnswer(v) /\ LabelsIn(v) = {label} \ {0}
  <2>1. IF label # 0 THEN Headed(v, label) ELSE \A k \in DOMAIN v : v[k].label = 0
    BY <1>5
  <2>2. label \in Nat
    OBVIOUS
  <2> QED BY <1>3, <1>4, <2>1, <2>2, ProperWhenClosed
<1> QED BY <1>6 DEF v, l

(* What flushInternal does to the buffer before the messages go out.       *)
First(rb) == [rb EXCEPT !.messages[1].label = rb.label]
Empty(rb) == [rb EXCEPT !.sent = Append(@, [Line("line", 0) EXCEPT !.label = rb.label])]

Begun(rb, final) ==
  CASE ~Labelled(rb) -> rb
    [] Labelled(rb) /\ final /\ isCollapsible(rb) -> First(rb)
    [] Labelled(rb) /\ ~(final /\ isCollapsible(rb)) /\ (~final \/ Len(rb.messages) >= 2) -> sendBatchStart(rb)
    [] Labelled(rb) /\ final /\ Len(rb.messages) = 1 -> IF rb.batchID = 0 THEN First(rb) ELSE rb
    [] Labelled(rb) /\ final /\ rb.messages = << >> -> IF rb.batchID = 0 THEN Empty(rb) ELSE rb

LEMMA FlushIs ==
  ASSUME NEW rb
  PROVE  flushInternal(rb, TRUE) = sendBatchEnd(Emitted(Begun(rb, TRUE)))
BY Zenon DEF flushInternal, Begun, Emitted, TaggedWith, Labelled, First, Empty

LEMMA FlushAnswers ==
  ASSUME NEW rb, ResponseInv(rb), rb.nested = << >>
  PROVE  Signed(rb, Answer(rb))
<1>1. CASE ~Labelled(rb)
  BY <1>1, UnlabelledAnswer
<1>2. CASE Labelled(rb)
  <2> DEFINE begun == Begun(rb, TRUE)
  <2>1. rb \in Responses
    BY DEF ResponseInv
  <2>2. rb.messages \in Seq(WireLines) /\ Len(rb.messages) \in Nat /\ rb.batchID \in Nat /\ rb.label \in Nat \ {0}
        /\ (rb.messages = << >> <=> Len(rb.messages) = 0)
    BY <1>2, <2>1 DEF Responses, Labelled
  <2>3. Answer(rb) = sendBatchEnd(Emitted(begun)).sent
    BY FlushIs DEF Answer
  <2>4. isCollapsible(rb) => rb.batchID = 0 /\ Len(rb.messages) >= 2
    BY DEF isCollapsible
  <2>5. ASSUME begun.batchID = 0, begun \in Responses PROVE Answer(rb) = Emitted(begun).sent
    <3>1. Emitted(begun).batchID = 0
      BY <2>5, EmittedLines
    <3> QED BY <2>3, <3>1 DEF sendBatchEnd
  <2>6. rb.batchID = 0 /\ Len(rb.messages) >= 1 => First(rb) \in Responses /\ First(rb).batchID = 0
    <3> SUFFICES ASSUME rb.batchID = 0, Len(rb.messages) >= 1 PROVE First(rb) \in Responses /\ First(rb).batchID = 0
      OBVIOUS
    <3> DEFINE l == [rb.messages[1] EXCEPT !.label = rb.label]
               ms == [rb.messages EXCEPT ![1] = l]
    <3>1. 1 \in DOMAIN rb.messages /\ rb.messages[1] \in WireLines
      BY <2>2
    <3>2. l \in WireLines
      BY <2>2, <3>1 DEF WireLines
    <3> HIDE DEF l
    <3>3. ms \in Seq(WireLines)
      BY <2>2, <3>1, <3>2
    <3>4. First(rb) = [rb EXCEPT !.messages = ms]
      BY DEF First, l
    <3> HIDE DEF ms
    <3> QED BY <2>1, <3>3, <3>4 DEF Responses
  <2>12. Len(rb.messages) >= 2 \/ Len(rb.messages) = 1 \/ rb.messages = << >>
    <3>1. \A n \in Nat : n >= 2 \/ n = 1 \/ n = 0
      OBVIOUS
    <3> QED BY <2>2, <3>1
  <2>13. ~(Len(rb.messages) = 1 /\ Len(rb.messages) >= 2) /\ ~(rb.messages = << >> /\ Len(rb.messages) >= 2)
    <3>1. \A n \in Nat : ~(n = 1 /\ n >= 2) /\ ~(n = 0 /\ n >= 2)
      OBVIOUS
    <3> QED BY <2>2, <3>1
  <2>7. CASE isCollapsible(rb)
    <3>1. begun = First(rb)
      BY <1>2, <2>4, <2>7, <2>13 DEF Begun
    <3>2. Answer(rb) = Emitted(First(rb)).sent
      <4>1. Len(rb.messages) >= 1
        BY <2>2, <2>4, <2>7
      <4>2. First(rb) \in Responses /\ First(rb).batchID = 0
        BY <2>4, <2>6, <2>7, <4>1
      <4> QED BY <2>5, <3>1, <4>2
    <3> QED BY <1>2, <2>4, <2>7, <3>2, FirstAnswer DEF First
  <2>8. CASE ~isCollapsible(rb) /\ Len(rb.messages) >= 2
    <3>1. begun = sendBatchStart(rb)
      BY <1>2, <2>8, <2>13 DEF Begun
    <3>2. ResponseInv(begun) /\ begun.batchID # 0 /\ begun.label = rb.label /\ begun.nested = << >>
      BY <1>2, <3>1, BatchBegun
    <3> HIDE DEF begun
    <3>3. Labelled(begun)
      BY <1>2, <3>2 DEF Labelled
    <3>4. Signed(begun, sendBatchEnd(Emitted(begun)).sent)
      BY <3>2, <3>3, BatchAnswer
    <3> QED BY <1>2, <2>3, <3>2, <3>3, <3>4 DEF Signed
  <2>9. CASE ~isCollapsible(rb) /\ ~(Len(rb.messages) >= 2) /\ rb.batchID # 0
    <3>1. begun = rb
      <4>1. CASE Len(rb.messages) = 1
        <5>1. rb.messages # << >>
          BY <2>2, <4>1
        <5> QED BY <1>2, <2>9, <4>1, <5>1 DEF Begun
      <4>2. CASE rb.messages = << >>
        <5>1. Len(rb.messages) # 1
          BY <2>2, <4>2
        <5> QED BY <1>2, <2>9, <4>2, <5>1 DEF Begun
      <4> QED BY <2>9, <2>12, <4>1, <4>2
    <3>2. Signed(rb, sendBatchEnd(Emitted(rb)).sent)
      BY <1>2, <2>9, BatchAnswer
    <3> QED BY <2>3, <3>1, <3>2
  <2>10. CASE ~isCollapsible(rb) /\ Len(rb.messages) = 1 /\ rb.batchID = 0
    <3>1. begun = First(rb)
      <4>1. ~(Len(rb.messages) >= 2)
        BY <2>10
      <4>2. rb.messages # << >>
        BY <2>2, <2>10
      <4> QED BY <1>2, <2>10, <4>1, <4>2 DEF Begun
    <3>2. Answer(rb) = Emitted(First(rb)).sent
      <4>1. Len(rb.messages) >= 1
        BY <2>10
      <4>2. First(rb) \in Responses /\ First(rb).batchID = 0
        BY <2>6, <2>10, <4>1
      <4> QED BY <2>5, <3>1, <4>2
    <3> QED BY <1>2, <2>10, <3>2, FirstAnswer DEF First
  <2>11. CASE ~isCollapsible(rb) /\ rb.messages = << >> /\ rb.batchID = 0
    <3> DEFINE l == [Line("line", 0) EXCEPT !.label = rb.label]
    <3>1. begun = Empty(rb)
      <4>1. ~(Len(rb.messages) >= 2) /\ Len(rb.messages) # 1
        BY <2>2, <2>11
      <4> QED BY <1>2, <2>11, <4>1 DEF Begun
    <3>2. rb.sent = << >>
      BY <1>2, <2>11 DEF ResponseInv, HeadInv
    <3>3. l \in WireLines
      BY <2>2 DEF Line, WireLines
    <3>4. begun = [rb EXCEPT !.sent = Append(@, l)]
      BY <3>1 DEF Empty
    <3> HIDE DEF begun, l
    <3>5. begun \in Responses /\ begun.sent = <<l>> /\ begun.messages = << >> /\ begun.batchID = 0
      <4>1. Append(rb.sent, l) = <<l>> /\ <<l>> \in Seq(WireLines)
        BY <3>2, <3>3
      <4> QED BY <2>1, <2>11, <3>4, <4>1 DEF Responses
    <3>6. Emitted(begun).sent = <<l>>
      <4>1. Emitted(begun).sent = <<l>> \o [k \in DOMAIN << >> |-> TaggedWith(<< >>[k], 0)]
        BY <3>5 DEF Emitted, Responses
      <4>2. [k \in DOMAIN << >> |-> TaggedWith(<< >>[k], 0)] = << >>
        OBVIOUS
      <4>3. <<l>> \o << >> = <<l>>
        BY <3>3
      <4> QED BY <4>1, <4>2, <4>3
    <3>7. Answer(rb) = <<l>>
      BY <2>5, <3>5, <3>6
    <3>8. ProperAnswer(<<l>>) /\ LabelsIn(<<l>>) = {rb.label}
      BY <2>2, EmptyAnswer DEF l
    <3> QED BY <1>2, <3>7, <3>8 DEF Signed
  <2> QED BY <2>7, <2>8, <2>9, <2>10, <2>11, <2>12, <2>13
<1> QED BY <1>1, <1>2

-----------------------------------------------------------------------------
(* Messages: the labels of a session *)

CallNames == {"line", "start", "end", "echo", "flush"}

(* The calls of an answer: after k of them the buffer is f[k].             *)
Runs(f, rb0, s) == f = [k \in 0..Len(s) |-> IF k = 0 THEN rb0 ELSE Call(f[k - 1], s[k])]

(* Begun with the label `l`, and `d` nested batches deep.                  *)
Rb(rb, l, d) == ResponseInv(rb) /\ rb.label = l /\ Len(rb.nested) = IF HasCap("batch") THEN d ELSE 0

Kept(rb0, s, l, d) ==
  /\ s \in Seq(CallNames)
  /\ \E f : Runs(f, rb0, s)
  /\ \A f : Runs(f, rb0, s) => Rb(f[Len(s)], l, d)

LEMMA CallsAre ==
  ASSUME NEW rb0, NEW s, NEW l, NEW d, Kept(rb0, s, l, d)
  PROVE  Rb(Calls(rb0, s), l, d)
<1> DEFINE f == CHOOSE f : Runs(f, rb0, s)
<1>1. Runs(f, rb0, s)
  BY DEF Kept
<1>2. Calls(rb0, s) = f[Len(s)]
  BY DEF Calls, Runs
<1> QED BY <1>1, <1>2 DEF Kept

LEMMA NoCalls ==
  ASSUME NEW rb0, NEW l, NEW d, Rb(rb0, l, d)
  PROVE  Kept(rb0, << >>, l, d)
<1>1. Len(<< >>) = 0 /\ << >> \in Seq(CallNames) /\ 0..0 = {0}
  OBVIOUS
<1>2. Runs([k \in {0} |-> rb0], rb0, << >>)
  BY <1>1 DEF Runs
<1>3. ASSUME NEW f, Runs(f, rb0, << >>) PROVE f[0] = rb0
  BY <1>1, <1>3 DEF Runs
<1> QED BY <1>1, <1>2, <1>3 DEF Kept

\* `t` is `s` and one more call, `c`.
Adds(s, c, t) ==
  t \in Seq(CallNames) /\ Len(t) = Len(s) + 1 /\ t[Len(s) + 1] = c /\ \A k \in 1..Len(s) : t[k] = s[k]

LEMMA OneMoreCall ==
  ASSUME NEW rb0, NEW s, NEW l, NEW d, Kept(rb0, s, l, d), NEW c, NEW t, Adds(s, c, t), NEW e,
         \A rb : Rb(rb, l, d) => Rb(Call(rb, c), l, e)
  PROVE  Kept(rb0, t, l, e)
<1> DEFINE n == Len(s)
<1>1. /\ n \in Nat /\ t \in Seq(CallNames) /\ Len(t) = n + 1 /\ t[n + 1] = c /\ \A k \in 1..n : t[k] = s[k]
  <2>1. s \in Seq(CallNames)
    BY DEF Kept
  <2> QED BY <2>1 DEF Adds
<1>2. /\ n + 1 # 0 /\ (n + 1) - 1 = n /\ n \in 0..n /\ n + 1 \in 0..(n + 1) /\ n + 1 \notin 0..n
      /\ \A k \in 0..(n + 1) : k \in 0..n \/ k = n + 1
      /\ \A k \in 0..n : k \in 0..(n + 1) /\ (k = 0 \/ (k \in 1..n /\ k - 1 \in 0..n))
  BY <1>1
<1> HIDE DEF n
<1>3. \E f : Runs(f, rb0, t)
  <2>1. PICK f : Runs(f, rb0, s)
    BY DEF Kept
  <2> DEFINE g == [k \in 0..(n + 1) |-> IF k = n + 1 THEN Call(f[n], c) ELSE f[k]]
  <2>2. f = [k \in 0..n |-> IF k = 0 THEN rb0 ELSE Call(f[k - 1], s[k])]
    BY <2>1 DEF Runs, n
  <2>3. ASSUME NEW k \in 0..(n + 1)
        PROVE  g[k] = IF k = 0 THEN rb0 ELSE Call(g[k - 1], t[k])
    <3>1. CASE k = n + 1
      <4>1. g[n] = f[n]
        BY <1>2
      <4> QED BY <1>1, <1>2, <3>1, <4>1
    <3>2. CASE k = 0
      <4>1. g[0] = f[0] /\ f[0] = rb0
        BY <1>2, <2>2, <3>2
      <4> QED BY <3>2, <4>1
    <3>3. CASE k \in 1..n /\ k # 0
      <4>1. k - 1 \in 0..n /\ k \in 0..n
        BY <1>1, <3>3
      <4>2. g[k] = f[k] /\ g[k - 1] = f[k - 1]
        BY <1>2, <4>1
      <4>3. f[k] = Call(f[k - 1], s[k])
        BY <2>2, <3>3, <4>1
      <4> QED BY <1>1, <3>3, <4>2, <4>3
    <3> QED BY <1>2, <3>1, <3>2, <3>3
  <2>4. g = [k \in 0..(n + 1) |-> IF k = 0 THEN rb0 ELSE Call(g[k - 1], t[k])]
    <3>1. g = [k \in 0..(n + 1) |-> g[k]]
      OBVIOUS
    <3> HIDE DEF g
    <3> QED BY <2>3, <3>1
  <2> HIDE DEF g
  <2>5. Runs(g, rb0, t)
    BY <1>1, <2>4 DEF Runs
  <2> QED BY <2>5
<1>4. ASSUME NEW g, Runs(g, rb0, t) PROVE Rb(g[Len(t)], l, e)
  <2>1. g = [k \in 0..(n + 1) |-> IF k = 0 THEN rb0 ELSE Call(g[k - 1], t[k])]
    BY <1>1, <1>4 DEF Runs
  <2> DEFINE f == [k \in 0..n |-> g[k]]
  <2>2. ASSUME NEW k \in 0..n PROVE f[k] = IF k = 0 THEN rb0 ELSE Call(f[k - 1], s[k])
    <3>1. k \in 0..(n + 1) /\ (k = 0 \/ (k \in 1..n /\ k - 1 \in 0..n))
      BY <1>2
    <3>2. g[k] = IF k = 0 THEN rb0 ELSE Call(g[k - 1], t[k])
      BY <2>1, <3>1
    <3> QED BY <1>1, <3>1, <3>2
  <2>3. f = [k \in 0..n |-> IF k = 0 THEN rb0 ELSE Call(f[k - 1], s[k])]
    <3>1. f = [k \in 0..n |-> f[k]]
      OBVIOUS
    <3> HIDE DEF f
    <3> QED BY <2>2, <3>1
  <2>4. f[n] = g[n]
    BY <1>2
  <2> HIDE DEF f
  <2>5. Runs(f, rb0, s)
    BY <2>3 DEF Runs, n
  <2>6. Rb(g[n], l, d)
    BY <2>4, <2>5 DEF Kept, n
  <2>7. g[n + 1] = Call(g[n], c)
    <3>1. g[n + 1] = IF n + 1 = 0 THEN rb0 ELSE Call(g[(n + 1) - 1], t[n + 1])
      BY <1>2, <2>1
    <3> QED BY <1>1, <1>2, <3>1
  <2> QED BY <1>1, <2>6, <2>7
<1> QED BY <1>1, <1>3, <1>4 DEF Kept

LEMMA EachCall ==
  ASSUME NEW l, NEW d \in Nat
  PROVE  /\ \A rb : Rb(rb, l, d) => Rb(Call(rb, "line"), l, d) /\ Rb(Call(rb, "flush"), l, d) /\ Rb(Call(rb, "echo"), l, d)
         /\ \A rb : Rb(rb, l, d) => Rb(Call(rb, "start"), l, d + 1)
         /\ \A rb : Rb(rb, l, d + 1) => Rb(Call(rb, "end"), l, d)
<1>1. ASSUME NEW rb, Rb(rb, l, d)
      PROVE  Rb(Call(rb, "line"), l, d) /\ Rb(Call(rb, "flush"), l, d) /\ Rb(Call(rb, "echo"), l, d)
  <2>1. Call(rb, "line") = Reply(rb) /\ Call(rb, "flush") = flushInternal(rb, FALSE) /\ Call(rb, "echo") = addEchoMessage(rb, 0)
    BY Zenon DEF Call
  <2>2. Rb(Reply(rb), l, d)
    BY <1>1, ReplyKeeps DEF Rb
  <2>3. Rb(flushInternal(rb, FALSE), l, d)
    BY <1>1, FlushKeeps DEF Rb
  <2>4. Rb(addEchoMessage(rb, 0), l, d)
    BY <1>1, EchoKeeps DEF Rb
  <2> QED BY <2>1, <2>2, <2>3, <2>4
<1>2. ASSUME NEW rb, Rb(rb, l, d) PROVE Rb(Call(rb, "start"), l, d + 1)
  <2> DEFINE new == StartNestedBatch(rb)
  <2>1. Call(rb, "start") = new
    BY Zenon DEF Call
  <2>2. CASE HasCap("batch")
    <3>1. ResponseInv(new) /\ new.label = rb.label /\ new.nested = Append(rb.nested, rb.next)
      BY <1>2, <2>2, StartKeeps DEF Rb
    <3>2. rb.nested \in Seq(Nat) /\ rb.next \in Nat
      BY <1>2 DEF Rb, ResponseInv, Responses
    <3> HIDE DEF new
    <3>3. Len(new.nested) = Len(rb.nested) + 1
      BY <3>1, <3>2
    <3> QED BY <1>2, <2>1, <2>2, <3>1, <3>3 DEF Rb
  <2>3. CASE ~HasCap("batch")
    BY <1>2, <2>1, <2>3 DEF Rb, StartNestedBatch
  <2> QED BY <2>2, <2>3
<1>3. ASSUME NEW rb, Rb(rb, l, d + 1) PROVE Rb(Call(rb, "end"), l, d)
  <2> DEFINE new == EndNestedBatch(rb)
  <2>1. Call(rb, "end") = new
    BY Zenon DEF Call
  <2>2. ResponseInv(rb) /\ rb.label = l /\ rb.nested \in Seq(Nat)
    BY <1>3 DEF Rb, ResponseInv, Responses
  <2>3. CASE HasCap("batch")
    <3>1. Len(rb.nested) = d + 1
      BY <1>3, <2>3 DEF Rb
    <3>2. rb.nested # << >>
      BY <3>1
    <3>3. ResponseInv(new) /\ new.label = rb.label /\ Len(new.nested) = Len(rb.nested) - 1
      BY <2>2, <3>2, EndKeeps
    <3> HIDE DEF new
    <3>4. Len(new.nested) = d
      BY <3>1, <3>3
    <3> QED BY <2>1, <2>2, <2>3, <3>3, <3>4 DEF Rb
  <2>4. CASE ~HasCap("batch")
    <3>1. Len(rb.nested) = 0
      BY <1>3, <2>4 DEF Rb
    <3>2. rb.nested = << >>
      BY <2>2, <3>1
    <3>3. new = rb
      BY <3>2 DEF EndNestedBatch
    <3> QED BY <1>3, <2>1, <2>4, <3>1, <3>3 DEF Rb
  <2> QED BY <2>3, <2>4
<1> QED BY <1>1, <1>2, <1>3

LEMMA Grown ==
  ASSUME NEW rb0, NEW s, NEW l, NEW d \in {0, 1, 2}, Kept(rb0, s, l, d), NEW c, NEW t, Adds(s, c, t)
  PROVE  /\ c \in {"line", "flush", "echo"} => Kept(rb0, t, l, d)
         /\ c = "start" /\ d = 0 => Kept(rb0, t, l, 1)
         /\ c = "start" /\ d = 1 => Kept(rb0, t, l, 2)
         /\ c = "end" /\ d = 1 => Kept(rb0, t, l, 0)
         /\ c = "end" /\ d = 2 => Kept(rb0, t, l, 1)
<1>1. d \in Nat /\ 0 \in Nat /\ 1 \in Nat /\ 0 + 1 = 1 /\ 1 + 1 = 2
  OBVIOUS
<1>2. ASSUME c \in {"line", "flush", "echo"} PROVE Kept(rb0, t, l, d)
  <2>1. \A rb : Rb(rb, l, d) => Rb(Call(rb, c), l, d)
    BY <1>1, <1>2, EachCall
  <2> QED BY <2>1, OneMoreCall
<1>3. ASSUME c = "start" PROVE Kept(rb0, t, l, d + 1)
  <2>1. \A rb : Rb(rb, l, d) => Rb(Call(rb, c), l, d + 1)
    BY <1>1, <1>3, EachCall
  <2> QED BY <2>1, OneMoreCall
<1>4. ASSUME c = "end", NEW e \in {0, 1}, d = e + 1 PROVE Kept(rb0, t, l, e)
  <2>1. \A rb : Rb(rb, l, d) => Rb(Call(rb, c), l, e)
    BY <1>1, <1>4, EachCall
  <2> QED BY <2>1, OneMoreCall
<1> QED BY <1>1, <1>2, <1>3, <1>4

(* What the handlers answer with.                                          *)
Shapes ==
  Scripts \cup {<<"echo">>, <<"echo", "line">>, <<"start", "line", "line", "end">>}

LEMMA OneLess == 1..1 = {1} /\ \A k \in 1..1 : k = 1
OBVIOUS

LEMMA ShapesKept ==
  ASSUME NEW rb0, NEW l, Rb(rb0, l, 0)
  PROVE  \A s \in Shapes : Kept(rb0, s, l, 0)
<1>1. Kept(rb0, << >>, l, 0)
  BY NoCalls
<1>2. Kept(rb0, <<"line">>, l, 0)
  <2>1. Adds(<< >>, "line", <<"line">>)
    BY OneLess DEF Adds, CallNames
  <2> QED BY <1>1, <2>1, Grown
<1>3. Kept(rb0, <<"line", "line">>, l, 0)
  <2>1. Adds(<<"line">>, "line", <<"line", "line">>)
    BY OneLess DEF Adds, CallNames
  <2> QED BY <1>2, <2>1, Grown
<1>4. Kept(rb0, <<"start">>, l, 1)
  <2>1. Adds(<< >>, "start", <<"start">>)
    BY OneLess DEF Adds, CallNames
  <2> QED BY <1>1, <2>1, Grown
<1>5. Kept(rb0, <<"start", "line">>, l, 1)
  <2>1. Adds(<<"start">>, "line", <<"start", "line">>)
    BY OneLess DEF Adds, CallNames
  <2> QED BY <1>4, <2>1, Grown
<1>6. Kept(rb0, <<"start", "line", "end">>, l, 0)
  <2>1. Adds(<<"start", "line">>, "end", <<"start", "line", "end">>)
    BY OneLess DEF Adds, CallNames
  <2> QED BY <1>5, <2>1, Grown
<1>7. Kept(rb0, <<"line", "start">>, l, 1)
  <2>1. Adds(<<"line">>, "start", <<"line", "start">>)
    BY OneLess DEF Adds, CallNames
  <2> QED BY <1>2, <2>1, Grown
<1>8. Kept(rb0, <<"line", "start", "line">>, l, 1)
  <2>1. Adds(<<"line", "start">>, "line", <<"line", "start", "line">>)
    BY OneLess DEF Adds, CallNames
  <2> QED BY <1>7, <2>1, Grown
<1>9. Kept(rb0, <<"line", "start", "line", "end">>, l, 0)
  <2>1. Adds(<<"line", "start", "line">>, "end", <<"line", "start", "line", "end">>)
    BY OneLess DEF Adds, CallNames
  <2> QED BY <1>8, <2>1, Grown
<1>10. Kept(rb0, <<"line", "flush">>, l, 0)
  <2>1. Adds(<<"line">>, "flush", <<"line", "flush">>)
    BY OneLess DEF Adds, CallNames
  <2> QED BY <1>2, <2>1, Grown
<1>11. Kept(rb0, <<"line", "flush", "start">>, l, 1)
  <2>1. Adds(<<"line", "flush">>, "start", <<"line", "flush", "start">>)
    BY OneLess DEF Adds, CallNames
  <2> QED BY <1>10, <2>1, Grown
<1>12. Kept(rb0, <<"line", "flush", "start", "line">>, l, 1)
  <2>1. Adds(<<"line", "flush", "start">>, "line", <<"line", "flush", "start", "line">>)
    BY OneLess DEF Adds, CallNames
  <2> QED BY <1>11, <2>1, Grown
<1>13. Kept(rb0, <<"line", "flush", "start", "line", "end">>, l, 0)
  <2>1. Adds(<<"line", "flush", "start", "line">>, "end", <<"line", "flush", "start", "line", "end">>)
    BY OneLess DEF Adds, CallNames
  <2> QED BY <1>12, <2>1, Grown
<1>14. Kept(rb0, <<"line", "flush", "start", "line", "end", "flush">>, l, 0)
  <2>1. Adds(<<"line", "flush", "start", "line", "end">>, "flush", <<"line", "flush", "start", "line", "end", "flush">>)
    BY OneLess DEF Adds, CallNames
  <2> QED BY <1>13, <2>1, Grown
<1>15. Kept(rb0, <<"start", "start">>, l, 2)
  <2>1. Adds(<<"start">>, "start", <<"start", "start">>)
    BY OneLess DEF Adds, CallNames
  <2> QED BY <1>4, <2>1, Grown
<1>16. Kept(rb0, <<"start", "start", "line">>, l, 2)
  <2>1. Adds(<<"start", "start">>, "line", <<"start", "start", "line">>)
    BY OneLess DEF Adds, CallNames
  <2> QED BY <1>15, <2>1, Grown
<1>17. Kept(rb0, <<"start", "start", "line", "end">>, l, 1)
  <2>1. Adds(<<"start", "start", "line">>, "end", <<"start", "start", "line", "end">>)
    BY OneLess DEF Adds, CallNames
  <2> QED BY <1>16, <2>1, Grown
<1>18. Kept(rb0, <<"start", "start", "line", "end", "end">>, l, 0)
  <2>1. Adds(<<"start", "start", "line", "end">>, "end", <<"start", "start", "line", "end", "end">>)
    BY OneLess DEF Adds, CallNames
  <2> QED BY <1>17, <2>1, Grown
<1>19. Kept(rb0, <<"start", "line", "end", "start">>, l, 1)
  <2>1. Adds(<<"start", "line", "end">>, "start", <<"start", "line", "end", "start">>)
    BY OneLess DEF Adds, CallNames
  <2> QED BY <1>6, <2>1, Grown
<1>20. Kept(rb0, <<"start", "line", "end", "start", "line">>, l, 1)
  <2>1. Adds(<<"start", "line", "end", "start">>, "line", <<"start", "line", "end", "start", "line">>)
    BY OneLess DEF Adds, CallNames
  <2> QED BY <1>19, <2>1, Grown
<1>21. Kept(rb0, <<"start", "line", "end", "start", "line", "end">>, l, 0)
  <2>1. Adds(<<"start", "line", "end", "start", "line">>, "end", <<"start", "line", "end", "start", "line", "end">>)
    BY OneLess DEF Adds, CallNames
  <2> QED BY <1>20, <2>1, Grown
<1>22. Kept(rb0, <<"line", "flush", "line">>, l, 0)
  <2>1. Adds(<<"line", "flush">>, "line", <<"line", "flush", "line">>)
    BY OneLess DEF Adds, CallNames
  <2> QED BY <1>10, <2>1, Grown
<1>23. Kept(rb0, <<"echo">>, l, 0)
  <2>1. Adds(<< >>, "echo", <<"echo">>)
    BY OneLess DEF Adds, CallNames
  <2> QED BY <1>1, <2>1, Grown
<1>24. Kept(rb0, <<"echo", "line">>, l, 0)
  <2>1. Adds(<<"echo">>, "line", <<"echo", "line">>)
    BY OneLess DEF Adds, CallNames
  <2> QED BY <1>23, <2>1, Grown
<1>25. Kept(rb0, <<"start", "line", "line">>, l, 1)
  <2>1. Adds(<<"start", "line">>, "line", <<"start", "line", "line">>)
    BY OneLess DEF Adds, CallNames
  <2> QED BY <1>5, <2>1, Grown
<1>26. Kept(rb0, <<"start", "line", "line", "end">>, l, 0)
  <2>1. Adds(<<"start", "line", "line">>, "end", <<"start", "line", "line", "end">>)
    BY OneLess DEF Adds, CallNames
  <2> QED BY <1>25, <2>1, Grown
<1> QED BY <1>1, <1>2, <1>3, <1>6, <1>9, <1>14, <1>18, <1>21, <1>22, <1>23, <1>24, <1>26 DEF Shapes, Scripts

LEMMA CallsKeep ==
  ASSUME NEW rb, NEW l, Rb(rb, l, 0), NEW s \in Shapes
  PROVE  Rb(Calls(rb, s), l, 0)
BY ShapesKept, CallsAre

LEMMA AnswersAre ==
  /\ \A s \in Answers : s \in {<< >>, <<"line">>, <<"echo">>, <<"echo", "line">>}
  /\ \A s \in RelayAnswers : s \in {<< >>, <<"line">>}
<1>1. ASSUME NEW x \in Situations
      PROVE  dispatchMessageToTarget(x).calls \in {<< >>, <<"line">>, <<"echo">>, <<"echo", "line">>}
  <2>1. x.to \in {"channel", "user", "nobody", "service", "everyone"} /\ x.account \in BOOLEAN /\ x.notice \in BOOLEAN
    BY DEF Situations
  <2>2. SendSplitMessage(x).calls \in {<< >>, <<"line">>, <<"echo">>}
    BY Zenon DEF SendSplitMessage
  <2>3. SendDirectMessage(x).calls \in {<< >>, <<"line">>, <<"echo">>, <<"echo", "line">>}
    BY Zenon DEF SendDirectMessage
  <2>4. CASE x.to = "channel"
    BY <2>2, <2>4 DEF dispatchMessageToTarget
  <2>5. CASE x.to = "user"
    BY <2>3, <2>5 DEF dispatchMessageToTarget
  <2>6. CASE x.to = "nobody"
    BY <2>1, <2>6 DEF dispatchMessageToTarget
  <2>7. CASE x.to = "service"
    BY <2>1, <2>7 DEF dispatchMessageToTarget
  <2>8. CASE x.to = "everyone"
    BY <2>8 DEF dispatchMessageToTarget
  <2> QED BY <2>1, <2>4, <2>5, <2>6, <2>7, <2>8
<1>2. \A x : relaymsgHandler(x).calls \in {<< >>, <<"line">>}
  BY DEF relaymsgHandler
<1> QED BY <1>1, <1>2 DEF Answers, RelayAnswers

LEMMA NewBuffer ==
  ASSUME NEW l \in Nat
  PROVE  Rb(NewResponseBuffer(l), l, 0)
<1> DEFINE rb == NewResponseBuffer(l)
<1>1. /\ rb.label = l /\ rb.batchID = 0 /\ rb.nested = << >> /\ rb.messages = << >> /\ rb.sent = << >> /\ rb.next = 1
      /\ rb \in Responses
  BY DEF NewResponseBuffer, Responses
<1> HIDE DEF rb
<1>2. AllLines(rb) = << >> /\ DOMAIN << >> = {} /\ Len(<< >>) = 0
  BY <1>1 DEF AllLines
<1>3. Opened(rb) = {}
  BY <1>1, <1>2 DEF Opened, Nested
<1>4. Bracketed(<< >>, {}, 1) /\ Covered(<< >>)
  BY <1>2 DEF Bracketed, Covered, FreeNames, OnceEach, EndsAreBegun, TagsAreInside, OpenAre
<1>5. Stacked(rb) /\ Plain(rb.messages) /\ HeadInv(rb)
  BY <1>1, <1>2 DEF Stacked, Plain, HeadInv
<1>6. ResponseInv(rb)
  BY <1>1, <1>2, <1>3, <1>4, <1>5 DEF ResponseInv
<1> QED BY <1>1, <1>2, <1>6 DEF Rb, rb

LEMMA ReplyAnswers ==
  ASSUME NEW rb, NEW l, Rb(rb, l, 0)
  PROVE  Rb(Reply(rb), l, 0)
BY ReplyKeeps DEF Rb

(* What a command comes to: it is answered, and a batch that fails is gone *)
(* with its label; it begins a batch, which takes the label along; or it   *)
(* completes a batch and is answered under the label of that.              *)
BatchKept(old, new) == (new.tag = old.tag /\ new.label = old.label) \/ (new.tag = "" /\ new.label = 0)

Completes(ses, m) ==
  /\ m.op = "-" /\ m.tag = (IF ses.multiline.tag # "" THEN ses.multiline.tag ELSE ses.token.tag)
  /\ ses.multiline.tag # "" => ses.multiline.lines > 0

Waiting(ses) == IF ses.multiline.tag # "" THEN ses.multiline.label ELSE ses.token.label

BothKept(ses, r) == r.ses.n = ses.n /\ BatchKept(ses.multiline, r.ses.multiline) /\ BatchKept(ses.token, r.ses.token)

Answered(ses, l, m, r) == ~Completes(ses, m) /\ Rb(r.rb, l, 0) /\ BothKept(ses, r)

Takes(ses, l, s) ==
  /\ s.n = ses.n
  /\ \/ s.multiline.tag = "a" /\ s.multiline.label = l /\ s.token = ses.token
     \/ s.token.tag = "a" /\ s.token.label = l /\ s.multiline = ses.multiline

Postponed(ses, l, m, r) ==
  m.op = "+" /\ ses.multiline.tag = "" /\ ses.token.tag = "" /\ Rb(r.rb, 0, 0) /\ Takes(ses, l, r.ses)

Completed(ses, l, m, r) ==
  /\ Completes(ses, m) /\ Rb(r.rb, Waiting(ses), 0)
  /\ BothKept(ses, r) /\ r.ses.multiline.tag = "" /\ r.ses.token.tag = ""

Outcome(ses, l, m, r) == Answered(ses, l, m, r) \/ Postponed(ses, l, m, r) \/ Completed(ses, l, m, r)

LEMMA EndsKeep ==
  ASSUME NEW ses \in Sessions, NEW rb
  PROVE  /\ BothKept(ses, Result(ses, rb))
         /\ BothKept(ses, Result(EndMultilineBatch(ses), rb))
         /\ BothKept(ses, Result([ses EXCEPT !.token = NoBatch], rb))
         /\ BothKept(ses, Result([EndMultilineBatch(ses) EXCEPT !.token = NoBatch], rb))
BY DEF BothKept, BatchKept, Result, EndMultilineBatch, NoBatch, Sessions

LEMMA DispatchKeeps ==
  ASSUME NEW x \in Nat, NEW n \in Nat, NEW s \in Answers \cup {<< >>}
  PROVE  LET rb == NewResponseBuffer(x)
         IN Rb(IF s # << >> /\ s[1] = "echo" THEN Calls(addEchoMessage(rb, n), Tail(s)) ELSE Calls(rb, s), x, 0)
<1> DEFINE rb == NewResponseBuffer(x)
           e == addEchoMessage(rb, n)
<1>1. Rb(rb, x, 0)
  BY NewBuffer
<1>2. Rb(e, x, 0)
  <2> HIDE DEF rb
  <2> QED BY <1>1, EchoKeeps DEF Rb
<1> HIDE DEF rb, e
<1>3. s \in {<< >>, <<"line">>, <<"echo">>, <<"echo", "line">>}
  BY AnswersAre
<1>4. s \in Shapes
  BY <1>3 DEF Shapes, Scripts
<1>5. Rb(Calls(rb, s), x, 0)
  BY <1>1, <1>4, CallsKeep
<1>6. ASSUME s # << >>, s[1] = "echo" PROVE Rb(Calls(e, Tail(s)), x, 0)
  <2>1. Tail(<<"echo">>) = << >> /\ Tail(<<"echo", "line">>) = <<"line">> /\ <<"line">>[1] = "line"
    OBVIOUS
  <2>2. Tail(s) \in {<< >>, <<"line">>}
    BY <1>3, <1>6, <2>1
  <2>3. Tail(s) \in Shapes
    BY <2>2 DEF Shapes, Scripts
  <2> QED BY <1>2, <2>3, CallsKeep
<1> QED BY <1>5, <1>6 DEF rb, e

LEMMA Relabel ==
  ASSUME NEW l, NEW x
  PROVE  /\ [NewResponseBuffer(l) EXCEPT !.label = x] = NewResponseBuffer(x)
         /\ NewResponseBuffer(l).label = l
BY DEF NewResponseBuffer

LEMMA ValidateAnswers ==
  ASSUME NEW rb, NEW l, Rb(rb, l, 0), NEW valid
  PROVE  Rb(performTokenValidate(rb, valid), l, 0)
<1>1. <<"start", "line", "line", "end">> \in Shapes
  BY DEF Shapes
<1> QED BY <1>1, CallsKeep, ReplyAnswers DEF performTokenValidate

LEMMA ResultIs == ASSUME NEW ses, NEW rb PROVE Result(ses, rb).ses = ses /\ Result(ses, rb).rb = rb
BY DEF Result

LEMMA FailedOutcome ==
  ASSUME NEW ses \in Sessions, NEW l \in Nat, NEW m, ~Completes(ses, m), NEW rb, Rb(rb, l, 0),
         NEW s \in {ses, EndMultilineBatch(ses), [ses EXCEPT !.token = NoBatch], [EndMultilineBatch(ses) EXCEPT !.token = NoBatch]},
         NEW r, r = Result(s, rb)
  PROVE  Outcome(ses, l, m, r)
<1>1. BothKept(ses, r)
  BY EndsKeep
<1>2. r.rb = rb
  BY ResultIs
<1> QED BY <1>1, <1>2 DEF Outcome, Answered

LEMMA CompletedOutcome ==
  ASSUME NEW ses \in Sessions, NEW l, NEW m, Completes(ses, m), NEW rb, Rb(rb, Waiting(ses), 0),
         NEW s \in {EndMultilineBatch(ses), [ses EXCEPT !.token = NoBatch]}, s.multiline.tag = "", s.token.tag = "",
         NEW r, r = Result(s, rb)
  PROVE  Outcome(ses, l, m, r)
<1>1. BothKept(ses, r)
  BY EndsKeep
<1>2. r.rb = rb /\ r.ses = s
  BY ResultIs
<1> QED BY <1>1, <1>2 DEF Outcome, Completed

LEMMA PostponedOutcome ==
  ASSUME NEW ses, NEW l, NEW m, m.op = "+", ses.multiline.tag = "", ses.token.tag = "", NEW rb, Rb(rb, 0, 0),
         NEW s, Takes(ses, l, s), NEW r, r = Result(s, rb)
  PROVE  Outcome(ses, l, m, r)
<1>1. r.rb = rb /\ r.ses = s
  BY ResultIs
<1> QED BY <1>1 DEF Outcome, Postponed

\* When the handler is called.
MultilineCall(ses, m) ==
  \/ m.op = "+" /\ m.tag # "invalid" /\ ses.multiline.tag = "" /\ ses.token.tag = ""
  \/ m.op = "-" /\ ses.multiline.tag # ""

LEMMA MultilineOutcome ==
  ASSUME NEW ses \in Sessions, OneBatch(ses), NEW l \in Nat, NEW m \in Lines("BATCH"), NEW r,
         r = batchHandlerMultiline(ses, NewResponseBuffer(l), m), MultilineCall(ses, m)
  PROVE  Outcome(ses, l, m, r)
<1> DEFINE rb == NewResponseBuffer(l)
           ended == EndMultilineBatch(ses)
           x == ses.multiline.label
           n == ses.multiline.lines
           failed == IF ses.multiline.notice THEN rb ELSE Reply(rb)
           started == StartMultilineBatch(ses, m.tag, l)
           e == addEchoMessage(NewResponseBuffer(x), n)
           d == IF m.answer # << >> /\ m.answer[1] = "echo" THEN Calls(e, Tail(m.answer)) ELSE Calls(NewResponseBuffer(x), m.answer)
<1>1. rb.label = l /\ [rb EXCEPT !.label = 0] = NewResponseBuffer(0) /\ [rb EXCEPT !.label = x] = NewResponseBuffer(x)
  BY Relabel
<1>2. r = CASE m.op = "+" -> IF m.short THEN Result(ended, failed) ELSE Result(started, NewResponseBuffer(0))
            [] m.op = "-" -> IF m.tag # ses.multiline.tag \/ n = 0 THEN Result(ended, failed) ELSE Result(ended, d)
  BY Zenon, <1>1 DEF batchHandlerMultiline
<1>3. Rb(failed, l, 0) /\ Rb(NewResponseBuffer(0), 0, 0)
  BY NewBuffer, ReplyAnswers
<1>4. ses.multiline \in Batches /\ x \in Nat /\ n \in Nat
  BY DEF Sessions, Batches
<1>5. Rb(d, x, 0)
  <2>1. m.answer \in Answers \cup {<< >>}
    BY DEF Lines
  <2> QED BY <1>4, <2>1, DispatchKeeps
<1>6. ended.multiline.tag = "" /\ ended.token = ses.token
  BY DEF EndMultilineBatch, NoBatch, Sessions
<1>7. /\ started.multiline.tag = m.tag /\ started.multiline.label = l /\ started.token = ses.token /\ started.n = ses.n
  BY DEF StartMultilineBatch, NoBatch, Sessions
<1>8. m.op = "+" /\ m.tag # "invalid" => m.tag = "a"
  BY DEF Lines
<1>11. n = 0 <=> ~(n > 0)
  <2>1. \A k \in Nat : k = 0 <=> ~(k > 0)
    OBVIOUS
  <2> QED BY <1>4, <2>1
<1> HIDE DEF rb, ended, x, n, failed, started, e, d
<1>9. CASE m.op = "+"
  <2>1. ~Completes(ses, m)
    BY <1>9 DEF Completes
  <2>2. CASE m.short
    <3>1. r = Result(ended, failed)
      BY <1>2, <1>9, <2>2
    <3> QED BY <1>3, <2>1, <3>1, FailedOutcome DEF ended
  <2>3. CASE ~m.short
    <3>1. r = Result(started, NewResponseBuffer(0))
      BY <1>2, <1>9, <2>3
    <3>2. ses.multiline.tag = "" /\ ses.token.tag = "" /\ Takes(ses, l, started)
      BY <1>7, <1>8, <1>9 DEF Takes, MultilineCall
    <3> QED BY <1>3, <1>9, <3>1, <3>2, PostponedOutcome
  <2> QED BY <2>2, <2>3
<1>10. CASE m.op = "-"
  <2>1. ses.multiline.tag # "" /\ ses.token.tag = ""
    BY <1>10 DEF OneBatch, MultilineCall
  <2>2. CASE m.tag # ses.multiline.tag \/ n = 0
    <3>1. r = Result(ended, failed)
      BY <1>2, <1>10, <2>2
    <3>2. ~Completes(ses, m)
      <4>1. n = 0 => ~(ses.multiline.lines > 0)
        BY <1>11 DEF n
      <4> QED BY <2>1, <2>2, <4>1 DEF Completes
    <3> QED BY <1>3, <3>1, <3>2, FailedOutcome DEF ended
  <2>3. CASE ~(m.tag # ses.multiline.tag \/ n = 0)
    <3>1. r = Result(ended, d)
      BY <1>2, <1>10, <2>3
    <3>2. Completes(ses, m)
      <4>1. ses.multiline.lines > 0
        BY <1>11, <2>3 DEF n
      <4> QED BY <1>10, <2>1, <2>3, <4>1 DEF Completes
    <3>3. Waiting(ses) = x
      BY <2>1 DEF Waiting, x
    <3>4. ended.multiline.tag = "" /\ ended.token.tag = ""
      BY <1>6, <2>1
    <3> QED BY <1>5, <3>1, <3>2, <3>3, <3>4, CompletedOutcome DEF ended
  <2> QED BY <2>2, <2>3
<1> QED BY <1>9, <1>10 DEF MultilineCall

LEMMA TokenStarts ==
  ASSUME NEW ses, NEW l, NEW m
  PROVE  batchHandlerTokenStart(ses, NewResponseBuffer(l), m) =
           IF m.short THEN Result(ses, Reply(NewResponseBuffer(l)))
           ELSE Result([ses EXCEPT !.token = [NoBatch EXCEPT !.tag = m.tag, !.label = l]], NewResponseBuffer(0))
<1>1. NewResponseBuffer(l).label = l
  BY Relabel
<1>2. [NewResponseBuffer(l) EXCEPT !.label = 0] = NewResponseBuffer(0)
  BY Relabel
<1> QED BY Zenon, <1>1, <1>2 DEF batchHandlerTokenStart, failBatch

LEMMA TokenStartOutcome ==
  ASSUME NEW ses \in Sessions, NEW l \in Nat, NEW m \in Lines("BATCH"), NEW r,
         r = batchHandlerTokenStart(ses, NewResponseBuffer(l), m),
         m.op = "+", m.tag # "invalid", ses.multiline.tag = "", ses.token.tag = ""
  PROVE  Outcome(ses, l, m, r)
<1> DEFINE rb == NewResponseBuffer(l)
           b == [NoBatch EXCEPT !.tag = m.tag, !.label = l]
           started == [ses EXCEPT !.token = b]
<1>1. r = IF m.short THEN Result(ses, Reply(rb)) ELSE Result(started, NewResponseBuffer(0))
  BY TokenStarts
<1>2. Rb(Reply(rb), l, 0) /\ Rb(NewResponseBuffer(0), 0, 0)
  BY NewBuffer, ReplyAnswers
<1>3. ~Completes(ses, m)
  BY DEF Completes
<1>4. m.tag = "a"
  BY DEF Lines
<1>5. started.token.tag = m.tag /\ started.token.label = l /\ started.multiline = ses.multiline /\ started.n = ses.n
  BY DEF NoBatch, Sessions
<1> HIDE DEF rb, started
<1>6. CASE m.short
  <2>1. r = Result(ses, Reply(rb))
    BY <1>1, <1>6
  <2> QED BY <1>2, <1>3, <2>1, FailedOutcome
<1>7. CASE ~m.short
  <2>1. r = Result(started, NewResponseBuffer(0))
    BY <1>1, <1>7
  <2>2. Takes(ses, l, started)
    BY <1>4, <1>5 DEF Takes
  <2> QED BY <1>2, <2>1, <2>2, PostponedOutcome
<1> QED BY <1>6, <1>7

LEMMA TokenEndOutcome ==
  ASSUME NEW ses \in Sessions, NEW l \in Nat, NEW m, NEW r,
         r = batchHandlerTokenEnd(ses, NewResponseBuffer(l), m), m.op = "-", ses.multiline.tag = "", ses.token.tag # ""
  PROVE  Outcome(ses, l, m, r)
<1> DEFINE rb == NewResponseBuffer(l)
           x == ses.token.label
           ended == [ses EXCEPT !.token = NoBatch]
           v == performTokenValidate(NewResponseBuffer(x), m.valid)
<1>1. [rb EXCEPT !.label = x] = NewResponseBuffer(x)
  <2>1. \A y : [NewResponseBuffer(l) EXCEPT !.label = y] = NewResponseBuffer(y)
    BY Relabel
  <2> QED BY <2>1
<1>2. r = IF m.tag # ses.token.tag THEN Result(ended, Reply(rb)) ELSE Result(ended, v)
  BY Zenon, <1>1 DEF batchHandlerTokenEnd, failBatch
<1>3. ses.token \in Batches /\ x \in Nat
  BY DEF Sessions, Batches
<1>4. Rb(Reply(rb), l, 0) /\ Rb(v, x, 0)
  BY <1>3, NewBuffer, ReplyAnswers, ValidateAnswers
<1>5. ended.multiline.tag = "" /\ ended.token.tag = ""
  BY DEF NoBatch, Sessions
<1> HIDE DEF rb, x, v, ended
<1>6. CASE m.tag # ses.token.tag
  <2>1. r = Result(ended, Reply(rb))
    BY <1>2, <1>6
  <2>2. ~Completes(ses, m)
    BY <1>6 DEF Completes
  <2> QED BY <1>4, <2>1, <2>2, FailedOutcome DEF ended
<1>7. CASE m.tag = ses.token.tag
  <2>1. r = Result(ended, v)
    BY <1>2, <1>7
  <2>2. Completes(ses, m) /\ Waiting(ses) = x
    BY <1>7 DEF Completes, Waiting, x
  <2> QED BY <1>4, <1>5, <2>1, <2>2, CompletedOutcome DEF ended
<1> QED BY <1>6, <1>7

LEMMA BatchOutcome ==
  ASSUME NEW ses \in Sessions, OneBatch(ses), NEW l \in Nat, NEW m \in Lines("BATCH"), NEW r,
         r = batchHandler(ses, NewResponseBuffer(l), m)
  PROVE  Outcome(ses, l, m, r)
<1> DEFINE rb == NewResponseBuffer(l)
           open == ses.multiline.tag # "" \/ ses.token.tag # ""
           reset == [EndMultilineBatch(ses) EXCEPT !.token = NoBatch]
<1>1. m.op \in {"+", "-"} /\ (m.op = "+" => m.type \in {"multiline", "token"}) /\ m.tag # "" /\ (m.op = "-" => m.tag # "invalid")
  BY DEF Lines
<1>2. CASE m.tag # "invalid" /\ m.op = "+" /\ ~open /\ m.type = "multiline"
  <2>1. r = batchHandlerMultiline(ses, rb, m)
    BY <1>2 DEF batchHandler
  <2> QED BY <1>2, <2>1, MultilineOutcome DEF MultilineCall
<1>3. CASE m.tag # "invalid" /\ m.op = "+" /\ ~open /\ m.type = "token"
  <2>1. r = batchHandlerTokenStart(ses, rb, m)
    BY <1>3 DEF batchHandler
  <2> QED BY <1>3, <2>1, TokenStartOutcome
<1>4. CASE m.tag # "invalid" /\ m.op = "-" /\ ses.multiline.tag # ""
  <2>1. r = batchHandlerMultiline(ses, rb, m)
    BY <1>4 DEF batchHandler
  <2> QED BY <1>4, <2>1, MultilineOutcome DEF MultilineCall
<1>5. CASE m.tag # "invalid" /\ m.op = "-" /\ ses.multiline.tag = "" /\ ses.token.tag # ""
  <2>1. r = batchHandlerTokenEnd(ses, rb, m)
    BY <1>5 DEF batchHandler
  <2> QED BY <1>5, <2>1, TokenEndOutcome
<1>6. CASE m.tag = "invalid" \/ (m.op = "+" /\ open) \/ (m.op = "-" /\ ~open)
  <2>1. r = Result(reset, Reply(rb))
    BY <1>6 DEF batchHandler, failBatch
  <2>2. Rb(Reply(rb), l, 0)
    BY NewBuffer, ReplyAnswers
  <2>3. ~Completes(ses, m)
    BY <1>1, <1>6 DEF Completes
  <2> QED BY <2>1, <2>2, <2>3, FailedOutcome
<1> QED BY <1>1, <1>2, <1>3, <1>4, <1>5, <1>6

LEMMA MessageOutcome ==
  ASSUME NEW ses \in Sessions, NEW l \in Nat, NEW m \in Lines("MESSAGE"), NEW r,
         r = messageHandler(ses, NewResponseBuffer(l), m)
  PROVE  Outcome(ses, l, m, r)
<1> DEFINE rb == NewResponseBuffer(l)
           ok == [ses EXCEPT !.multiline.lines = @ + 1, !.multiline.notice = m.notice]
           ended == EndMultilineBatch(ses)
           c == Calls(rb, m.answer)
<1>1. Rb(rb, l, 0) /\ Rb(Reply(rb), l, 0)
  BY NewBuffer, ReplyAnswers
<1>2. ~Completes(ses, m)
  BY DEF Completes, Lines
<1>3. r \in {Result(ses, c), Result(ended, IF m.notice THEN rb ELSE Reply(rb)), Result(ok, rb)}
  BY DEF messageHandler, absorbBatchedMessage
<1>4. Rb(c, l, 0)
  <2>1. m.answer \in Answers \cup RelayAnswers \cup {<< >>}
    BY DEF Lines
  <2>2. m.answer \in {<< >>, <<"line">>, <<"echo">>, <<"echo", "line">>}
    BY <2>1, AnswersAre
  <2>3. m.answer \in Shapes
    BY <2>2 DEF Shapes, Scripts
  <2> QED BY <1>1, <2>3, CallsKeep
<1>5. ok.multiline.tag = ses.multiline.tag /\ ok.multiline.label = ses.multiline.label /\ ok.token = ses.token /\ ok.n = ses.n
  BY DEF Sessions, Batches
<1> HIDE DEF rb, ok, ended, c
<1>6. CASE r = Result(ses, c)
  BY <1>2, <1>4, <1>6, FailedOutcome
<1>7. CASE r = Result(ended, IF m.notice THEN rb ELSE Reply(rb))
  <2>1. r = Result(ended, rb) \/ r = Result(ended, Reply(rb))
    BY <1>7
  <2> QED BY <1>1, <1>2, <2>1, FailedOutcome DEF ended
<1>8. CASE r = Result(ok, rb)
  <2>1. r.rb = rb /\ r.ses = ok
    BY <1>8, ResultIs
  <2> QED BY <1>1, <1>2, <1>5, <2>1 DEF Outcome, Answered, BothKept, BatchKept
<1> QED BY <1>3, <1>6, <1>7, <1>8

LEMMA TokenOutcome ==
  ASSUME NEW ses \in Sessions, NEW l \in Nat, NEW m \in Lines("TOKEN"), NEW r,
         r = tokenHandler(ses, NewResponseBuffer(l), m)
  PROVE  Outcome(ses, l, m, r)
<1> DEFINE rb == NewResponseBuffer(l)
           chunk == [ses EXCEPT !.token.lines = @ + 1]
           ended == [ses EXCEPT !.token = NoBatch]
<1>1. Rb(rb, l, 0) /\ Rb(Reply(rb), l, 0) /\ Rb(performTokenValidate(rb, m.valid), l, 0)
  BY NewBuffer, ReplyAnswers, ValidateAnswers
<1>2. ~Completes(ses, m)
  BY DEF Completes, Lines
<1>3. m.type \in {"servicelist", "generate", "validate", "unknown"}
  BY DEF Lines
<1>4. /\ Rb(tokenServicelistHandler(rb, m.valid), l, 0)
      /\ Rb(tokenGenerateHandler(rb, m.valid), l, 0)
  <2>1. <<"start", "line", "end">> \in Shapes /\ <<"start", "line", "line", "end">> \in Shapes
    BY DEF Shapes, Scripts
  <2> HIDE DEF rb
  <2> QED BY <1>1, <2>1, CallsKeep DEF tokenServicelistHandler, tokenGenerateHandler
<1>5. chunk.multiline = ses.multiline /\ chunk.token.tag = ses.token.tag /\ chunk.token.label = ses.token.label /\ chunk.n = ses.n
  BY DEF Sessions, Batches
<1>6. \/ r = Result(ses, rb) \/ r = Result(ses, Reply(rb)) \/ r = Result(ses, performTokenValidate(rb, m.valid))
      \/ r = Result(ses, tokenServicelistHandler(rb, m.valid)) \/ r = Result(ses, tokenGenerateHandler(rb, m.valid))
      \/ r = Result(chunk, rb) \/ r = Result(ended, Reply(rb))
  <2>1. CASE m.type = "servicelist"
    BY <2>1 DEF tokenHandler
  <2>2. CASE m.type = "generate"
    BY <2>2 DEF tokenHandler
  <2>3. CASE m.type = "unknown"
    BY <2>3 DEF tokenHandler
  <2>4. CASE m.type = "validate"
    <3>1. r = tokenValidateHandler(ses, rb, m)
      BY <2>4 DEF tokenHandler
    <3>2. ses.token.lines < MaxTokenChunks \/ ses.token.lines >= MaxTokenChunks
      <4>1. ses.token.lines \in Nat /\ MaxTokenChunks \in Nat
        BY MessagesAssumption DEF Sessions, Batches
      <4>2. \A i, j \in Nat : i < j \/ i >= j
        OBVIOUS
      <4> QED BY <4>1, <4>2
    <3>3. r \in {Result(ses, Reply(rb)), Result(ses, performTokenValidate(rb, m.valid)), Result(ses, rb),
                 Result(chunk, rb), Result(ended, Reply(rb))}
      BY Zenon, <3>1, <3>2 DEF tokenValidateHandler, failBatch
    <3> QED BY <3>3
  <2> QED BY <1>3, <2>1, <2>2, <2>3, <2>4
<1> HIDE DEF rb, chunk, ended
<1>7. CASE r = Result(chunk, rb)
  <2>1. r.rb = rb /\ r.ses = chunk
    BY <1>7, ResultIs
  <2> QED BY <1>1, <1>2, <1>5, <2>1 DEF Outcome, Answered, BothKept, BatchKept
<1>8. ASSUME NEW b, Rb(b, l, 0), r = Result(ses, b) \/ r = Result(ended, b)
      PROVE  Outcome(ses, l, m, r)
  BY <1>2, <1>8, FailedOutcome DEF ended
<1> QED BY <1>1, <1>4, <1>6, <1>7, <1>8

LEMMA CommandOutcome ==
  ASSUME NEW ses \in Sessions, OneBatch(ses), NEW l \in Nat,
         NEW command \in {"BATCH", "MESSAGE", "TOKEN", "OTHER"}, NEW m \in Lines(command), NEW r,
         r = RunCommand(ses, NewResponseBuffer(l), m)
  PROVE  Outcome(ses, l, m, r)
<1> DEFINE rb == NewResponseBuffer(l)
           ended == EndMultilineBatch(ses)
           tokenless == [ses EXCEPT !.token = NoBatch]
           other == Calls(rb, m.answer)
<1>1. m.command = command
  BY DEF Lines
<1>2. Rb(rb, l, 0) /\ Rb(Reply(rb), l, 0)
  BY NewBuffer, ReplyAnswers
<1>3. command # "BATCH" => ~Completes(ses, m)
  BY DEF Completes, Lines
<1> HIDE DEF rb, ended, tokenless, other
<1>4. CASE ses.multiline.tag # "" /\ m.command \notin {"BATCH", "MESSAGE"}
  <2>1. r = Result(ended, Reply(rb))
    <3>1. ses.token.tag = ""
      BY <1>4 DEF OneBatch
    <3> QED BY Zenon, <1>4, <3>1 DEF RunCommand, rb, ended
  <2>2. command # "BATCH"
    BY <1>1, <1>4
  <2> QED BY <1>2, <1>3, <2>1, <2>2, FailedOutcome DEF ended
<1>5. CASE /\ ~(ses.multiline.tag # "" /\ m.command \notin {"BATCH", "MESSAGE"})
           /\ ses.token.tag # "" /\ m.command \notin {"BATCH", "TOKEN"}
  <2>1. r = Result(tokenless, Reply(rb))
    BY Zenon, <1>5 DEF RunCommand, rb, tokenless
  <2>2. command # "BATCH"
    BY <1>1, <1>5
  <2> QED BY <1>2, <1>3, <2>1, <2>2, FailedOutcome DEF tokenless
<1>6. CASE /\ ~(ses.multiline.tag # "" /\ m.command \notin {"BATCH", "MESSAGE"})
           /\ ~(ses.token.tag # "" /\ m.command \notin {"BATCH", "TOKEN"})
  <2>1. CASE command = "BATCH"
    <3>1. r = batchHandler(ses, rb, m)
      BY <1>1, <1>6, <2>1 DEF RunCommand, rb
    <3> QED BY <2>1, <3>1, BatchOutcome DEF rb
  <2>2. CASE command = "MESSAGE"
    <3>1. r = messageHandler(ses, rb, m)
      BY <1>1, <1>6, <2>2 DEF RunCommand, rb
    <3> QED BY <2>2, <3>1, MessageOutcome DEF rb
  <2>3. CASE command = "TOKEN"
    <3>1. r = tokenHandler(ses, rb, m)
      BY <1>1, <1>6, <2>3 DEF RunCommand, rb
    <3> QED BY <2>3, <3>1, TokenOutcome DEF rb
  <2>4. CASE command = "OTHER"
    <3>1. r = Result(ses, other)
      BY <1>1, <1>6, <2>4 DEF RunCommand, rb, other
    <3>2. m.answer \in Shapes
      BY <2>4 DEF Lines, Shapes
    <3>3. Rb(other, l, 0)
      BY <1>2, <3>2, CallsKeep DEF other
    <3> QED BY <1>3, <2>4, <3>1, <3>3, FailedOutcome
  <2> QED BY <2>1, <2>2, <2>3, <2>4
<1> QED BY <1>4, <1>5, <1>6

-----------------------------------------------------------------------------
(* What is owed. *)

LabelsOf(ses) == {ses.multiline.label, ses.token.label}

(* The labels of the open batches are those of earlier commands.           *)
LabelsBelow(ses, n) == \A b \in {ses.multiline, ses.token} : b.label <= n /\ (b.tag = "" => b.label = 0)

Asked(m, labelled, l, r) == IF labelled /\ ~(m.op = "-" /\ r.rb.label # l) THEN owed \cup {l} ELSE owed

Dropped(ses, m, r) == IF Completes(ses, m) THEN {} ELSE LabelsOf(ses) \ LabelsOf(r.ses)

Settled(m, labelled, l, ses, r, lines, new) ==
  /\ ProperAnswer(lines) /\ LabelsIn(lines) \subseteq Asked(m, labelled, l, r)
  /\ HasCap("labeled-response") =>
       Asked(m, labelled, l, r) \ (LabelsIn(lines) \cup Dropped(ses, m, r)) = LabelsOf(new) \ {0}
  /\ LabelsBelow(new, new.n)

(* Every outcome settles what is owed.                                     *)
LEMMA OutcomeSettles ==
  ASSUME NEW ses \in Sessions, OneBatch(ses), NEW n \in Nat, ses.n = n + 1, LabelsBelow(ses, n),
         NEW labelled \in {FALSE, HasCap("labeled-response")}, NEW l, l = IF labelled THEN n + 1 ELSE 0,
         HasCap("labeled-response") => owed = LabelsOf(ses) \ {0},
         NEW m, NEW r, Outcome(ses, l, m, r), r.ses \in Sessions
  PROVE  Settled(m, labelled, l, ses, r, Answer(r.rb), r.ses)
<1> DEFINE lines == Answer(r.rb)
           x == r.rb.label
           found == LabelsIn(lines)
           wanted == Asked(m, labelled, l, r)
           dropped == Dropped(ses, m, r)
           a == ses.multiline.label
           b == ses.token.label
           c == r.ses.multiline.label
           d == r.ses.token.label
           has == HasCap("labeled-response")
<1>1. /\ a \in Nat /\ b \in Nat /\ c \in Nat /\ d \in Nat /\ n + 1 \in Nat /\ n + 1 # 0
      /\ a <= n /\ b <= n /\ a <= n + 1 /\ b <= n + 1 /\ a # n + 1 /\ b # n + 1 /\ n + 1 <= n + 1 /\ 0 <= n + 1
      /\ ses.multiline.tag = "" => a = 0
      /\ ses.token.tag = "" => b = 0
  <2>1. a \in Nat /\ b \in Nat /\ c \in Nat /\ d \in Nat
    BY DEF Sessions, Batches
  <2>2. /\ a <= n /\ b <= n /\ (ses.multiline.tag = "" => a = 0) /\ (ses.token.tag = "" => b = 0)
    BY DEF LabelsBelow
  <2>3. \A i, j \in Nat : i <= j => i <= j + 1 /\ i # j + 1
    OBVIOUS
  <2>4. n + 1 \in Nat /\ n + 1 # 0 /\ n + 1 <= n + 1 /\ 0 <= n + 1
    OBVIOUS
  <2> QED BY <2>1, <2>2, <2>3, <2>4
<1>2. /\ r.ses.n = n + 1
      /\ \E k : Rb(r.rb, k, 0)
  BY DEF Outcome, Answered, Postponed, Completed, BothKept, Takes
<1>3. Signed(r.rb, lines)
  <2>1. PICK k : Rb(r.rb, k, 0)
    BY <1>2
  <2>2. ResponseInv(r.rb) /\ r.rb.nested \in Seq(Nat) /\ Len(r.rb.nested) = 0
    BY <2>1 DEF Rb, ResponseInv, Responses
  <2>3. r.rb.nested = << >>
    BY <2>2
  <2> QED BY <2>2, <2>3, FlushAnswers
<1>4. ProperAnswer(lines) /\ found = IF has /\ x # 0 THEN {x} ELSE {}
  BY <1>3 DEF Signed, Labelled
<1>5. /\ wanted = IF labelled /\ ~(m.op = "-" /\ x # l) THEN owed \cup {l} ELSE owed
      /\ dropped = IF Completes(ses, m) THEN {} ELSE {a, b} \ {c, d}
      /\ LabelsOf(ses) = {a, b} /\ LabelsOf(r.ses) = {c, d}
  BY DEF Asked, Dropped, LabelsOf
<1>6. labelled => has /\ l = n + 1
  OBVIOUS
<1>7. ~labelled => l = 0
  OBVIOUS
<1>8. LabelsBelow(r.ses, n + 1) <=> /\ c <= n + 1 /\ (r.ses.multiline.tag = "" => c = 0)
                                  /\ d <= n + 1 /\ (r.ses.token.tag = "" => d = 0)
  BY DEF LabelsBelow
<1>9. has => owed = {a, b} \ {0}
  BY <1>5
<1> DEFINE Goal == /\ found \subseteq wanted
                   /\ has => wanted \ (found \cup dropped) = {c, d} \ {0}
                   /\ LabelsBelow(r.ses, n + 1)
<1>10. ASSUME Answered(ses, l, m, r) PROVE Goal
  <2>1. ~Completes(ses, m) /\ x = l /\ BatchKept(ses.multiline, r.ses.multiline) /\ BatchKept(ses.token, r.ses.token)
    BY <1>10 DEF Answered, Rb, BothKept
  <2>2. /\ (c = a /\ r.ses.multiline.tag = ses.multiline.tag) \/ (c = 0 /\ r.ses.multiline.tag = "")
        /\ (d = b /\ r.ses.token.tag = ses.token.tag) \/ (d = 0 /\ r.ses.token.tag = "")
    BY <2>1 DEF BatchKept
  <2>3. wanted = IF labelled THEN owed \cup {l} ELSE owed
    BY <1>5, <2>1
  <2>4. dropped = {a, b} \ {c, d}
    BY <1>5, <2>1
  <2> HIDE DEF found, wanted, dropped, a, b, c, d, x, has
  <2>5. LabelsBelow(r.ses, n + 1)
    BY <1>1, <1>8, <2>2
  <2>6. found = IF labelled THEN {l} ELSE {}
    BY <1>1, <1>4, <1>6, <1>7, <2>1
  <2>7. found \subseteq wanted
    BY <2>3, <2>6
  <2>8. ASSUME has PROVE wanted \ (found \cup dropped) = {c, d} \ {0}
    <3>1. owed = {a, b} \ {0}
      BY <1>9, <2>8
    <3>2. wanted \ (found \cup dropped) = owed \ dropped
      <4>1. CASE labelled
        <5>1. l \notin owed
          BY <1>1, <1>6, <3>1, <4>1
        <5> QED BY <2>3, <2>6, <4>1, <5>1
      <4>2. CASE ~labelled
        BY <2>3, <2>6, <4>2
      <4> QED BY <4>1, <4>2
    <3>3. owed \ dropped = {c, d} \ {0}
      BY <2>2, <2>4, <3>1
    <3> QED BY <3>2, <3>3
  <2> QED BY <2>5, <2>7, <2>8
<1>11. ASSUME Postponed(ses, l, m, r) PROVE Goal
  <2>1. m.op = "+" /\ ses.multiline.tag = "" /\ ses.token.tag = "" /\ x = 0 /\ Takes(ses, l, r.ses)
    BY <1>11 DEF Postponed, Rb
  <2>2. a = 0 /\ b = 0 /\ ~Completes(ses, m)
    BY <1>1, <2>1 DEF Completes
  <2>3. \/ c = l /\ r.ses.multiline.tag = "a" /\ d = 0 /\ r.ses.token.tag = ""
        \/ d = l /\ r.ses.token.tag = "a" /\ c = 0 /\ r.ses.multiline.tag = ""
    BY <2>1, <2>2 DEF Takes
  <2>4. wanted = IF labelled THEN owed \cup {l} ELSE owed
    BY <1>5, <2>1
  <2>5. dropped = {}
    BY <1>5, <2>2, <2>3
  <2> HIDE DEF found, wanted, dropped, a, b, c, d, x, has
  <2>6. l \in Nat /\ l <= n + 1
    BY <1>1, <1>6, <1>7
  <2>7. LabelsBelow(r.ses, n + 1)
    BY <1>1, <1>8, <2>3, <2>6
  <2>8. found = {}
    BY <1>4, <2>1
  <2>9. ASSUME has PROVE wanted \ (found \cup dropped) = {c, d} \ {0}
    <3>1. owed = {}
      BY <1>9, <2>2, <2>9
    <3>2. {c, d} \ {0} = {l} \ {0}
      BY <2>3
    <3> QED BY <1>1, <1>6, <1>7, <2>4, <2>5, <2>8, <3>1, <3>2
  <2> QED BY <2>7, <2>8, <2>9
<1>12. ASSUME Completed(ses, l, m, r) PROVE Goal
  <2>1. /\ Completes(ses, m) /\ x = Waiting(ses) /\ BatchKept(ses.multiline, r.ses.multiline) /\ BatchKept(ses.token, r.ses.token)
        /\ r.ses.multiline.tag = "" /\ r.ses.token.tag = "" /\ m.op = "-"
    BY <1>12 DEF Completed, Rb, BothKept, Completes
  <2>2. c = 0 /\ d = 0
    BY <1>1, <2>1 DEF BatchKept
  <2>3. {a, b} \ {0} = {x} \ {0}
    <3>1. CASE ses.multiline.tag # ""
      <4>1. b = 0 /\ x = a
        BY <1>1, <2>1, <3>1 DEF OneBatch, Waiting
      <4> QED BY <4>1
    <3>2. CASE ses.multiline.tag = ""
      <4>1. a = 0 /\ x = b
        BY <1>1, <2>1, <3>2 DEF Waiting
      <4> QED BY <4>1
    <3> QED BY <3>1, <3>2
  <2>4. dropped = {}
    BY <1>5, <2>1
  <2> HIDE DEF found, wanted, dropped, a, b, c, d, x, has
  <2>5. LabelsBelow(r.ses, n + 1)
    BY <1>1, <1>8, <2>1, <2>2
  <2>6. ASSUME has PROVE wanted = {x} \ {0} /\ found = {x} \ {0}
    <3>1. owed = {x} \ {0}
      BY <1>9, <2>3, <2>6
    <3>2. found = {x} \ {0}
      BY <1>4, <2>6
    <3>3. labelled => x # l
      <4>1. x = a \/ x = b
        BY <2>1 DEF Waiting, x, a, b
      <4> QED BY <1>1, <1>6, <4>1
    <3>4. wanted = owed
      BY <1>5, <2>1, <3>3
    <3> QED BY <3>1, <3>2, <3>4
  <2>7. ~has => found = {}
    BY <1>4
  <2> QED BY <2>2, <2>4, <2>5, <2>6, <2>7
<1>13. Goal
  <2> HIDE DEF Goal
  <2> QED BY <1>10, <1>11, <1>12 DEF Outcome
<1> QED BY <1>2, <1>4, <1>5, <1>13 DEF Settled

LabelInv ==
  /\ ~stray /\ LabelsBelow(cmdSession, cmdSession.n)
  /\ HasCap("labeled-response") => owed = LabelsOf(cmdSession) \ {0}

LEMMA InitLabels == MessagesInit => LabelInv
<1> SUFFICES ASSUME MessagesInit PROVE LabelInv
  OBVIOUS
<1>1. cmdSession.multiline = NoBatch /\ cmdSession.token = NoBatch /\ cmdSession.n = 0 /\ ~stray /\ owed = {}
  BY DEF MessagesInit
<1>2. NoBatch.tag = "" /\ NoBatch.label = 0
  BY DEF NoBatch
<1>3. LabelsBelow(cmdSession, cmdSession.n) /\ LabelsOf(cmdSession) \ {0} = {}
  <2>1. cmdSession.multiline.label = 0 /\ cmdSession.token.label = 0
    BY Zenon, <1>1, <1>2
  <2>2. 0 <= 0
    OBVIOUS
  <2> QED BY <1>1, <2>1, <2>2 DEF LabelsBelow, LabelsOf
<1> QED BY <1>1, <1>3 DEF LabelInv

LEMMA TouchedIs ==
  ASSUME NEW old \in Sessions, OneBatch(old), NEW command, NEW elapsed \in {"short", "spaced", "long"},
         NEW touched, Touched(old, command, elapsed, touched)
  PROVE  /\ touched \in Sessions /\ OneBatch(touched) /\ touched.n = old.n + 1
         /\ touched.multiline = old.multiline /\ touched.token = old.token
<1>1. old.fl \in Fakelags /\ old.n + 1 \in Nat
  BY DEF Sessions
<1> DEFINE t == Touch(old.fl, command = "OTHER", elapsed)
<1>2. (command = "OTHER") \in BOOLEAN
  OBVIOUS
<1>3. t \in Fakelags
  BY <1>1, <1>2, TouchSpends
<1> HIDE DEF t
<1>4. touched = [old EXCEPT !.n = @ + 1, !.bill = 0, !.fl = t]
  BY DEF t, Touched
<1> QED BY <1>1, <1>3, <1>4 DEF Sessions, OneBatch

LEMMA BilledIs ==
  ASSUME NEW s \in Sessions, NEW new, Billed(s, new)
  PROVE  new.multiline = s.multiline /\ new.token = s.token /\ new.n = s.n
BY DEF Billed, Sessions

(* A round of client.run, from the session after fakelag to the next one.  *)
Round(command, m, elapsed, labelled, l, touched, r, new) ==
  /\ command \in {"BATCH", "MESSAGE", "TOKEN", "OTHER"} /\ m \in Lines(command) /\ elapsed \in {"short", "spaced", "long"}
  /\ labelled \in {FALSE, HasCap("labeled-response")}
  /\ l = (IF labelled THEN cmdSession.n + 1 ELSE 0) /\ Touched(cmdSession, command, elapsed, touched)
  /\ r = RunCommand(touched, NewResponseBuffer(l), m) /\ Billed(r.ses, new)

LEMMA RoundSettles ==
  ASSUME FakelagInv, LabelInv,
         NEW command, NEW m, NEW elapsed, NEW labelled, NEW l, NEW touched, NEW r, NEW new,
         Round(command, m, elapsed, labelled, l, touched, r, new)
  PROVE  Settled(m, labelled, l, touched, r, Answer(r.rb), new)
<1>1. cmdSession \in Sessions /\ OneBatch(cmdSession)
  BY DEF FakelagInv, MessagesType
<1>11. /\ command \in {"BATCH", "MESSAGE", "TOKEN", "OTHER"} /\ m \in Lines(command) /\ elapsed \in {"short", "spaced", "long"}
       /\ labelled \in {FALSE, HasCap("labeled-response")}
       /\ l = (IF labelled THEN cmdSession.n + 1 ELSE 0) /\ Touched(cmdSession, command, elapsed, touched)
       /\ r = RunCommand(touched, NewResponseBuffer(l), m) /\ Billed(r.ses, new)
  BY Zenon DEF Round
<1> DEFINE n == cmdSession.n
<1>2. n \in Nat /\ l \in Nat
  BY <1>1, <1>11 DEF Sessions
<1>3. /\ touched \in Sessions /\ OneBatch(touched) /\ touched.n = n + 1
      /\ touched.multiline = cmdSession.multiline /\ touched.token = cmdSession.token
  BY <1>1, <1>11, TouchedIs
<1>4. LabelsBelow(touched, n) /\ (HasCap("labeled-response") => owed = LabelsOf(touched) \ {0})
  BY <1>3 DEF LabelInv, LabelsBelow, LabelsOf
<1>5. Outcome(touched, l, m, r)
  BY <1>2, <1>3, <1>11, CommandOutcome
<1>6. r.ses \in Sessions
  <2>1. NewResponseBuffer(l).label \in Nat
    BY <1>2, Relabel
  <2>2. Proceeds(touched, r.ses)
    BY <1>3, <1>11, <2>1, CommandProceeds
  <2> QED BY <2>2 DEF Proceeds
<1>7. l = IF labelled THEN n + 1 ELSE 0
  BY <1>11
<1> HIDE DEF n
<1>8. Settled(m, labelled, l, touched, r, Answer(r.rb), r.ses)
  BY <1>2, <1>3, <1>4, <1>5, <1>6, <1>7, <1>11, OutcomeSettles
<1>9. new.multiline = r.ses.multiline /\ new.token = r.ses.token /\ new.n = r.ses.n
  BY <1>6, <1>11, BilledIs
<1>10. LabelsOf(new) = LabelsOf(r.ses) /\ (LabelsBelow(r.ses, r.ses.n) => LabelsBelow(new, new.n))
  BY <1>9 DEF LabelsOf, LabelsBelow
<1> QED BY Zenon, <1>8, <1>10 DEF Settled

LEMMA NextLabels == FakelagInv /\ LabelInv /\ [MessagesNext]_messageVars => LabelInv'
<1> SUFFICES ASSUME FakelagInv, LabelInv, [MessagesNext]_messageVars PROVE LabelInv'
  OBVIOUS
<1>1. cmdSession \in Sessions
  BY DEF FakelagInv, MessagesType
<1>2. ASSUME NEW command \in {"BATCH", "MESSAGE", "TOKEN", "OTHER"}, RunLoop(command)
      PROVE  LabelInv'
  <2>1. PICK m \in Lines(command), elapsed \in {"short", "spaced", "long"}, labelled \in {FALSE, HasCap("labeled-response")} :
          \E label \in {IF labelled THEN cmdSession.n + 1 ELSE 0},
             touched \in {[cmdSession EXCEPT !.n = @ + 1, !.bill = 0, !.fl = Touch(@, command = "OTHER", elapsed)]} :
          \E r \in {RunCommand(touched, NewResponseBuffer(label), m)} :
            Settle(m, elapsed, labelled, label, touched, r, flushInternal(r.rb, TRUE).sent)
    BY Zenon, <1>2 DEF RunLoop
  <2>2. PICK label \in {IF labelled THEN cmdSession.n + 1 ELSE 0},
             touched \in {[cmdSession EXCEPT !.n = @ + 1, !.bill = 0, !.fl = Touch(@, command = "OTHER", elapsed)]} :
          \E r \in {RunCommand(touched, NewResponseBuffer(label), m)} :
            Settle(m, elapsed, labelled, label, touched, r, flushInternal(r.rb, TRUE).sent)
    BY Zenon, <2>1
  <2>3. PICK r \in {RunCommand(touched, NewResponseBuffer(label), m)} :
          Settle(m, elapsed, labelled, label, touched, r, flushInternal(r.rb, TRUE).sent)
    BY Zenon, <2>2
  <2> DEFINE lines == Answer(r.rb)
  <2>4. /\ Billed(r.ses, cmdSession')
        /\ stray' = (stray \/ ~(LabelsIn(lines) \subseteq Asked(m, labelled, label, r)) \/ ~ProperAnswer(lines))
        /\ owed' = Asked(m, labelled, label, r) \ (LabelsIn(lines) \cup Dropped(touched, m, r))
    BY Zenon, <2>3 DEF Settle, Asked, Dropped, LabelsOf, Completes, Billed, Answer
  <2>5. /\ r = RunCommand(touched, NewResponseBuffer(label), m) /\ Touched(cmdSession, command, elapsed, touched)
        /\ label = IF labelled THEN cmdSession.n + 1 ELSE 0
    BY Zenon DEF Touched
  <2>6. \A ll, tt, rr, new :
          Round(command, m, elapsed, labelled, ll, tt, rr, new) => Settled(m, labelled, ll, tt, rr, Answer(rr.rb), new)
    BY Zenon, RoundSettles
  <2>7. Settled(m, labelled, label, touched, r, lines, cmdSession')
    <3>1. Round(command, m, elapsed, labelled, label, touched, r, cmdSession')
      BY Zenon, <2>4, <2>5 DEF Round
    <3> QED BY Zenon, <2>6, <3>1
  <2>8. sessionCaps' = sessionCaps
    BY Zenon, <1>2 DEF RunLoop
  <2>9. /\ ProperAnswer(lines) /\ LabelsIn(lines) \subseteq Asked(m, labelled, label, r)
        /\ HasCap("labeled-response") =>
             Asked(m, labelled, label, r) \ (LabelsIn(lines) \cup Dropped(touched, m, r)) = LabelsOf(cmdSession') \ {0}
        /\ LabelsBelow(cmdSession', cmdSession'.n)
    BY Zenon, <2>7 DEF Settled
  <2>10. ~stray'
    BY Zenon, <2>4, <2>9 DEF LabelInv
  <2>11. HasCap("labeled-response")' => owed' = LabelsOf(cmdSession') \ {0}
    BY Zenon, <2>4, <2>8, <2>9 DEF HasCap
  <2>12. LabelsBelow(cmdSession, cmdSession.n)' /\ (HasCap("labeled-response") => owed = LabelsOf(cmdSession) \ {0})'
    BY <2>9, <2>11 DEF LabelsBelow, LabelsOf
  <2> QED BY <2>10, <2>12 DEF LabelInv
<1>3. ASSUME NEW here \in BOOLEAN, applyOper(here)
      PROVE  LabelInv'
  <2>1. /\ cmdSession'.multiline = cmdSession.multiline /\ cmdSession'.token = cmdSession.token
        /\ cmdSession'.n = cmdSession.n + 1 /\ sessionCaps' = sessionCaps /\ owed' = owed /\ stray' = stray
    BY <1>1, <1>3 DEF applyOper, Sessions
  <2>2. cmdSession.multiline.label \in Nat /\ cmdSession.token.label \in Nat /\ cmdSession.n \in Nat
    BY <1>1 DEF Sessions, Batches
  <2>3. \A i, j \in Nat : i <= j => i <= j + 1
    OBVIOUS
  <2> QED BY <2>1, <2>2, <2>3 DEF LabelInv, LabelsBelow, LabelsOf, HasCap
<1>4. CASE UNCHANGED messageVars
  BY <1>4 DEF LabelInv, LabelsBelow, LabelsOf, HasCap, messageVars
<1> QED BY <1>2, <1>3, <1>4 DEF MessagesNext

(* Every labelled command is answered under its label exactly once, with its *)
(* batches opened and closed around their lines and no line under a label  *)
(* that is not owed, at once or when the multiline or token batch it opened *)
(* ends; only a batch that fails takes its label with it.  For any limits  *)
(* of batches and any number of commands (flushInternal, RunCommand,       *)
(* batchHandlerMultiline, batchHandlerTokenEnd).                           *)
THEOREM MessagesResponsesAreLabelled == MessagesSpec => []ResponsesAreLabelled
<1>1. LabelInv => ResponsesAreLabelled
  BY DEF LabelInv, LabelsOf, ResponsesAreLabelled
<1> QED BY <1>1, InitMessages, NextMessages, InitLabels, NextLabels, PTL DEF MessagesSpec
=============================================================================
