----------------------------- MODULE Calls_proofs -----------------------------
(* Theorems about the directory of contacts and about the calls that read    *)
(* it, for every number of contacts, organizations, addresses, tickets,      *)
(* webhook requests and operators.                                           *)
EXTENDS Calls, SequenceTheorems, TLAPS

\* The keys of the schema: one row per address, one primary channel per owner
\* and kind, and no owner that was never inserted (a new row could otherwise
\* come into channels somebody else's primary one competes with).
OwnersKnown == \A x \in channels : Known(x.owner)

DirectoryInv ==
  TypeOK /\ WellIndexed(channels) /\ OwnersKnown /\ ReferencesResolve

-----------------------------------------------------------------------------
(* Rows.                                                                     *)

LEMMA RowForType ==
  ASSUME NEW a \in Addresses, NEW p \in Parties, NEW b \in BOOLEAN
  PROVE  /\ RowFor(a, p, b) \in Channel
         /\ RowFor(a, p, b).owner = p
BY ContactsConstantsOK DEF RowFor, Channel

LEMMA FirstChannelsType ==
  ASSUME NEW p \in Parties, NEW first \in FirstChannels(p)
  PROVE  /\ first \subseteq Channel
         /\ \A x \in first : x.owner = p
<1> SUFFICES ASSUME NEW x \in first
             PROVE  \E a \in Addresses, b \in BOOLEAN : x = RowFor(a, p, b)
  BY RowForType
<1> DEFINE Main(a) == RowFor(a, p, TRUE)
           One == {{RowFor(a, p, b)} : a \in Addresses, b \in BOOLEAN}
           Two == {{Main(a), Main(b)} : a, b \in Addresses}
<1>1. CASE first \in One
  BY <1>1
<1>2. CASE first \in Two
  <2> HIDE DEF Main
  <2>1. PICK a \in Addresses, b \in Addresses : first = {Main(a), Main(b)}
    BY <1>2
  <2>2. x = Main(a) \/ x = Main(b)
    BY <2>1
  <2> QED
    BY <2>2 DEF Main
<1>3. FirstChannels(p) = {{}} \cup One \cup Two
  BY DEF FirstChannels
<1> HIDE DEF One, Two
<1> QED
  BY <1>1, <1>2, <1>3

LEMMA PartyKinds ==
  ASSUME NEW p \in Parties
  PROVE  /\ p # None
         /\ p \in Contacts => p \notin Orgs
         /\ p \notin Contacts => p \in Orgs
BY ContactsConstantsOK DEF Parties

\* What Demoted does to a channel.
Undone(x, new) ==
  IF new.primary /\ x.owner = new.owner /\ x.type = new.type
  THEN [x EXCEPT !.primary = FALSE] ELSE x

LEMMA UndoneFields ==
  ASSUME NEW x \in Channel, NEW new \in Channel
  PROVE  /\ Undone(x, new) \in Channel
         /\ Undone(x, new).type = x.type /\ Undone(x, new).value = x.value
         /\ Undone(x, new).owner = x.owner
         /\ Undone(x, new).primary =>
              x.primary /\ ~(new.primary /\ x.owner = new.owner /\ x.type = new.type)
         /\ Undone(x, new) = x \/ (new.primary /\ x.owner = new.owner /\ x.type = new.type)
BY DEF Undone, Channel

\* What Linked does to an affiliation.
Cleared(x, c, primary) ==
  IF primary /\ x.contact = c THEN [x EXCEPT !.primary = FALSE] ELSE x

LEMMA ClearedFields ==
  ASSUME NEW x \in Affiliation, NEW c \in Contacts, NEW primary \in BOOLEAN
  PROVE  /\ Cleared(x, c, primary) \in Affiliation
         /\ Cleared(x, c, primary).contact = x.contact
         /\ Cleared(x, c, primary).org = x.org
         /\ Cleared(x, c, primary).primary => x.primary /\ ~(primary /\ x.contact = c)
BY DEF Cleared, Affiliation

LEMMA LinkedMember ==
  ASSUME NEW c \in Contacts, NEW o \in Orgs, NEW primary \in BOOLEAN,
         NEW x \in Linked(c, o, primary)
  PROVE  \/ x = [contact |-> c, org |-> o, primary |-> primary]
         \/ /\ \E y \in affiliations : x = Cleared(y, c, primary)
            /\ <<x.contact, x.org>> # <<c, o>>
BY DEF Linked, Cleared

LEMMA UndemotedMember ==
  ASSUME NEW c \in Contacts, NEW o \in Orgs, NEW x \in LinkedUndemoted(c, o)
  PROVE  x = [contact |-> c, org |-> o, primary |-> TRUE] \/ x \in affiliations
BY DEF LinkedUndemoted

LEMMA LinkedType ==
  ASSUME affiliations \subseteq Affiliation,
         NEW c \in Contacts, NEW o \in Orgs, NEW primary \in BOOLEAN
  PROVE  Linked(c, o, primary) \subseteq Affiliation
<1> SUFFICES ASSUME NEW x \in Linked(c, o, primary) PROVE x \in Affiliation
  OBVIOUS
<1>1. CASE x = [contact |-> c, org |-> o, primary |-> primary]
  BY <1>1 DEF Affiliation
<1>2. ASSUME NEW y \in affiliations, x = Cleared(y, c, primary) PROVE x \in Affiliation
  BY <1>2, ClearedFields
<1> QED
  BY <1>1, <1>2, LinkedMember

LEMMA UndemotedType ==
  ASSUME affiliations \subseteq Affiliation, NEW c \in Contacts, NEW o \in Orgs
  PROVE  LinkedUndemoted(c, o) \subseteq Affiliation
<1>1. [contact |-> c, org |-> o, primary |-> TRUE] \in Affiliation
  BY DEF Affiliation
<1> QED
  BY <1>1, UndemotedMember

-----------------------------------------------------------------------------
(* Types of the directory.                                                   *)

LEMMA PromotedTypes ==
  ASSUME TypeOK, NEW c \in Contacts, NEW email \in Addresses, PromotedContact(c, email)
  PROVE  /\ contacts' \in [Contacts -> {"unused", "row", "deleted"}]
         /\ channels' \subseteq Channel
<1>1. [type |-> "EMAIL", value |-> email, owner |-> c, primary |-> TRUE] \in Channel
  BY DEF Channel, Parties
<1> QED
  BY <1>1 DEF TypeOK, PromotedContact

LEMMA TypeStep ==
  ASSUME TypeOK, [Next]_contactsVars
  PROVE  TypeOK'
<1>1. ASSUME NEW c \in Contacts, NEW first \in FirstChannels(c), CreateContact(c, first)
      PROVE  TypeOK'
  <2>1. first \subseteq Channel
    BY FirstChannelsType DEF Parties
  <2> QED
    BY <1>1, <2>1 DEF CreateContact, Directory, TypeOK
<1>2. ASSUME NEW o \in Orgs, NEW name \in Names, NEW first \in FirstChannels(o),
             CreateOrganization(o, name, first)
      PROVE  TypeOK'
  <2>1. first \subseteq Channel
    BY FirstChannelsType DEF Parties
  <2> QED
    BY <1>2, <2>1 DEF CreateOrganization, Directory, TypeOK
<1>3. ASSUME NEW o \in Orgs, NEW name \in Names, UpdateOrganization(o, name) PROVE TypeOK'
  BY <1>3 DEF UpdateOrganization, TypeOK
<1>4. ASSUME NEW p \in Parties, NEW fk \in BOOLEAN, Referenced(p, fk), RanOn(fk)
      PROVE  /\ channels' \subseteq Channel /\ affiliations' \subseteq Affiliation
             /\ ticket' \in [Items -> Ticket \cup {None}] /\ loose' \in BOOLEAN
  <2>1. loose' \in BOOLEAN
    BY <1>4 DEF RanOn, TypeOK
  <2>2. CASE ~fk
    BY <1>4, <2>1, <2>2 DEF Referenced, TypeOK
  <2>3. CASE fk
    <3>1. ASSUME NEW i \in Items, Opened(i)
          PROVE  [ticket[i] EXCEPT !.contact = IF @ = p THEN None ELSE @,
                                   !.org = IF @ = p THEN None ELSE @] \in Ticket
      <4>1. ticket[i] \in Ticket
        BY <3>1 DEF TypeOK, Opened
      <4> QED
        BY <4>1 DEF Ticket
    <3> QED
      BY <1>4, <2>1, <2>3, <3>1 DEF Referenced, Cascade, TypeOK
  <2> QED
    BY <2>2, <2>3
<1>5. ASSUME NEW fk \in Enforced PROVE fk \in BOOLEAN
  BY <1>5 DEF Enforced
<1>6. ASSUME NEW c \in Contacts, NEW fk \in Enforced, DeleteContact(c, fk) PROVE TypeOK'
  BY <1>4, <1>5, <1>6 DEF DeleteContact, TypeOK, Parties
<1>7. ASSUME NEW o \in Orgs, NEW fk \in Enforced, DeleteOrganization(o, fk) PROVE TypeOK'
  BY <1>4, <1>5, <1>7 DEF DeleteOrganization, TypeOK, Parties
<1>8. ASSUME NEW c \in Contacts, NEW o \in Orgs, NEW primary \in BOOLEAN, NEW fk \in Enforced,
             AddAffiliation(c, o, primary, fk)
      PROVE  TypeOK'
  <2>1. affiliations' \subseteq Affiliation
    BY <1>8, LinkedType DEF AddAffiliation, TypeOK
  <2> QED
    BY <1>5, <1>8, <2>1 DEF AddAffiliation, RanOn, TypeOK
<1>9. ASSUME NEW c \in Contacts, NEW o \in Orgs, RemoveAffiliation(c, o) PROVE TypeOK'
  BY <1>9 DEF RemoveAffiliation, TypeOK
<1>10. ASSUME NEW a \in Addresses, NEW p \in Parties, NEW b \in BOOLEAN, NEW fk \in Enforced,
              AddChannel(RowFor(a, p, b), fk)
       PROVE  TypeOK'
  <2>1. RowFor(a, p, b) \in Channel
    BY RowForType
  <2>2. Demoted(RowFor(a, p, b)) \subseteq Channel
    <3>1. Demoted(RowFor(a, p, b)) = {Undone(x, RowFor(a, p, b)) : x \in channels}
      BY DEF Demoted, Undone
    <3> QED
      BY <2>1, <3>1, UndoneFields DEF TypeOK
  <2> QED
    BY <1>5, <1>10, <2>1, <2>2 DEF AddChannel, RanOn, TypeOK
<1>11. ASSUME NEW x \in channels, RemoveChannel(x) PROVE TypeOK'
  BY <1>11 DEF RemoveChannel, TypeOK
<1>12. ASSUME NEW i \in Items, NEW fk \in Enforced, OpenTicket(i, fk) PROVE TypeOK'
  <2>1. ASSUME NEW p \in Parties \cup {None}
        PROVE  [contact |-> IF p \in Contacts THEN p ELSE None,
                org |-> IF p \in Orgs THEN p ELSE None] \in Ticket
    BY DEF Ticket
  <2>2. OwnerOf(Kind[Requester[i]], Canonical[Requester[i]]) \subseteq Parties
    BY DEF OwnerOf, TypeOK, Channel
  <2>3. ticket' \in [Items -> Ticket \cup {None}]
    BY <1>12, <2>1, <2>2 DEF OpenTicket, TypeOK
  <2> QED
    BY <1>5, <1>12, <2>3 DEF OpenTicket, RanOn, TypeOK
<1>13. ASSUME NEW i \in Items, NEW c \in Contacts, NEW fk \in Enforced,
              PromoteRequesterToContact(i, c, fk)
       PROVE  TypeOK'
  <2>1. Canonical[Requester[i]] \in Addresses
    BY ContactsConstantsOK
  <2>2. /\ contacts' \in [Contacts -> {"unused", "row", "deleted"}]
        /\ channels' \subseteq Channel
    BY <1>13, <2>1, PromotedTypes DEF PromoteRequesterToContact
  <2>3. ticket[i] \in Ticket /\ loose' \in BOOLEAN
    BY <1>5, <1>13 DEF PromoteRequesterToContact, Opened, TypeOK, RanOn
  <2>4. CASE UNCHANGED <<orgs, affiliations>> /\ ticket' = [ticket EXCEPT ![i].contact = c]
    <3>1. ticket' \in [Items -> Ticket \cup {None}]
      BY <2>3, <2>4 DEF TypeOK, Ticket
    <3> QED
      BY <2>2, <2>3, <2>4, <3>1 DEF TypeOK
  <2>5. ASSUME NEW o \in Orgs, NEW name \in Names, PromotedOrg(o, name),
               affiliations' \in {Linked(c, o, TRUE), LinkedUndemoted(c, o)},
               ticket' = [ticket EXCEPT ![i].contact = c, ![i].org = o]
        PROVE  TypeOK'
    <3>1. ticket' \in [Items -> Ticket \cup {None}]
      BY <2>3, <2>5 DEF TypeOK, Ticket
    <3>2. affiliations' \subseteq Affiliation
      BY <2>5, LinkedType, UndemotedType DEF TypeOK
    <3>3. orgs' \in [Orgs -> Names \cup {"unused", "deleted"}]
      BY <2>5 DEF PromotedOrg, TypeOK
    <3> QED
      BY <2>2, <2>3, <3>1, <3>2, <3>3 DEF TypeOK
  <2> QED
    BY <1>13, <2>4, <2>5 DEF PromoteRequesterToContact
<1>14. CASE UNCHANGED contactsVars
  BY <1>14 DEF contactsVars, TypeOK
<1> QED
  BY <1>1, <1>2, <1>3, <1>6, <1>7, <1>8, <1>9, <1>10, <1>11, <1>12, <1>13, <1>14 DEF Next

-----------------------------------------------------------------------------
(* The steps of the directory, by what they do to its tables.                *)

LEMMA EnforcedType == Enforced \subseteq BOOLEAN
BY DEF Enforced

\* Every step is one of these: it inserts a party with its first channels, it
\* renames an organization, it deletes a party, or it is one of the others.
Inserts(p, first) ==
  /\ first \subseteq Channel /\ (\A x \in first : x.owner = p)
  /\ ~Known(p) /\ IsRow(p)' /\ \A q \in Parties \ {p} : IsRow(q)' = IsRow(q) /\ Known(q)' = Known(q)
  /\ WellIndexed(channels \cup first) /\ channels' = channels \cup first
  /\ UNCHANGED <<affiliations, ticket, loose>>

Deletes(p, fk) ==
  /\ IsRow(p) /\ ~IsRow(p)' /\ Known(p)'
  /\ \A q \in Parties \ {p} : IsRow(q)' = IsRow(q) /\ Known(q)' = Known(q)
  /\ Referenced(p, fk) /\ RanOn(fk)

SameParties == \A q \in Parties : IsRow(q)' = IsRow(q) /\ Known(q)' = Known(q)

LEMMA CreateInserts ==
  ASSUME TypeOK
  PROVE  /\ \A c \in Contacts : \A first \in FirstChannels(c) :
              CreateContact(c, first) => Inserts(c, first)
         /\ \A o \in Orgs, name \in Names : \A first \in FirstChannels(o) :
              CreateOrganization(o, name, first) => Inserts(o, first)
<1>1. ASSUME NEW c \in Contacts, NEW first \in FirstChannels(c), CreateContact(c, first)
      PROVE  Inserts(c, first)
  <2>1. first \subseteq Channel /\ \A x \in first : x.owner = c
    BY FirstChannelsType DEF Parties
  <2>2. ~Known(c) /\ IsRow(c)'
    BY <1>1 DEF CreateContact, Known, IsRow, TypeOK
  <2>3. ASSUME NEW q \in Parties, q # c PROVE IsRow(q)' = IsRow(q) /\ Known(q)' = Known(q)
    <3>1. orgs' = orgs /\ (q \in Contacts => contacts'[q] = contacts[q])
      BY <1>1, <2>3 DEF CreateContact, TypeOK
    <3> QED
      BY <3>1 DEF IsRow, Known
  <2> QED
    BY <1>1, <2>1, <2>2, <2>3 DEF CreateContact, Directory, Inserts
<1>2. ASSUME NEW o \in Orgs, NEW name \in Names, NEW first \in FirstChannels(o),
             CreateOrganization(o, name, first)
      PROVE  Inserts(o, first)
  <2>0. o \in Parties /\ o \notin Contacts
    BY ContactsConstantsOK DEF Parties
  <2>1. first \subseteq Channel /\ \A x \in first : x.owner = o
    BY <2>0, FirstChannelsType
  <2>2. ~Known(o) /\ IsRow(o)'
    BY <1>2, <2>0, ContactsConstantsOK DEF CreateOrganization, Known, IsRow, TypeOK
  <2>3. ASSUME NEW q \in Parties, q # o PROVE IsRow(q)' = IsRow(q) /\ Known(q)' = Known(q)
    <3>1. contacts' = contacts /\ (q \in Orgs => orgs'[q] = orgs[q])
      BY <1>2, <2>3 DEF CreateOrganization, TypeOK
    <3> QED
      BY <3>1, PartyKinds DEF IsRow, Known
  <2> QED
    BY <1>2, <2>1, <2>2, <2>3 DEF CreateOrganization, Directory, Inserts
<1> QED
  BY <1>1, <1>2

LEMMA DeleteDeletes ==
  ASSUME TypeOK, NEW fk
  PROVE  /\ \A c \in Contacts : DeleteContact(c, fk) => Deletes(c, fk)
         /\ \A o \in Orgs : DeleteOrganization(o, fk) => Deletes(o, fk)
<1>1. ASSUME NEW c \in Contacts, DeleteContact(c, fk) PROVE Deletes(c, fk)
  <2>1. ~IsRow(c)' /\ Known(c)'
    BY <1>1 DEF DeleteContact, Known, IsRow, TypeOK
  <2>2. ASSUME NEW q \in Parties, q # c PROVE IsRow(q)' = IsRow(q) /\ Known(q)' = Known(q)
    <3>1. orgs' = orgs /\ (q \in Contacts => contacts'[q] = contacts[q])
      BY <1>1, <2>2 DEF DeleteContact, TypeOK
    <3> QED
      BY <3>1 DEF IsRow, Known
  <2> QED
    BY <1>1, <2>1, <2>2 DEF DeleteContact, Deletes
<1>2. ASSUME NEW o \in Orgs, DeleteOrganization(o, fk) PROVE Deletes(o, fk)
  <2>0. o \notin Contacts
    BY ContactsConstantsOK
  <2>1. ~IsRow(o)' /\ Known(o)'
    BY <1>2, <2>0 DEF DeleteOrganization, Known, IsRow, TypeOK
  <2>2. ASSUME NEW q \in Parties, q # o PROVE IsRow(q)' = IsRow(q) /\ Known(q)' = Known(q)
    <3>1. contacts' = contacts /\ (q \in Orgs => orgs'[q] = orgs[q])
      BY <1>2, <2>2 DEF DeleteOrganization, TypeOK
    <3> QED
      BY <3>1, PartyKinds DEF IsRow, Known
  <2> QED
    BY <1>2, <2>1, <2>2 DEF DeleteOrganization, Deletes
<1> QED
  BY <1>1, <1>2

LEMMA RenameSameParties ==
  ASSUME TypeOK, NEW o \in Orgs, NEW name \in Names, UpdateOrganization(o, name)
  PROVE  SameParties
<1> SUFFICES ASSUME NEW q \in Parties PROVE IsRow(q)' = IsRow(q) /\ Known(q)' = Known(q)
  BY DEF SameParties
<1>1. contacts' = contacts /\ orgs' = [orgs EXCEPT ![o] = name]
  BY DEF UpdateOrganization
<1>2. CASE q = o
  <2>1. o \notin Contacts /\ IsRow(o) /\ orgs'[o] = name /\ name \notin {"unused", "deleted"}
    BY <1>1, ContactsConstantsOK DEF UpdateOrganization, TypeOK
  <2> QED
    BY <1>2, <2>1 DEF IsRow, Known
<1>3. CASE q # o
  <2>1. q \in Orgs => orgs'[q] = orgs[q]
    BY <1>1, <1>3 DEF TypeOK
  <2> QED
    BY <1>1, <2>1, PartyKinds DEF IsRow, Known
<1> QED
  BY <1>2, <1>3

\* A promotion keeps the parties there are; the contact and the organization it
\* comes to are rows afterwards, where references are enforced and hold.
LEMMA PromotedParties ==
  ASSUME DirectoryInv, NEW i \in Items, NEW c \in Contacts, NEW fk \in BOOLEAN,
         PromoteRequesterToContact(i, c, fk), NEW q \in Parties
  PROVE  /\ IsRow(q) => IsRow(q)'
         /\ Known(q) => Known(q)'
         /\ Known(q) /\ ~IsRow(q) => ~IsRow(q)'
<1>1. \/ contacts' = contacts
      \/ contacts[c] = "unused" /\ contacts' = [contacts EXCEPT ![c] = "row"]
  BY DEF PromoteRequesterToContact, PromotedContact
<1>2. \/ orgs' = orgs
      \/ \E o \in Orgs, name \in Names : orgs[o] = "unused" /\ orgs' = [orgs EXCEPT ![o] = name]
  BY DEF PromoteRequesterToContact, PromotedOrg
<1>3. CASE q \in Contacts
  BY <1>1, <1>3 DEF IsRow, Known, DirectoryInv, TypeOK
<1>4. CASE q \notin Contacts
  <2>1. q \in Orgs
    BY <1>4, PartyKinds
  <2>2. \/ orgs'[q] = orgs[q]
        \/ orgs[q] = "unused" /\ orgs'[q] \in Names
    BY <1>2, <2>1 DEF DirectoryInv, TypeOK
  <2> QED
    BY <1>4, <2>2, ContactsConstantsOK DEF IsRow, Known
<1> QED
  BY <1>3, <1>4

\* A party that was inserted stays known, and one that was deleted stays so.
LEMMA PartyLife ==
  ASSUME DirectoryInv, [Next]_contactsVars, NEW q \in Parties
  PROVE  /\ Known(q) => Known(q)'
         /\ Known(q) /\ ~IsRow(q) => ~IsRow(q)'
<1> USE EnforcedType DEF DirectoryInv
<1>1. ASSUME NEW p \in Parties, NEW first, Inserts(p, first)
      PROVE  (Known(q) => Known(q)') /\ (Known(q) /\ ~IsRow(q) => ~IsRow(q)')
  BY <1>1 DEF Inserts
<1>2. ASSUME NEW p \in Parties, NEW fk, Deletes(p, fk)
      PROVE  (Known(q) => Known(q)') /\ (Known(q) /\ ~IsRow(q) => ~IsRow(q)')
  BY <1>2 DEF Deletes
<1>3. CASE UNCHANGED <<contacts, orgs>>
  BY <1>3 DEF Known, IsRow
<1>4. ASSUME NEW o \in Orgs, NEW name \in Names, UpdateOrganization(o, name)
      PROVE  (Known(q) => Known(q)') /\ (Known(q) /\ ~IsRow(q) => ~IsRow(q)')
  BY <1>4, RenameSameParties DEF SameParties
<1>5. ASSUME NEW i \in Items, NEW c \in Contacts, NEW fk \in Enforced,
             PromoteRequesterToContact(i, c, fk)
      PROVE  (Known(q) => Known(q)') /\ (Known(q) /\ ~IsRow(q) => ~IsRow(q)')
  BY <1>5, PromotedParties
<1>6. ASSUME \/ \E c \in Contacts, o \in Orgs :
                  \/ \E primary \in BOOLEAN, fk \in Enforced : AddAffiliation(c, o, primary, fk)
                  \/ RemoveAffiliation(c, o)
             \/ \E a \in Addresses, p \in Parties, primary \in BOOLEAN, fk \in Enforced :
                  AddChannel(RowFor(a, p, primary), fk)
             \/ \E x \in channels : RemoveChannel(x)
             \/ \E i \in Items : \E fk \in Enforced : OpenTicket(i, fk)
             \/ UNCHANGED contactsVars
      PROVE  UNCHANGED <<contacts, orgs>>
  BY <1>6 DEF AddAffiliation, RemoveAffiliation, AddChannel, RemoveChannel, OpenTicket, contactsVars
<1>7. \A c \in Contacts : c \in Parties
  BY DEF Parties
<1>8. \A o \in Orgs : o \in Parties
  BY DEF Parties
<1> QED
  BY <1>1, <1>2, <1>3, <1>4, <1>5, <1>6, <1>7, <1>8, CreateInserts, DeleteDeletes DEF Next

-----------------------------------------------------------------------------
(* The keys of communication_channels, and the primary channels.             *)

\* Every primary channel of before is still one of the rows, is replaced by
\* another primary one, or its address is free again.
PrimaryKept ==
  \A x \in channels : x.primary =>
    \/ \E y \in channels' : y.primary /\ y.owner = x.owner /\ y.type = x.type
    \/ \A y \in channels' : <<y.type, y.value>> # <<x.type, x.value>>

ChannelsOK == WellIndexed(channels') /\ OwnersKnown' /\ PrimaryKept

LEMMA FewerChannels ==
  ASSUME DirectoryInv, [Next]_contactsVars, channels' \subseteq channels
  PROVE  ChannelsOK
<1>1. WellIndexed(channels')
  BY DEF DirectoryInv, WellIndexed
<1>2. OwnersKnown'
  <2> SUFFICES ASSUME NEW x \in channels' PROVE Known(x.owner)'
    BY DEF OwnersKnown
  <2>1. x \in channels /\ x.owner \in Parties /\ Known(x.owner)
    BY DEF DirectoryInv, OwnersKnown, TypeOK, Channel
  <2> QED
    BY <2>1, PartyLife
<1>3. PrimaryKept
  <2> SUFFICES ASSUME NEW x \in channels, x.primary, x \notin channels'
               PROVE  \A y \in channels' : <<y.type, y.value>> # <<x.type, x.value>>
    BY DEF PrimaryKept
  <2> QED
    BY DEF DirectoryInv, WellIndexed
<1> QED
  BY <1>1, <1>2, <1>3 DEF ChannelsOK

LEMMA InsertedChannels ==
  ASSUME DirectoryInv, NEW p \in Parties, NEW first, Inserts(p, first)
  PROVE  ChannelsOK
<1>1. WellIndexed(channels') /\ PrimaryKept
  BY DEF Inserts, PrimaryKept
<1>2. OwnersKnown'
  <2> SUFFICES ASSUME NEW x \in channels' PROVE Known(x.owner)'
    BY DEF OwnersKnown
  <2>1. CASE x \in first
    BY <2>1 DEF Inserts, IsRow, Known
  <2>2. CASE x \in channels
    BY <2>2 DEF DirectoryInv, OwnersKnown, TypeOK, Channel, Inserts
  <2> QED
    BY <2>1, <2>2 DEF Inserts
<1> QED
  BY <1>1, <1>2 DEF ChannelsOK

LEMMA AddedChannel ==
  ASSUME DirectoryInv, NEW new \in Channel, NEW fk, AddChannel(new, fk)
  PROVE  ChannelsOK
<1> USE DEF DirectoryInv
<1>1. channels' = {Undone(x, new) : x \in channels} \cup {new}
  BY DEF AddChannel, Demoted, Undone
<1>2. ASSUME NEW x \in channels
      PROVE  /\ x \in Channel
             /\ Undone(x, new).type = x.type /\ Undone(x, new).value = x.value
             /\ Undone(x, new).owner = x.owner
             /\ Undone(x, new).primary =>
                  x.primary /\ ~(new.primary /\ x.owner = new.owner /\ x.type = new.type)
             /\ Undone(x, new) = x \/ (new.primary /\ x.owner = new.owner /\ x.type = new.type)
             /\ <<x.type, x.value>> # <<new.type, new.value>>
  BY UndoneFields DEF TypeOK, AddChannel
<1> DEFINE Apart(x, y) == /\ <<x.type, x.value>> # <<y.type, y.value>>
                          /\ ~(x.primary /\ y.primary /\ x.owner = y.owner /\ x.type = y.type)
<1>3. ASSUME NEW x \in channels, NEW y \in channels, Undone(x, new) # Undone(y, new)
      PROVE  Apart(Undone(x, new), Undone(y, new))
  <2>1. Apart(x, y)
    BY <1>3 DEF WellIndexed
  <2> QED
    BY <1>2, <2>1
<1>4. ASSUME NEW x \in channels
      PROVE  Apart(Undone(x, new), new) /\ Apart(new, Undone(x, new))
  BY <1>2
<1>5. WellIndexed(channels')
  <2> SUFFICES ASSUME NEW u \in channels', NEW w \in channels', u # w PROVE Apart(u, w)
    BY DEF WellIndexed
  <2> HIDE DEF Apart
  <2>1. CASE u = new /\ w # new
    BY <1>1, <1>4, <2>1
  <2>2. CASE u # new /\ w = new
    BY <1>1, <1>4, <2>2
  <2>3. CASE u # new /\ w # new
    <3>1. PICK x \in channels : u = Undone(x, new)
      BY <1>1, <2>3
    <3>2. PICK y \in channels : w = Undone(y, new)
      BY <1>1, <2>3
    <3> QED
      BY <1>3, <3>1, <3>2
  <2> QED
    BY <2>1, <2>2, <2>3
<1>6. OwnersKnown'
  <2> SUFFICES ASSUME NEW u \in channels' PROVE Known(u.owner)
    BY DEF OwnersKnown, Known, AddChannel
  <2>1. CASE u = new
    BY <2>1 DEF AddChannel
  <2>2. CASE u # new
    <3>1. PICK x \in channels : u = Undone(x, new)
      BY <1>1, <2>2
    <3> QED
      BY <1>2, <3>1 DEF OwnersKnown
  <2> QED
    BY <2>1, <2>2
<1>7. PrimaryKept
  <2> SUFFICES ASSUME NEW x \in channels, x.primary
               PROVE  \E y \in channels' : y.primary /\ y.owner = x.owner /\ y.type = x.type
    BY DEF PrimaryKept
  <2>1. CASE Undone(x, new) = x
    BY <1>1, <2>1
  <2>2. CASE new.primary /\ x.owner = new.owner /\ x.type = new.type
    BY <1>1, <2>2
  <2> QED
    BY <1>2, <2>1, <2>2
<1> QED
  BY <1>5, <1>6, <1>7 DEF ChannelsOK

\* A promotion gives the address to a contact that had no channel yet.
LEMMA PromotedChannels ==
  ASSUME DirectoryInv, [Next]_contactsVars, NEW i \in Items, NEW c \in Contacts,
         NEW fk \in BOOLEAN, PromoteRequesterToContact(i, c, fk)
  PROVE  ChannelsOK
<1> USE DEF DirectoryInv
<1> DEFINE email == Canonical[Requester[i]]
           new == [type |-> "EMAIL", value |-> email, owner |-> c, primary |-> TRUE]
<1>1. CASE channels' = channels
  BY <1>1, FewerChannels
<1>2. CASE /\ OwnerOf("EMAIL", email) = {} /\ contacts[c] = "unused"
           /\ contacts' = [contacts EXCEPT ![c] = "row"]
           /\ channels' = channels \cup {new}
  <2>1. /\ new.type = "EMAIL" /\ new.value = email /\ new.owner = c /\ new.primary
    OBVIOUS
  <2> HIDE DEF new
  <2>2. ASSUME NEW x \in channels
        PROVE  x.owner # c /\ <<x.type, x.value>> # <<"EMAIL", email>>
    <3>1. x.owner # c
      BY <1>2 DEF OwnersKnown, Known
    <3>2. x.type = "EMAIL" /\ x.value = email => x.owner \in OwnerOf("EMAIL", email)
      BY DEF OwnerOf
    <3> QED
      BY <1>2, <3>1, <3>2
  <2>3. WellIndexed(channels')
    BY <1>2, <2>1, <2>2 DEF WellIndexed
  <2>4. OwnersKnown'
    <3> SUFFICES ASSUME NEW x \in channels' PROVE Known(x.owner)'
      BY DEF OwnersKnown
    <3>1. CASE x \in channels
      <4>1. x.owner \in Parties /\ Known(x.owner)
        BY <3>1 DEF OwnersKnown, TypeOK, Channel
      <4> QED
        BY <4>1, PartyLife
    <3>2. CASE x = new
      BY <1>2, <2>1, <3>2 DEF Known, TypeOK
    <3> QED
      BY <1>2, <3>1, <3>2
  <2>5. PrimaryKept
    BY <1>2 DEF PrimaryKept
  <2> QED
    BY <2>3, <2>4, <2>5 DEF ChannelsOK
<1> QED
  BY <1>1, <1>2 DEF PromoteRequesterToContact, PromotedContact

LEMMA ChannelsStep ==
  ASSUME DirectoryInv, [Next]_contactsVars
  PROVE  ChannelsOK
<1> USE EnforcedType DEF DirectoryInv
<1>1. ASSUME NEW p \in Parties, NEW first, Inserts(p, first) PROVE ChannelsOK
  BY <1>1, InsertedChannels
<1>2. ASSUME NEW p \in Parties, NEW fk, Deletes(p, fk) PROVE ChannelsOK
  <2>1. channels' \subseteq channels
    BY <1>2 DEF Deletes, Referenced, Cascade
  <2> QED
    BY <2>1, FewerChannels
<1>3. ASSUME NEW a \in Addresses, NEW p \in Parties, NEW b \in BOOLEAN, NEW fk \in Enforced,
             AddChannel(RowFor(a, p, b), fk)
      PROVE  ChannelsOK
  BY <1>3, AddedChannel, RowForType
<1>4. ASSUME NEW i \in Items, NEW c \in Contacts, NEW fk \in Enforced,
             PromoteRequesterToContact(i, c, fk)
      PROVE  ChannelsOK
  BY <1>4, PromotedChannels
<1>5. ASSUME \/ \E o \in Orgs, name \in Names : UpdateOrganization(o, name)
             \/ \E c \in Contacts, o \in Orgs :
                  \/ \E primary \in BOOLEAN, fk \in Enforced : AddAffiliation(c, o, primary, fk)
                  \/ RemoveAffiliation(c, o)
             \/ \E x \in channels : RemoveChannel(x)
             \/ \E i \in Items : \E fk \in Enforced : OpenTicket(i, fk)
             \/ UNCHANGED contactsVars
      PROVE  channels' \subseteq channels
  BY <1>5 DEF UpdateOrganization, AddAffiliation, RemoveAffiliation, RemoveChannel, OpenTicket,
              contactsVars
<1>6. \A p \in Contacts \cup Orgs : p \in Parties
  BY DEF Parties
<1> QED
  BY <1>1, <1>2, <1>3, <1>4, <1>5, <1>6, FewerChannels, CreateInserts, DeleteDeletes DEF Next

-----------------------------------------------------------------------------
(* The affiliations.                                                         *)

\* What a step can leave of two main affiliations of a contact.
SecondMains ==
  \A c \in Contacts : \A x, y \in Mains(affiliations', c) :
    x = y \/ {x, y} \subseteq affiliations
    \/ \E i \in Items : LinkedTo(i, x)' \/ LinkedTo(i, y)'

\* Of the main affiliations that Linked leaves, those that were there before keep
\* their flag, and a new one has no other beside it.
LEMMA LinkedMains ==
  ASSUME TypeOK, NEW c \in Contacts, NEW o \in Orgs, NEW primary \in BOOLEAN,
         affiliations' = Linked(c, o, primary)
  PROVE  SecondMains
<1> DEFINE new == [contact |-> c, org |-> o, primary |-> primary]
<1>1. ASSUME NEW x \in affiliations', x.primary, x # new
      PROVE  x \in affiliations /\ ~(primary /\ x.contact = c)
  <2>1. PICK y \in affiliations : x = Cleared(y, c, primary)
    BY <1>1, LinkedMember
  <2>2. y.primary /\ ~(primary /\ y.contact = c)
    BY <1>1, <2>1, ClearedFields DEF TypeOK
  <2> QED
    BY <2>1, <2>2 DEF Cleared
<1>2. new.contact = c /\ (new.primary => primary)
  OBVIOUS
<1> HIDE DEF new
<1> SUFFICES ASSUME NEW d \in Contacts, NEW x \in Mains(affiliations', d),
                    NEW y \in Mains(affiliations', d), x # y
             PROVE  {x, y} \subseteq affiliations
  BY DEF SecondMains
<1>3. x \in affiliations' /\ x.contact = d /\ x.primary
  BY DEF Mains
<1>4. y \in affiliations' /\ y.contact = d /\ y.primary
  BY DEF Mains
<1>5. x # new /\ y # new
  BY <1>1, <1>2, <1>3, <1>4
<1> QED
  BY <1>1, <1>3, <1>4, <1>5

\* A promotion whose demotion failed leaves a second main affiliation with the
\* organization its ticket is linked to.
LEMMA UndemotedMains ==
  ASSUME TypeOK, NEW i \in Items, NEW c \in Contacts, NEW o \in Orgs, Opened(i),
         affiliations' = LinkedUndemoted(c, o),
         ticket' = [ticket EXCEPT ![i].contact = c, ![i].org = o]
  PROVE  SecondMains
<1> DEFINE new == [contact |-> c, org |-> o, primary |-> TRUE]
<1>1. ticket[i] \in Ticket
  BY DEF TypeOK, Opened
<1>2. ticket'[i] = [contact |-> c, org |-> o]
  BY <1>1 DEF TypeOK, Ticket
<1>3. Opened(i)'
  BY <1>2, ContactsConstantsOK DEF Opened
<1>4. LinkedTo(i, new)'
  BY <1>2, <1>3 DEF LinkedTo
<1>5. \A x \in affiliations' : x = new \/ x \in affiliations
  BY UndemotedMember
<1> QED
  BY <1>4, <1>5 DEF SecondMains, Mains

LEMMA MainStep ==
  ASSUME DirectoryInv, [Next]_contactsVars
  PROVE  SecondMains
<1>0. TypeOK
  BY DEF DirectoryInv
<1>1. CASE affiliations' \subseteq affiliations
  BY <1>1 DEF SecondMains, Mains
<1>2. ASSUME NEW p, NEW fk, Referenced(p, fk) PROVE affiliations' \subseteq affiliations
  BY <1>2 DEF Referenced, Cascade
<1>3. ASSUME NEW c \in Contacts, NEW o \in Orgs, NEW primary \in BOOLEAN, NEW fk,
             AddAffiliation(c, o, primary, fk)
      PROVE  SecondMains
  BY <1>0, <1>3, LinkedMains DEF AddAffiliation
<1>4. ASSUME NEW i \in Items, NEW c \in Contacts, NEW fk, PromoteRequesterToContact(i, c, fk)
      PROVE  SecondMains
  <2>1. CASE UNCHANGED affiliations
    BY <1>1, <2>1
  <2>2. ASSUME NEW o \in Orgs, affiliations' = Linked(c, o, TRUE) PROVE SecondMains
    BY <1>0, <2>2, LinkedMains
  <2>3. ASSUME NEW o \in Orgs, affiliations' = LinkedUndemoted(c, o),
               ticket' = [ticket EXCEPT ![i].contact = c, ![i].org = o]
        PROVE  SecondMains
    BY <1>0, <1>4, <2>3, UndemotedMains DEF PromoteRequesterToContact
  <2> QED
    BY <1>4, <2>1, <2>2, <2>3 DEF PromoteRequesterToContact
<1>5. ASSUME \/ \E c \in Contacts : \E first \in FirstChannels(c) : CreateContact(c, first)
             \/ \E o \in Orgs, name \in Names : \E first \in FirstChannels(o) :
                  CreateOrganization(o, name, first)
             \/ \E o \in Orgs, name \in Names : UpdateOrganization(o, name)
             \/ \E c \in Contacts, o \in Orgs : RemoveAffiliation(c, o)
             \/ \E a \in Addresses, p \in Parties, primary \in BOOLEAN, fk \in Enforced :
                  AddChannel(RowFor(a, p, primary), fk)
             \/ \E x \in channels : RemoveChannel(x)
             \/ \E i \in Items : \E fk \in Enforced : OpenTicket(i, fk)
             \/ UNCHANGED contactsVars
      PROVE  affiliations' \subseteq affiliations
  BY <1>5 DEF CreateContact, CreateOrganization, UpdateOrganization, RemoveAffiliation, AddChannel,
              RemoveChannel, OpenTicket, contactsVars
<1> QED
  BY <1>1, <1>2, <1>3, <1>4, <1>5 DEF Next, DeleteContact, DeleteOrganization

-----------------------------------------------------------------------------
(* The references.                                                           *)

\* ReferencesResolve row by row.
ChannelResolves(x) == IsRow(x.owner)
AffiliationResolves(x) == IsRow(x.contact) /\ IsRow(x.org)
TicketResolves(i) ==
  Opened(i) => \A p \in {ticket[i].contact, ticket[i].org} \ {None} : IsRow(p)

LEMMA RowByRow ==
  ReferencesResolve <=> (~loose => /\ \A x \in channels : ChannelResolves(x)
                                   /\ \A x \in affiliations : AffiliationResolves(x)
                                   /\ \A i \in Items : TicketResolves(i))
BY DEF ReferencesResolve, ChannelResolves, AffiliationResolves, TicketResolves

LEMMA ReferencedParties ==
  ASSUME TypeOK
  PROVE  /\ \A x \in channels : x.owner \in Parties
         /\ \A x \in affiliations : x.contact \in Contacts /\ x.org \in Orgs
                                    /\ x.contact \in Parties /\ x.org \in Parties
         /\ \A i \in Items : Opened(i) =>
              /\ ticket[i] \in Ticket
              /\ {ticket[i].contact, ticket[i].org} \ {None} \subseteq Parties
BY DEF TypeOK, Channel, Affiliation, Ticket, Parties, Opened

\* Where every row that is referenced stays one, references go on to resolve.
LEMMA RowsStay ==
  ASSUME DirectoryInv, ~loose, \A q \in Parties : IsRow(q) => IsRow(q)'
  PROVE  /\ \A x \in channels : ChannelResolves(x)'
         /\ \A x \in affiliations : AffiliationResolves(x)'
         /\ ticket' = ticket => \A i \in Items : TicketResolves(i)'
<1>1. /\ \A x \in channels : IsRow(x.owner)
      /\ \A x \in affiliations : IsRow(x.contact) /\ IsRow(x.org)
      /\ \A i \in Items : Opened(i) =>
           \A p \in {ticket[i].contact, ticket[i].org} \ {None} : IsRow(p)
  BY DEF DirectoryInv, ReferencesResolve
<1>2. \A x \in channels : ChannelResolves(x)'
  BY <1>1, ReferencedParties DEF ChannelResolves, DirectoryInv
<1>3. \A x \in affiliations : AffiliationResolves(x)'
  BY <1>1, ReferencedParties DEF AffiliationResolves, DirectoryInv
<1>4. ASSUME ticket' = ticket, NEW i \in Items PROVE TicketResolves(i)'
  BY <1>1, <1>4, ReferencedParties DEF TicketResolves, DirectoryInv, Opened
<1> QED
  BY <1>2, <1>3, <1>4

LEMMA DeleteResolves ==
  ASSUME DirectoryInv, NEW p \in Parties, NEW fk \in BOOLEAN, Deletes(p, fk)
  PROVE  ReferencesResolve'
<1> SUFFICES ASSUME ~loose'
             PROVE  /\ \A x \in channels' : ChannelResolves(x)'
                    /\ \A x \in affiliations' : AffiliationResolves(x)'
                    /\ \A i \in Items : TicketResolves(i)'
  BY DEF ReferencesResolve, ChannelResolves, AffiliationResolves, TicketResolves
<1>1. ~loose /\ Cascade(p) /\ TypeOK
  BY DEF Deletes, RanOn, Referenced, DirectoryInv
<1>2. /\ \A x \in channels : IsRow(x.owner)
      /\ \A x \in affiliations : IsRow(x.contact) /\ IsRow(x.org)
      /\ \A i \in Items : Opened(i) =>
           \A q \in {ticket[i].contact, ticket[i].org} \ {None} : IsRow(q)
  BY <1>1 DEF DirectoryInv, ReferencesResolve
<1>3. ASSUME NEW q \in Parties, q # p, IsRow(q) PROVE IsRow(q)'
  BY <1>3 DEF Deletes
<1>4. \A x \in channels' : ChannelResolves(x)'
  BY <1>1, <1>2, <1>3, ReferencedParties DEF Cascade, ChannelResolves
<1>5. \A x \in affiliations' : AffiliationResolves(x)'
  BY <1>1, <1>2, <1>3, ReferencedParties DEF Cascade, AffiliationResolves
<1>6. ASSUME NEW i \in Items PROVE TicketResolves(i)'
  <2>1. CASE ~Opened(i)
    <3>1. ~Opened(i)'
      BY <1>1, <2>1 DEF Cascade, Opened
    <3> QED
      BY <3>1 DEF TicketResolves
  <2>2. CASE Opened(i)
    <3>1. /\ ticket[i] \in Ticket
          /\ {ticket[i].contact, ticket[i].org} \ {None} \subseteq Parties
          /\ \A q \in {ticket[i].contact, ticket[i].org} \ {None} : IsRow(q)
      BY <1>1, <1>2, <2>2, ReferencedParties
    <3>2. ticket'[i] = [ticket[i] EXCEPT !.contact = IF @ = p THEN None ELSE @,
                                         !.org = IF @ = p THEN None ELSE @]
      BY <1>1, <2>2 DEF Cascade
    <3>3. /\ ticket'[i].contact = IF ticket[i].contact = p THEN None ELSE ticket[i].contact
          /\ ticket'[i].org = IF ticket[i].org = p THEN None ELSE ticket[i].org
      BY <3>1, <3>2 DEF Ticket
    <3>4. ASSUME NEW q \in {ticket'[i].contact, ticket'[i].org} \ {None} PROVE IsRow(q)'
      <4>1. q # p /\ q \in {ticket[i].contact, ticket[i].org} \ {None}
        BY <3>3, <3>4
      <4> QED
        BY <1>3, <3>1, <4>1
    <3> QED
      BY <3>4 DEF TicketResolves
  <2> QED
    BY <2>1, <2>2
<1> QED
  BY <1>4, <1>5, <1>6

\* A promotion comes to a contact and to an organization that are rows: the
\* owner of a channel is one, because that reference resolves.
LEMMA PromoteResolves ==
  ASSUME DirectoryInv, NEW i \in Items, NEW c \in Contacts, NEW fk \in BOOLEAN,
         PromoteRequesterToContact(i, c, fk)
  PROVE  ReferencesResolve'
<1> SUFFICES ASSUME ~loose'
             PROVE  /\ \A x \in channels' : ChannelResolves(x)'
                    /\ \A x \in affiliations' : AffiliationResolves(x)'
                    /\ \A j \in Items : TicketResolves(j)'
  BY DEF ReferencesResolve, ChannelResolves, AffiliationResolves, TicketResolves
<1> DEFINE email == Canonical[Requester[i]]
<1>1. ~loose /\ TypeOK /\ fk
  BY DEF PromoteRequesterToContact, RanOn, DirectoryInv
<1>2. \A q \in Parties : IsRow(q) => IsRow(q)'
  BY PromotedParties
<1>3. IsRow(c)'
  <2>1. CASE c \in OwnerOf("EMAIL", email)
    <3>1. IsRow(c)
      BY <1>1, <2>1 DEF OwnerOf, DirectoryInv, ReferencesResolve
    <3> QED
      BY <1>2, <3>1 DEF Parties
  <2>2. CASE contacts' = [contacts EXCEPT ![c] = "row"]
    BY <1>1, <2>2 DEF IsRow, TypeOK
  <2> QED
    BY <2>1, <2>2 DEF PromoteRequesterToContact, PromotedContact
<1>4. \A x \in channels' : ChannelResolves(x)'
  <2>1. \A x \in channels' : x \in channels \/ x.owner = c
    BY DEF PromoteRequesterToContact, PromotedContact
  <2> QED
    BY <1>1, <1>2, <1>3, <2>1, RowsStay DEF ChannelResolves
<1>5. \A x \in affiliations : AffiliationResolves(x)'
  BY <1>1, <1>2, RowsStay
<1>6. ASSUME NEW j \in Items, j # i PROVE TicketResolves(j)'
  <2>1. ticket'[j] = ticket[j]
    BY <1>1, <1>6 DEF PromoteRequesterToContact, TypeOK
  <2>2. Opened(j) => /\ {ticket[j].contact, ticket[j].org} \ {None} \subseteq Parties
                     /\ \A q \in {ticket[j].contact, ticket[j].org} \ {None} : IsRow(q)
    BY <1>1, ReferencedParties DEF DirectoryInv, ReferencesResolve
  <2> QED
    BY <1>2, <2>1, <2>2 DEF TicketResolves, Opened
<1>7. /\ ticket[i] \in Ticket
      /\ {ticket[i].contact, ticket[i].org} \ {None} \subseteq Parties
      /\ \A q \in {ticket[i].contact, ticket[i].org} \ {None} : IsRow(q)
  BY <1>1, ReferencedParties DEF PromoteRequesterToContact, DirectoryInv, ReferencesResolve
<1>8. CASE UNCHANGED <<orgs, affiliations>> /\ ticket' = [ticket EXCEPT ![i].contact = c]
  <2>1. ticket'[i].contact = c /\ ticket'[i].org = ticket[i].org
    BY <1>1, <1>7, <1>8 DEF TypeOK, Ticket
  <2>2. TicketResolves(i)'
    BY <1>2, <1>3, <1>7, <2>1 DEF TicketResolves
  <2> QED
    BY <1>4, <1>5, <1>6, <1>8, <2>2
<1>9. ASSUME NEW o \in Orgs, NEW name \in Names, PromotedOrg(o, name),
             affiliations' \in {Linked(c, o, TRUE), LinkedUndemoted(c, o)},
             ticket' = [ticket EXCEPT ![i].contact = c, ![i].org = o]
      PROVE  /\ \A x \in affiliations' : AffiliationResolves(x)'
             /\ TicketResolves(i)'
  <2>1. IsRow(o)'
    <3>1. o \notin Contacts /\ name \notin {"unused", "deleted"}
      BY ContactsConstantsOK
    <3>2. orgs'[o] = name
      BY <1>1, <1>9 DEF PromotedOrg, TypeOK
    <3> QED
      BY <3>1, <3>2 DEF IsRow
  <2>2. ticket'[i].contact = c /\ ticket'[i].org = o
    BY <1>1, <1>7, <1>9 DEF TypeOK, Ticket
  <2>3. TicketResolves(i)'
    BY <1>3, <2>1, <2>2 DEF TicketResolves
  <2>4. ASSUME NEW x \in affiliations' PROVE AffiliationResolves(x)'
    <3>1. CASE x = [contact |-> c, org |-> o, primary |-> TRUE]
      BY <1>3, <2>1, <3>1 DEF AffiliationResolves
    <3>2. ASSUME NEW y \in affiliations, x = Cleared(y, c, TRUE) PROVE AffiliationResolves(x)'
      <4>1. x.contact = y.contact /\ x.org = y.org
        BY <1>1, <3>2, ClearedFields DEF TypeOK
      <4> QED
        BY <1>5, <4>1 DEF AffiliationResolves
    <3>3. \/ x = [contact |-> c, org |-> o, primary |-> TRUE]
          \/ x \in affiliations
          \/ \E y \in affiliations : x = Cleared(y, c, TRUE)
      <4>1. CASE x \in Linked(c, o, TRUE)
        BY <4>1, LinkedMember
      <4>2. CASE x \in LinkedUndemoted(c, o)
        BY <4>2, UndemotedMember
      <4> QED
        BY <1>9, <2>4, <4>1, <4>2
    <3> QED
      BY <1>5, <3>1, <3>2, <3>3
  <2> QED
    BY <2>3, <2>4
<1> QED
  BY <1>4, <1>6, <1>8, <1>9 DEF PromoteRequesterToContact

\* The other steps leave the rows of parties, and make references to rows only.
LEMMA OtherResolves ==
  ASSUME DirectoryInv, \A q \in Parties : IsRow(q) => IsRow(q)',
         ~loose' => ~loose,
         ~loose' => \A x \in channels' :
           IsRow(x.owner)' \/ \E y \in channels : x.owner = y.owner,
         ~loose' => \A x \in affiliations' :
           \/ IsRow(x.contact)' /\ IsRow(x.org)'
           \/ \E y \in affiliations : x.contact = y.contact /\ x.org = y.org,
         ~loose' => \A i \in Items : ticket'[i] = ticket[i] \/ TicketResolves(i)'
  PROVE  ReferencesResolve'
<1> SUFFICES ASSUME ~loose'
             PROVE  /\ \A x \in channels' : ChannelResolves(x)'
                    /\ \A x \in affiliations' : AffiliationResolves(x)'
                    /\ \A i \in Items : TicketResolves(i)'
  BY DEF ReferencesResolve, ChannelResolves, AffiliationResolves, TicketResolves
<1>1. /\ \A x \in channels : ChannelResolves(x)'
      /\ \A x \in affiliations : AffiliationResolves(x)'
  BY RowsStay
<1>2. \A x \in channels' : ChannelResolves(x)'
  BY <1>1 DEF ChannelResolves
<1>3. \A x \in affiliations' : AffiliationResolves(x)'
  BY <1>1 DEF AffiliationResolves
<1>4. ASSUME NEW i \in Items PROVE TicketResolves(i)'
  <2>1. CASE ticket'[i] = ticket[i]
    <3>1. Opened(i) => /\ {ticket[i].contact, ticket[i].org} \ {None} \subseteq Parties
                       /\ \A q \in {ticket[i].contact, ticket[i].org} \ {None} : IsRow(q)
      BY ReferencedParties DEF DirectoryInv, ReferencesResolve
    <3> QED
      BY <2>1, <3>1 DEF TicketResolves, Opened
  <2> QED
    BY <2>1
<1> QED
  BY <1>2, <1>3, <1>4

LEMMA ReferencesStep ==
  ASSUME DirectoryInv, [Next]_contactsVars
  PROVE  ReferencesResolve'
<1> USE EnforcedType
<1>0. TypeOK
  BY DEF DirectoryInv
<1>1. ASSUME NEW p \in Parties, NEW first, Inserts(p, first) PROVE ReferencesResolve'
  BY <1>1, OtherResolves DEF Inserts
<1>2. ASSUME NEW p \in Parties, NEW fk \in Enforced, Deletes(p, fk) PROVE ReferencesResolve'
  BY <1>2, DeleteResolves
<1>3. ASSUME NEW o \in Orgs, NEW name \in Names, UpdateOrganization(o, name)
      PROVE  ReferencesResolve'
  <2>1. UNCHANGED <<channels, affiliations, ticket, loose>>
    BY <1>3 DEF UpdateOrganization
  <2> QED
    BY <1>0, <1>3, <2>1, RenameSameParties, OtherResolves DEF SameParties
<1>4. CASE UNCHANGED <<contacts, orgs>>
           /\ (~loose' => ~loose)
           /\ (~loose' => \A x \in channels' :
                 IsRow(x.owner)' \/ \E y \in channels : x.owner = y.owner)
           /\ (~loose' => \A x \in affiliations' :
                 \/ IsRow(x.contact)' /\ IsRow(x.org)'
                 \/ \E y \in affiliations : x.contact = y.contact /\ x.org = y.org)
           /\ (~loose' => \A i \in Items : ticket'[i] = ticket[i] \/ TicketResolves(i)')
  <2>1. \A q \in Parties : IsRow(q) => IsRow(q)'
    BY <1>4 DEF IsRow
  <2> QED
    BY <1>4, <2>1, OtherResolves
<1>5. ASSUME NEW c \in Contacts, NEW o \in Orgs, NEW primary \in BOOLEAN, NEW fk \in Enforced,
             AddAffiliation(c, o, primary, fk)
      PROVE  ReferencesResolve'
  <2>1. UNCHANGED <<contacts, orgs, channels, ticket>> /\ (~loose' => ~loose /\ fk)
    BY <1>5 DEF AddAffiliation, RanOn
  <2>2. ASSUME NEW x \in affiliations', ~loose'
        PROVE  \/ IsRow(x.contact)' /\ IsRow(x.org)'
               \/ \E y \in affiliations : x.contact = y.contact /\ x.org = y.org
    <3>1. CASE x = [contact |-> c, org |-> o, primary |-> primary]
      BY <1>5, <2>1, <2>2, <3>1 DEF AddAffiliation, IsRow
    <3>2. ASSUME NEW y \in affiliations, x = Cleared(y, c, primary)
          PROVE  x.contact = y.contact /\ x.org = y.org
      BY <1>0, <3>2, ClearedFields DEF TypeOK
    <3> QED
      BY <1>5, <3>1, <3>2, LinkedMember DEF AddAffiliation
  <2> QED
    BY <1>4, <2>1, <2>2
<1>6. ASSUME NEW a \in Addresses, NEW p \in Parties, NEW b \in BOOLEAN, NEW fk \in Enforced,
             AddChannel(RowFor(a, p, b), fk)
      PROVE  ReferencesResolve'
  <2> DEFINE new == RowFor(a, p, b)
  <2>0. new \in Channel
    BY RowForType
  <2>1. /\ UNCHANGED <<contacts, orgs, affiliations, ticket>>
        /\ (~loose' => ~loose /\ IsRow(new.owner))
    BY <1>6 DEF AddChannel, RanOn
  <2>2. ASSUME NEW x \in channels', ~loose'
        PROVE  IsRow(x.owner)' \/ \E y \in channels : x.owner = y.owner
    <3>1. x = new \/ \E y \in channels : x = Undone(y, new)
      BY <1>6 DEF AddChannel, Demoted, Undone
    <3>2. CASE x = new
      BY <2>1, <2>2, <3>2 DEF IsRow
    <3>3. ASSUME NEW y \in channels, x = Undone(y, new) PROVE x.owner = y.owner
      BY <1>0, <2>0, <3>3, UndoneFields DEF TypeOK
    <3> QED
      BY <3>1, <3>2, <3>3
  <2> QED
    BY <1>4, <2>1, <2>2
<1>7. ASSUME NEW i \in Items, NEW fk \in Enforced, OpenTicket(i, fk) PROVE ReferencesResolve'
  <2>1. UNCHANGED <<contacts, orgs, channels, affiliations>> /\ (~loose' => ~loose /\ fk)
    BY <1>7 DEF OpenTicket, RanOn
  <2>2. PICK p : /\ p = None \/ (fk => IsRow(p))
                 /\ ticket' = [ticket EXCEPT ![i] =
                      [contact |-> IF p \in Contacts THEN p ELSE None,
                       org |-> IF p \in Orgs THEN p ELSE None]]
    BY <1>7 DEF OpenTicket
  <2>3. ASSUME NEW j \in Items, j # i PROVE ticket'[j] = ticket[j]
    BY <1>0, <2>2, <2>3 DEF TypeOK
  <2>4. ASSUME ~loose' PROVE TicketResolves(i)'
    <3>1. /\ ticket'[i].contact = IF p \in Contacts THEN p ELSE None
          /\ ticket'[i].org = IF p \in Orgs THEN p ELSE None
      BY <1>0, <2>2 DEF TypeOK
    <3>2. {ticket'[i].contact, ticket'[i].org} \ {None} \subseteq {p} \ {None}
      BY <3>1
    <3> QED
      BY <2>1, <2>2, <2>4, <3>2 DEF TicketResolves, IsRow
  <2> QED
    BY <1>4, <2>1, <2>3, <2>4
<1>8. ASSUME NEW i \in Items, NEW c \in Contacts, NEW fk \in Enforced,
             PromoteRequesterToContact(i, c, fk)
      PROVE  ReferencesResolve'
  BY <1>8, PromoteResolves
<1>9. ASSUME \/ \E c \in Contacts, o \in Orgs : RemoveAffiliation(c, o)
             \/ \E x \in channels : RemoveChannel(x)
             \/ UNCHANGED contactsVars
      PROVE  ReferencesResolve'
  <2>1. /\ UNCHANGED <<contacts, orgs, ticket, loose>>
        /\ channels' \subseteq channels /\ affiliations' \subseteq affiliations
    BY <1>9 DEF RemoveAffiliation, RemoveChannel, contactsVars
  <2> QED
    BY <1>4, <2>1
<1>10. \A p \in Contacts \cup Orgs : p \in Parties
  BY DEF Parties
<1> QED
  BY <1>0, <1>1, <1>2, <1>3, <1>5, <1>6, <1>7, <1>8, <1>9, <1>10, CreateInserts, DeleteDeletes
  DEF Next

-----------------------------------------------------------------------------
(* The directory by itself.                                                  *)

LEMMA DirectoryInvInit == Init => DirectoryInv
<1> SUFFICES ASSUME Init PROVE DirectoryInv
  OBVIOUS
<1>1. TypeOK
  BY DEF Init, TypeOK
<1> QED
  BY <1>1
  DEF Init, DirectoryInv, WellIndexed, OwnersKnown, ReferencesResolve, Opened

LEMMA DirectoryInvStep == DirectoryInv /\ [Next]_contactsVars => DirectoryInv'
<1> SUFFICES ASSUME DirectoryInv, [Next]_contactsVars PROVE DirectoryInv'
  OBVIOUS
<1>1. TypeOK'
  BY TypeStep DEF DirectoryInv
<1>2. WellIndexed(channels)' /\ OwnersKnown'
  BY ChannelsStep DEF ChannelsOK, WellIndexed
<1> QED
  BY <1>1, <1>2, ReferencesStep DEF DirectoryInv

THEOREM DirectoryInvariant == Spec => []DirectoryInv
BY DirectoryInvInit, DirectoryInvStep, PTL DEF Spec

\* No index keeps a contact from having two main organizations, and yet two come
\* together by a promotion only, whose ticket is linked to one of them.
THEOREM SecondMainsArePromoted == Spec => SecondMainByPromotion
<1>1. DirectoryInv /\ [Next]_contactsVars => [SecondMains]_affiliations
  BY MainStep
<1>2. [SecondMains]_affiliations =>
        [\A c \in Contacts : \A x, y \in Mains(affiliations', c) :
           x = y \/ {x, y} \subseteq affiliations
           \/ \E i \in Items : LinkedTo(i, x)' \/ LinkedTo(i, y)']_affiliations
  BY DEF SecondMains
<1> QED
  BY <1>1, <1>2, DirectoryInvariant, PTL DEF Spec, SecondMainByPromotion

\* No channel, affiliation or ticket refers to a row that is gone, as long as
\* no statement ran on a connection without foreign keys.
THEOREM ReferencesAreResolved == Spec => []ReferencesResolve
<1>1. DirectoryInv => ReferencesResolve
  BY DEF DirectoryInv
<1> QED
  BY <1>1, DirectoryInvariant, PTL

\* No step takes an owner's primary channel without putting another in its
\* place or freeing its address.
THEOREM PrimaryIsKept == Spec => PrimaryNotLost
<1>1. ASSUME DirectoryInv, [Next]_contactsVars PROVE PrimaryKept
  BY <1>1, ChannelsStep DEF ChannelsOK
<1>2. DirectoryInv /\ [Next]_contactsVars => [PrimaryKept]_channels
  BY <1>1
<1>3. [PrimaryKept]_channels =>
        [\A x \in channels : x.primary =>
           \/ \E y \in channels' : y.primary /\ y.owner = x.owner /\ y.type = x.type
           \/ \A y \in channels' : <<y.type, y.value>> # <<x.type, x.value>>]_channels
  BY DEF PrimaryKept
<1> QED
  BY <1>2, <1>3, DirectoryInvariant, PTL DEF Spec, PrimaryNotLost

\* What a step can link an opened ticket to.
PromotedOwns(i) ==
  Opened(i) /\ ticket'[i].contact \notin {ticket[i].contact, None} =>
    \E x \in channels' : /\ x.value = Canonical[Requester[i]]
                         /\ x.owner = ticket'[i].contact

LEMMA PromotedOwnsStep ==
  ASSUME DirectoryInv, [Next]_contactsVars, NEW i \in Items
  PROVE  PromotedOwns(i)
<1>0. TypeOK /\ (Opened(i) => ticket[i] \in Ticket)
  BY ReferencedParties DEF DirectoryInv
<1>1. CASE ticket' = ticket
  BY <1>1 DEF PromotedOwns
<1>2. ASSUME NEW p, NEW fk, Referenced(p, fk) PROVE PromotedOwns(i)
  <2>1. CASE ~fk
    BY <1>1, <1>2, <2>1 DEF Referenced
  <2>2. CASE fk /\ Opened(i)
    <3>1. ticket'[i] = [ticket[i] EXCEPT !.contact = IF @ = p THEN None ELSE @,
                                         !.org = IF @ = p THEN None ELSE @]
      BY <1>2, <2>2 DEF Referenced, Cascade
    <3>2. ticket'[i].contact = IF ticket[i].contact = p THEN None ELSE ticket[i].contact
      BY <1>0, <2>2, <3>1 DEF Ticket
    <3> QED
      BY <3>2 DEF PromotedOwns
  <2> QED
    BY <2>1, <2>2 DEF PromotedOwns
<1>3. ASSUME NEW j \in Items, NEW fk, OpenTicket(j, fk) PROVE PromotedOwns(i)
  BY <1>0, <1>3 DEF OpenTicket, PromotedOwns, TypeOK
<1>4. ASSUME NEW j \in Items, NEW c \in Contacts, NEW fk, PromoteRequesterToContact(j, c, fk)
      PROVE  PromotedOwns(i)
  <2>1. CASE j # i
    <3>1. ticket'[i] = ticket[i]
      BY <1>0, <1>4, <2>1 DEF PromoteRequesterToContact, TypeOK
    <3> QED
      BY <3>1 DEF PromotedOwns
  <2>2. CASE j = i
    <3>1. ticket'[i].contact = c
      <4>1. ticket[i] \in Ticket
        BY <1>0, <1>4, <2>2 DEF PromoteRequesterToContact
      <4>2. CASE ticket' = [ticket EXCEPT ![i].contact = c]
        BY <1>0, <4>1, <4>2 DEF TypeOK, Ticket
      <4>3. ASSUME NEW o, ticket' = [ticket EXCEPT ![i].contact = c, ![i].org = o]
            PROVE  ticket'[i].contact = c
        BY <1>0, <4>1, <4>3 DEF TypeOK, Ticket
      <4> QED
        BY <1>4, <2>2, <4>2, <4>3 DEF PromoteRequesterToContact
    <3>2. \E x \in channels' : x.value = Canonical[Requester[i]] /\ x.owner = c
      <4>1. CASE c \in OwnerOf("EMAIL", Canonical[Requester[i]]) /\ channels' = channels
        BY <4>1 DEF OwnerOf
      <4>2. ASSUME NEW new, channels' = channels \cup {new},
                   new = [type |-> "EMAIL", value |-> Canonical[Requester[i]],
                          owner |-> c, primary |-> TRUE]
            PROVE  \E x \in channels' : x.value = Canonical[Requester[i]] /\ x.owner = c
        <5>1. new \in channels' /\ new.value = Canonical[Requester[i]] /\ new.owner = c
          BY <4>2
        <5> QED
          BY <5>1
      <4> QED
        BY <1>4, <2>2, <4>1, <4>2 DEF PromoteRequesterToContact, PromotedContact
    <3> QED
      BY <3>1, <3>2 DEF PromotedOwns
  <2> QED
    BY <2>1, <2>2
<1>5. ASSUME \/ \E c \in Contacts : \E first \in FirstChannels(c) : CreateContact(c, first)
             \/ \E o \in Orgs, name \in Names : \E first \in FirstChannels(o) :
                  CreateOrganization(o, name, first)
             \/ \E o \in Orgs, name \in Names : UpdateOrganization(o, name)
             \/ \E c \in Contacts, o \in Orgs :
                  \/ \E primary \in BOOLEAN, fk \in Enforced : AddAffiliation(c, o, primary, fk)
                  \/ RemoveAffiliation(c, o)
             \/ \E a \in Addresses, p \in Parties, primary \in BOOLEAN, fk \in Enforced :
                  AddChannel(RowFor(a, p, primary), fk)
             \/ \E x \in channels : RemoveChannel(x)
             \/ UNCHANGED contactsVars
      PROVE  ticket' = ticket
  BY <1>5 DEF CreateContact, CreateOrganization, UpdateOrganization, AddAffiliation,
              RemoveAffiliation, AddChannel, RemoveChannel, contactsVars
<1> QED
  BY <1>1, <1>2, <1>3, <1>4, <1>5 DEF Next, DeleteContact, DeleteOrganization

\* A promotion links a ticket to a contact that owns the address its requester
\* wrote from, whoever had the address before.
THEOREM PromotedOwnsTheAddress == Spec => PromotedOwnsAddress
<1>1. ASSUME DirectoryInv, [Next]_contactsVars
      PROVE  [\A i \in Items : Opened(i) /\ ticket'[i].contact \notin {ticket[i].contact, None} =>
                \E x \in channels' : x.value = Canonical[Requester[i]]
                                     /\ x.owner = ticket'[i].contact]_ticket
  BY <1>1, PromotedOwnsStep DEF PromotedOwns
<1> QED
  BY <1>1, DirectoryInvariant, PTL DEF Spec, PromotedOwnsAddress

-----------------------------------------------------------------------------
(* The calls.                                                                *)

\* What a webhook request has found out by now.  Whoever owned the number was
\* a row once; a lookup that names nobody and did not fail has seen that the row
\* is gone, for good, and with it the links of the tickets.
CallInv(r) ==
  /\ call[r].pc # "idle" => call[r].id \in 1..MaxCalls
  /\ call[r].pc \in {"lookup", "party"} => call[r].pop = NoPop
  /\ call[r].pc \in {"party", "tickets"} => call[r].owner \in Parties /\ Known(call[r].owner)
  /\ call[r].pc = "tickets" =>
       /\ call[r].pop.tickets = {}
       /\ call[r].pop.party = None => call[r].pop.failed \/ ~IsRow(call[r].owner)
  /\ call[r].pc = "notify" /\ call[r].pop.party = None =>
       call[r].pop.failed \/ loose \/ call[r].pop.tickets = {}

CallsInv == CallsTypeOK /\ DirectoryInv /\ (\A r \in Hooks : CallInv(r)) /\ LatestOnItsWay

Call == [pc : {"idle", "lookup", "party", "tickets", "notify"},
         id : 0..MaxCalls, owner : Parties \cup {None}, pop : ScreenPop]

LEMMA CallTypes ==
  ASSUME CallsTypeOK
  PROVE  /\ call \in [Hooks -> Call]
         /\ \A r \in Hooks : call[r] \in Call /\ call[r].pop \in ScreenPop
BY DEF CallsTypeOK, Call

LEMMA IdleType == Idle \in Call /\ NoPop \in ScreenPop
BY CallsConstantsOK DEF Idle, NoPop, Call, ScreenPop

LEMMA CallsConstants ==
  /\ MaxCalls \in Nat /\ MaxDrops \in Nat /\ Buffer \in Nat /\ Buffer > 0
  /\ Wire \in Nat /\ Wire > 0
BY CallsConstantsOK

\* A ticket stays one, and a statement without foreign keys stays remembered.
LEMMA HistoryStays ==
  ASSUME DirectoryInv, [Next]_contactsVars
  PROVE  /\ loose => loose'
         /\ \A i \in Items : Opened(i) => Opened(i)'
<1>0. TypeOK /\ TypeOK'
  BY TypeStep DEF DirectoryInv
<1>1. loose => loose'
  BY DEF Next, contactsVars, CreateContact, DeleteContact, CreateOrganization, UpdateOrganization,
         DeleteOrganization, AddAffiliation, RemoveAffiliation, AddChannel, RemoveChannel,
         OpenTicket, PromoteRequesterToContact, RanOn
<1>2. None \notin Ticket
  BY ContactsConstantsOK DEF Ticket
<1>3. ASSUME NEW i \in Items, Opened(i) PROVE Opened(i)'
  <2>0. ticket[i] \in Ticket
    BY <1>0, <1>3, ReferencedParties
  <2>1. CASE ticket' = ticket
    BY <1>3, <2>1 DEF Opened
  <2>2. ASSUME NEW p, NEW fk, Referenced(p, fk) PROVE Opened(i)'
    <3>1. CASE ~fk
      BY <2>1, <2>2, <3>1 DEF Referenced
    <3>2. CASE fk
      <4>1. ticket'[i] = [ticket[i] EXCEPT !.contact = IF @ = p THEN None ELSE @,
                                           !.org = IF @ = p THEN None ELSE @]
        BY <1>3, <2>2, <3>2 DEF Referenced, Cascade
      <4>2. ticket'[i] \in Ticket
        BY <2>0, <4>1 DEF Ticket
      <4> QED
        BY <1>2, <4>2 DEF Opened
    <3> QED
      BY <3>1, <3>2
  <2>3. ASSUME NEW j \in Items, NEW fk, OpenTicket(j, fk) PROVE Opened(i)'
    <3>1. j # i
      BY <1>3, <2>3 DEF OpenTicket
    <3>2. ticket'[i] = ticket[i]
      BY <1>0, <2>3, <3>1 DEF OpenTicket, TypeOK
    <3> QED
      BY <1>3, <3>2 DEF Opened
  <2>4. ASSUME NEW j \in Items, NEW c \in Contacts, NEW fk, PromoteRequesterToContact(j, c, fk)
        PROVE  Opened(i)'
    <3>1. CASE ticket' = [ticket EXCEPT ![j].contact = c]
      <4>1. ticket'[i] \in Ticket
        BY <1>0, <2>0, <3>1 DEF TypeOK, Ticket
      <4> QED
        BY <1>2, <4>1 DEF Opened
    <3>2. ASSUME NEW o \in Orgs, ticket' = [ticket EXCEPT ![j].contact = c, ![j].org = o]
          PROVE  Opened(i)'
      <4>1. ticket'[i] \in Ticket
        BY <1>0, <2>0, <3>2 DEF TypeOK, Ticket
      <4> QED
        BY <1>2, <4>1 DEF Opened
    <3> QED
      BY <2>4, <3>1, <3>2 DEF PromoteRequesterToContact
  <2>5. ASSUME \/ \E c \in Contacts : \E first \in FirstChannels(c) : CreateContact(c, first)
               \/ \E o \in Orgs, name \in Names : \E first \in FirstChannels(o) :
                    CreateOrganization(o, name, first)
               \/ \E o \in Orgs, name \in Names : UpdateOrganization(o, name)
               \/ \E c \in Contacts, o \in Orgs :
                    \/ \E primary \in BOOLEAN, fk \in Enforced : AddAffiliation(c, o, primary, fk)
                    \/ RemoveAffiliation(c, o)
               \/ \E a \in Addresses, p \in Parties, primary \in BOOLEAN, fk \in Enforced :
                    AddChannel(RowFor(a, p, primary), fk)
               \/ \E x \in channels : RemoveChannel(x)
               \/ UNCHANGED contactsVars
        PROVE  ticket' = ticket
    BY <2>5 DEF CreateContact, CreateOrganization, UpdateOrganization, AddAffiliation,
                RemoveAffiliation, AddChannel, RemoveChannel, contactsVars
  <2> QED
    BY <2>1, <2>2, <2>3, <2>4, <2>5 DEF Next, DeleteContact, DeleteOrganization
<1> QED
  BY <1>1, <1>3

\* Every step of a call is one of the directory or leaves it alone.
LEMMA CallsStepOfDirectory == [CallsNext]_callsVars => [Next]_contactsVars
BY DEF CallsNext, callsVars, Ring, QueryChannel, ReadParty, ReadTickets, NotifyIncomingCall,
       SubscribeOperator, SendEvent, Disconnect, RenderIncomingCall, Dismiss, ChangeStatus

LEMMA OthersKeepCall ==
  ASSUME CallsInv, [Next]_contactsVars, NEW r \in Hooks, call'[r] = call[r]
  PROVE  CallInv(r)'
<1>1. /\ loose => loose'
      /\ \A p \in Parties : (Known(p) => Known(p)') /\ (Known(p) /\ ~IsRow(p) => ~IsRow(p)')
  BY HistoryStays, PartyLife DEF CallsInv
<1> QED
  BY <1>1 DEF CallsInv, CallInv

\* The tickets of a party that is gone.
LEMMA NoTicketsOfGone ==
  ASSUME DirectoryInv, ~loose, NEW p \in Parties, ~IsRow(p)
  PROVE  TicketsOf(p) = {} /\ ListQueue(p) \subseteq {{}}
<1>1. TicketsOf(p) = {}
  BY PartyKinds DEF DirectoryInv, ReferencesResolve, TicketsOf
<1> QED
  BY <1>1 DEF ListQueue

-----------------------------------------------------------------------------
(* A webhook request, step by step.                                          *)

CallKept(r) == call'[r] \in Call /\ CallInv(r)'

LEMMA RingKeeps ==
  ASSUME CallsInv, NEW r \in Hooks, Ring(r)
  PROVE  CallKept(r) /\ calls' \in 0..MaxCalls
<1>1. calls' = calls + 1 /\ calls' \in 1..MaxCalls /\ calls' \in 0..MaxCalls
  BY CallsConstants DEF Ring, CallsInv, CallsTypeOK
<1>2. call'[r] = [Idle EXCEPT !.pc = "lookup", !.id = calls']
  BY <1>1 DEF Ring, CallsInv, CallsTypeOK
<1>3. /\ call'[r].pc = "lookup" /\ call'[r].id = calls' /\ call'[r].pop = NoPop
      /\ call'[r] \in Call
  BY <1>1, <1>2, IdleType DEF Idle, Call
<1> QED
  BY <1>1, <1>3 DEF CallKept, CallInv

LEMMA QueryChannelKeeps ==
  ASSUME CallsInv, NEW r \in Hooks, QueryChannel(r)
  PROVE  CallKept(r)
<1>0. call \in [Hooks -> Call] /\ call[r] \in Call /\ call[r].pc = "lookup"
      /\ call[r].id \in 1..MaxCalls /\ call[r].pop = NoPop
  BY CallTypes DEF CallsInv, CallInv, QueryChannel
<1>1. ASSUME NEW p \in OwnerOf("PHONE", Number),
             call' = [call EXCEPT ![r].pc = "party", ![r].owner = p]
      PROVE  CallKept(r)
  <2>1. p \in Parties /\ Known(p)
    BY DEF OwnerOf, CallsInv, DirectoryInv, OwnersKnown, TypeOK, Channel
  <2>2. /\ call'[r].pc = "party" /\ call'[r].owner = p
        /\ call'[r].id = call[r].id /\ call'[r].pop = NoPop /\ call'[r] \in Call
    BY <1>0, <1>1, <2>1 DEF Call
  <2>3. Known(p)'
    BY <2>1 DEF QueryChannel, contactsVars, Known
  <2> QED
    BY <1>0, <2>1, <2>2, <2>3 DEF CallKept, CallInv
<1>2. CASE call' = [call EXCEPT ![r].pc = "notify"]
  <2>1. /\ call'[r].pc = "notify" /\ call'[r].id = call[r].id /\ call'[r].pop = NoPop
        /\ call'[r] \in Call
    BY <1>0, <1>2 DEF Call
  <2> QED
    BY <1>0, <2>1 DEF CallKept, CallInv, NoPop
<1>3. CASE call' = [call EXCEPT ![r] = Idle]
  BY <1>0, <1>3, IdleType DEF CallKept, CallInv, Idle
<1> QED
  BY <1>1, <1>2, <1>3 DEF QueryChannel

LEMMA ReadPartyKeeps ==
  ASSUME CallsInv, NEW r \in Hooks, ReadParty(r)
  PROVE  CallKept(r)
<1> DEFINE p == call[r].owner
<1>0. /\ call \in [Hooks -> Call] /\ call[r] \in Call /\ call[r].pc = "party"
      /\ call[r].id \in 1..MaxCalls /\ call[r].pop = NoPop /\ call[r].pop \in ScreenPop
      /\ p \in Parties /\ Known(p)
  BY CallTypes DEF CallsInv, CallInv, ReadParty
<1>1. \A q \in Parties : IsRow(q)' = IsRow(q) /\ Known(q)' = Known(q)
  BY DEF ReadParty, contactsVars, IsRow, Known
<1>2. ASSUME NEW pop \in ScreenPop, call'[r] = [call[r] EXCEPT !.pc = "tickets", !.pop = pop],
             pop.tickets = {}, pop.party = None => pop.failed \/ ~IsRow(p)
      PROVE  CallKept(r)
  <2>1. /\ call'[r].pc = "tickets" /\ call'[r].pop = pop
        /\ call'[r].id = call[r].id /\ call'[r].owner = p /\ call'[r] \in Call
    BY <1>0, <1>2 DEF Call
  <2> QED
    BY <1>0, <1>1, <1>2, <2>1 DEF CallKept, CallInv
<1>3. CASE call' = [call EXCEPT ![r].pc = "tickets", ![r].pop.party = GetParty(p)]
  <2>1. GetParty(p) \in Parties \cup {None} /\ (GetParty(p) = None => ~IsRow(p))
    BY <1>0, PartyKinds DEF GetParty
  <2>2. /\ [NoPop EXCEPT !.party = GetParty(p)] \in ScreenPop
        /\ [NoPop EXCEPT !.party = GetParty(p)].tickets = {}
        /\ [NoPop EXCEPT !.party = GetParty(p)].party = GetParty(p)
    BY <2>1, IdleType DEF ScreenPop, NoPop
  <2>3. call'[r] = [call[r] EXCEPT !.pc = "tickets", !.pop = [NoPop EXCEPT !.party = GetParty(p)]]
    BY <1>0, <1>3 DEF Call
  <2> QED
    BY <1>2, <2>1, <2>2, <2>3
<1>4. CASE call' = [call EXCEPT ![r].pc = "tickets", ![r].pop.failed = TRUE]
  <2>1. /\ [NoPop EXCEPT !.failed = TRUE] \in ScreenPop
        /\ [NoPop EXCEPT !.failed = TRUE].tickets = {}
        /\ [NoPop EXCEPT !.failed = TRUE].failed
    BY IdleType DEF ScreenPop, NoPop
  <2>2. call'[r] = [call[r] EXCEPT !.pc = "tickets", !.pop = [NoPop EXCEPT !.failed = TRUE]]
    BY <1>0, <1>4 DEF Call
  <2> QED
    BY <1>2, <2>1, <2>2
<1> QED
  BY <1>3, <1>4 DEF ReadParty

LEMMA ReadTicketsKeeps ==
  ASSUME CallsInv, NEW r \in Hooks, ReadTickets(r)
  PROVE  CallKept(r)
<1> DEFINE p == call[r].owner
           pop == call[r].pop
<1>0. /\ call \in [Hooks -> Call] /\ call[r] \in Call /\ call[r].pc = "tickets"
      /\ call[r].id \in 1..MaxCalls /\ pop \in ScreenPop
      /\ p \in Parties /\ Known(p)
      /\ pop.tickets = {}
      /\ pop.party = None => pop.failed \/ ~IsRow(p)
  BY CallTypes DEF CallsInv, CallInv, ReadTickets
<1>1. ASSUME NEW found \in ScreenPop,
             call'[r] = [call[r] EXCEPT !.pc = "notify", !.owner = None, !.pop = found],
             found.party = None => found.failed \/ loose \/ found.tickets = {}
      PROVE  CallKept(r)
  <2>1. /\ call'[r].pc = "notify" /\ call'[r].pop = found
        /\ call'[r].id = call[r].id /\ call'[r] \in Call
    BY <1>0, <1>1 DEF Call
  <2>2. loose' = loose
    BY DEF ReadTickets, contactsVars
  <2> QED
    BY <1>0, <1>1, <2>1, <2>2 DEF CallKept, CallInv
<1>2. ASSUME NEW S \in ListQueue(p),
             call' = [call EXCEPT ![r].pc = "notify", ![r].owner = None,
                                  ![r].pop.tickets = S \ done]
      PROVE  CallKept(r)
  <2> DEFINE found == [pop EXCEPT !.tickets = S \ done]
  <2>1. S \subseteq Items
    BY DEF ListQueue, TicketsOf
  <2>2. /\ found \in ScreenPop /\ found.tickets = S \ done
        /\ found.party = pop.party /\ found.failed = pop.failed
    BY <1>0, <2>1 DEF ScreenPop
  <2>3. ~loose /\ ~IsRow(p) => S = {}
    BY <1>0, NoTicketsOfGone DEF CallsInv
  <2>4. found.party = None => found.failed \/ loose \/ found.tickets = {}
    BY <1>0, <2>2, <2>3
  <2>5. call'[r] = [call[r] EXCEPT !.pc = "notify", !.owner = None, !.pop = found]
    BY <1>0, <1>2 DEF Call
  <2> QED
    BY <1>1, <2>2, <2>4, <2>5
<1>3. CASE call' = [call EXCEPT ![r].pc = "notify", ![r].owner = None, ![r].pop.failed = TRUE]
  <2> DEFINE found == [pop EXCEPT !.failed = TRUE]
  <2>1. found \in ScreenPop /\ found.failed
    BY <1>0 DEF ScreenPop
  <2>2. call'[r] = [call[r] EXCEPT !.pc = "notify", !.owner = None, !.pop = found]
    BY <1>0, <1>3 DEF Call
  <2> QED
    BY <1>1, <2>1, <2>2
<1> QED
  BY <1>2, <1>3 DEF ReadTickets

-----------------------------------------------------------------------------
(* The operators' pages.                                                     *)

PagesOK ==
  /\ connected \subseteq Operators /\ missed \subseteq Operators /\ hidden \subseteq Operators
  /\ channel \in [Operators -> Seq(1..MaxCalls)] /\ wire \in [Operators -> Seq(1..MaxCalls)]
  /\ \A v \in Operators : /\ Len(channel[v]) <= Buffer /\ Len(wire[v]) <= Wire
                          /\ channel[v] # <<>> \/ wire[v] # <<>> => v \in connected
  /\ banner \in [Operators -> 0..MaxCalls] /\ dismissed \in [Operators -> 0..MaxCalls]
  /\ latest \in 0..MaxCalls
  /\ drops \in 0..MaxDrops

LEMMA PagesTypes == CallsTypeOK => PagesOK
BY DEF CallsTypeOK, PagesOK

PagesKept == PagesOK' /\ LatestOnItsWay'

PageStep(v) ==
  SubscribeOperator(v) \/ SendEvent(v) \/ Disconnect(v) \/ RenderIncomingCall(v) \/ Dismiss(v)

\* Newest, of a channel, a connection and a banner.
NewestOf(queued, sent, shown) ==
  IF queued # <<>> THEN Last(queued) ELSE IF sent # <<>> THEN Last(sent) ELSE shown

\* A step of one page leaves the others as they are.
LEMMA OnePage ==
  ASSUME PagesOK, LatestOnItsWay, NEW v \in Operators,
         NEW queued \in Seq(1..MaxCalls), NEW sent \in Seq(1..MaxCalls),
         NEW shown \in 0..MaxCalls, NEW done0 \in 0..MaxCalls,
         channel' = [channel EXCEPT ![v] = queued], wire' = [wire EXCEPT ![v] = sent],
         banner' = [banner EXCEPT ![v] = shown], dismissed' = [dismissed EXCEPT ![v] = done0],
         connected' \subseteq Operators, missed' \subseteq Operators, hidden' \subseteq Operators,
         latest' = latest, drops' \in 0..MaxDrops,
         \A w \in Operators \ {v} : /\ w \in connected' <=> w \in connected
                                    /\ w \in missed' <=> w \in missed
                                    /\ w \in hidden' <=> w \in hidden,
         Len(queued) <= Buffer, Len(sent) <= Wire,
         queued # <<>> \/ sent # <<>> => v \in connected',
         v \notin missed' => latest = NewestOf(queued, sent, shown),
         v \in hidden' => done0 = shown
  PROVE  PagesKept
<1>1. /\ channel'[v] = queued /\ wire'[v] = sent /\ banner'[v] = shown /\ dismissed'[v] = done0
      /\ \A w \in Operators \ {v} : /\ channel'[w] = channel[w] /\ wire'[w] = wire[w]
                                    /\ banner'[w] = banner[w] /\ dismissed'[w] = dismissed[w]
  BY DEF PagesOK
<1>2. /\ channel' \in [Operators -> Seq(1..MaxCalls)] /\ wire' \in [Operators -> Seq(1..MaxCalls)]
      /\ banner' \in [Operators -> 0..MaxCalls] /\ dismissed' \in [Operators -> 0..MaxCalls]
  BY DEF PagesOK
<1>3. ASSUME NEW w \in Operators
      PROVE  /\ Len(channel'[w]) <= Buffer /\ Len(wire'[w]) <= Wire
             /\ channel'[w] # <<>> \/ wire'[w] # <<>> => w \in connected'
  BY <1>1 DEF PagesOK
<1>4. PagesOK'
  BY <1>2, <1>3 DEF PagesOK
<1>5. ASSUME NEW w \in Operators
      PROVE  /\ w \notin missed' => latest' = Newest(w)'
             /\ w \in hidden' => dismissed'[w] = banner'[w]
  <2>1. CASE w = v
    BY <1>1, <1>5, <2>1 DEF NewestOf, Newest
  <2>2. CASE w # v
    <3>1. /\ w \notin missed => latest = Newest(w)
          /\ w \in hidden => dismissed[w] = banner[w]
      BY <1>5, <2>2 DEF LatestOnItsWay
    <3> QED
      BY <1>1, <2>2, <3>1 DEF Newest
  <2> QED
    BY <2>1, <2>2
<1> QED
  BY <1>4, <1>5 DEF PagesKept, LatestOnItsWay

LEMMA NotifyPages ==
  ASSUME CallsInv, NEW r \in Hooks, NotifyIncomingCall(r)
  PROVE  PagesKept
<1> DEFINE id == call[r].id
<1>0. PagesOK /\ id \in 1..MaxCalls
  BY PagesTypes DEF CallsInv, CallInv, NotifyIncomingCall
<1>1. /\ connected' = connected /\ UNCHANGED <<wire, banner, hidden, dismissed>>
      /\ drops' = drops /\ latest' = id
      /\ missed' = {v \in Operators : v \notin connected \/ Full(v)}
      /\ channel' = [v \in Operators |->
           IF v \in connected /\ ~Full(v) THEN Append(channel[v], id) ELSE channel[v]]
  BY DEF NotifyIncomingCall, PublishOperator, bannerVars
<1> HIDE DEF id
<1>2. ASSUME NEW v \in Operators
      PROVE  /\ channel'[v] \in Seq(1..MaxCalls) /\ Len(channel'[v]) <= Buffer
             /\ channel'[v] # <<>> => v \in connected
             /\ v \notin missed' => channel'[v] # <<>> /\ Last(channel'[v]) = id
  <2>0. channel[v] \in Seq(1..MaxCalls) /\ Len(channel[v]) <= Buffer /\ Len(channel[v]) \in Nat
    BY <1>0 DEF PagesOK
  <2>1. CASE v \in connected /\ ~Full(v)
    <3>1. channel'[v] = Append(channel[v], id) /\ Len(channel[v]) < Buffer
      BY <1>1, <2>0, <2>1, CallsConstants DEF Full
    <3>2. /\ channel'[v] \in Seq(1..MaxCalls) /\ Len(channel'[v]) = Len(channel[v]) + 1
          /\ channel'[v] # <<>> /\ channel'[v][Len(channel[v]) + 1] = id
      BY <1>0, <2>0, <3>1
    <3> QED
      BY <2>0, <2>1, <3>1, <3>2, CallsConstants DEF Last
  <2>2. CASE ~(v \in connected /\ ~Full(v))
    <3>1. channel'[v] = channel[v] /\ v \in missed'
      BY <1>1, <2>2
    <3> QED
      BY <1>0, <2>0, <3>1 DEF PagesOK
  <2> QED
    BY <2>1, <2>2
<1>3. PagesOK'
  BY <1>0, <1>1, <1>2, CallsConstants DEF PagesOK
<1>4. ASSUME NEW v \in Operators
      PROVE  /\ v \notin missed' => latest' = Newest(v)'
             /\ v \in hidden' => dismissed'[v] = banner'[v]
  <2>1. v \in hidden => dismissed[v] = banner[v]
    BY DEF CallsInv, LatestOnItsWay
  <2> QED
    BY <1>1, <1>2, <2>1 DEF Newest
<1> QED
  BY <1>3, <1>4 DEF PagesKept, LatestOnItsWay

LEMMA SubscribePages ==
  ASSUME CallsInv, NEW v \in Operators, SubscribeOperator(v)
  PROVE  PagesKept
<1>1. PagesOK /\ LatestOnItsWay
  BY PagesTypes DEF CallsInv
<1> QED
  BY <1>1
  DEF SubscribeOperator, PagesKept, PagesOK, LatestOnItsWay, Newest, bannerVars

LEMMA DisconnectPages ==
  ASSUME CallsInv, NEW v \in Operators, Disconnect(v)
  PROVE  PagesKept
<1>0. PagesOK /\ LatestOnItsWay
  BY PagesTypes DEF CallsInv
<1>1. /\ connected' = connected \ {v}
      /\ channel' = [channel EXCEPT ![v] = <<>>] /\ wire' = [wire EXCEPT ![v] = <<>>]
      /\ missed' = IF channel[v] = <<>> /\ wire[v] = <<>> THEN missed ELSE missed \cup {v}
      /\ drops' \in 0..MaxDrops
      /\ UNCHANGED <<banner, hidden, dismissed, latest>>
  BY <1>0, CallsConstants DEF Disconnect, PagesOK, bannerVars
<1>2. /\ banner' = [banner EXCEPT ![v] = banner[v]]
      /\ dismissed' = [dismissed EXCEPT ![v] = dismissed[v]]
      /\ banner[v] \in 0..MaxCalls /\ dismissed[v] \in 0..MaxCalls
  BY <1>0, <1>1 DEF PagesOK
<1>3. <<>> \in Seq(1..MaxCalls) /\ Len(<<>>) <= Buffer /\ Len(<<>>) <= Wire
  BY CallsConstants
<1>4. connected' \subseteq Operators /\ missed' \subseteq Operators /\ hidden' \subseteq Operators
  BY <1>0, <1>1 DEF PagesOK
<1>5. v \notin missed' => latest = NewestOf(<<>>, <<>>, banner[v])
  BY <1>0, <1>1 DEF LatestOnItsWay, Newest, NewestOf
<1>6. v \in hidden' => dismissed[v] = banner[v]
  BY <1>0, <1>1 DEF LatestOnItsWay
<1>7. \A w \in Operators \ {v} : /\ w \in connected' <=> w \in connected
                                 /\ w \in missed' <=> w \in missed
                                 /\ w \in hidden' <=> w \in hidden
  BY <1>1
<1> QED
  BY <1>0, <1>1, <1>2, <1>3, <1>4, <1>5, <1>6, <1>7, OnePage

LEMMA NonEmpty ==
  ASSUME NEW S, NEW s \in Seq(S), s # <<>>
  PROVE  /\ Len(s) \in Nat /\ Len(s) >= 1
         /\ Head(s) = s[1] /\ Head(s) \in S
         /\ Tail(s) \in Seq(S) /\ Len(Tail(s)) = Len(s) - 1
         /\ Len(s) = 1 => Tail(s) = <<>>
         /\ Len(s) > 1 => Tail(s) # <<>> /\ Tail(s)[Len(s) - 1] = s[Len(s)]
<1>1. Len(s) \in Nat /\ Len(s) >= 1 /\ Head(s) = s[1] /\ Head(s) \in S
  OBVIOUS
<1>2. /\ Tail(s) \in Seq(S) /\ Len(Tail(s)) = Len(s) - 1
      /\ \A i \in 1..Len(Tail(s)) : Tail(s)[i] = s[i + 1]
  BY HeadTailProperties
<1>3. ASSUME Len(s) = 1 PROVE Tail(s) = <<>>
  <2>1. Len(Tail(s)) = 0 /\ 0 \notin Nat \ {0}
    BY <1>2, <1>3
  <2> QED
    BY <1>2, <2>1, EmptySeq
<1>4. ASSUME Len(s) > 1 PROVE Tail(s) # <<>> /\ Tail(s)[Len(s) - 1] = s[Len(s)]
  <2>1. Len(s) - 1 \in 1..Len(Tail(s)) /\ (Len(s) - 1) + 1 = Len(s)
    BY <1>1, <1>2, <1>4
  <2>2. Tail(s) # <<>>
    BY <1>1, <1>2, <1>4, EmptySeq
  <2> QED
    BY <1>2, <2>1, <2>2
<1> QED
  BY <1>1, <1>2, <1>3, <1>4

LEMMA AppendLast ==
  ASSUME NEW S, NEW s \in Seq(S), NEW e \in S
  PROVE  /\ Append(s, e) \in Seq(S) /\ Len(Append(s, e)) = Len(s) + 1
         /\ Append(s, e) # <<>> /\ Last(Append(s, e)) = e
<1>1. /\ Append(s, e) \in Seq(S) /\ Len(Append(s, e)) = Len(s) + 1 /\ Len(s) \in Nat
      /\ Append(s, e)[Len(s) + 1] = e
  BY AppendProperties
<1>2. Append(s, e) # <<>>
  BY <1>1, EmptySeq
<1> QED
  BY <1>1, <1>2 DEF Last

\* Taking the first call out leaves the last one, unless it was the only one.
LEMMA TailLast ==
  ASSUME NEW S, NEW s \in Seq(S), s # <<>>
  PROVE  IF Tail(s) = <<>> THEN Last(s) = Head(s) ELSE Last(Tail(s)) = Last(s)
<1> DEFINE n == Len(s)
<1>1. n \in Nat /\ n >= 1
  BY NonEmpty
<1>2. CASE Len(s) = 1
  <2>1. Tail(s) = <<>> /\ Head(s) = s[1]
    BY <1>2, NonEmpty
  <2> QED
    BY <1>2, <2>1 DEF Last
<1>3. CASE Len(s) > 1
  <2>1. Tail(s) # <<>> /\ Tail(s)[Len(s) - 1] = s[Len(s)] /\ Len(Tail(s)) = Len(s) - 1
    BY <1>3, NonEmpty
  <2> QED
    BY <2>1 DEF Last
<1>4. n = 1 \/ n > 1
  <2> HIDE DEF n
  <2> QED
    BY <1>1
<1> QED
  BY <1>2, <1>3, <1>4

LEMMA TailShorter ==
  ASSUME NEW S, NEW s \in Seq(S), s # <<>>, NEW bound \in Nat, Len(s) <= bound
  PROVE  Tail(s) \in Seq(S) /\ Head(s) \in S /\ Len(Tail(s)) <= bound
<1> DEFINE n == Len(s)
           t == Tail(s)
<1>1. t \in Seq(S) /\ Head(s) \in S /\ n \in Nat /\ Len(t) = n - 1 /\ n <= bound
  BY NonEmpty
<1> HIDE DEF n, t
<1>2. Len(t) <= bound
  BY <1>1
<1> QED
  BY <1>1, <1>2 DEF t

LEMMA SendPages ==
  ASSUME CallsInv, NEW v \in Operators, SendEvent(v)
  PROVE  PagesKept
<1> DEFINE queued == Tail(channel[v])
           sent == Append(wire[v], Head(channel[v]))
<1>0. PagesOK /\ LatestOnItsWay
  BY PagesTypes DEF CallsInv
<1>1. /\ channel[v] # <<>> /\ channel[v] \in Seq(1..MaxCalls) /\ wire[v] \in Seq(1..MaxCalls)
      /\ Len(wire[v]) < Wire /\ Len(channel[v]) <= Buffer /\ v \in connected
      /\ channel' = [channel EXCEPT ![v] = queued] /\ wire' = [wire EXCEPT ![v] = sent]
      /\ UNCHANGED <<connected, banner, hidden, dismissed, latest, missed, drops>>
  BY <1>0 DEF SendEvent, PagesOK, bannerVars
<1>2. /\ banner' = [banner EXCEPT ![v] = banner[v]]
      /\ dismissed' = [dismissed EXCEPT ![v] = dismissed[v]]
      /\ banner[v] \in 0..MaxCalls /\ dismissed[v] \in 0..MaxCalls
  BY <1>0, <1>1 DEF PagesOK
<1>3. /\ queued \in Seq(1..MaxCalls) /\ Len(queued) <= Buffer
      /\ Head(channel[v]) \in 1..MaxCalls
  BY <1>1, TailShorter, CallsConstants
<1>4. /\ sent \in Seq(1..MaxCalls) /\ Len(sent) <= Wire
      /\ sent # <<>> /\ Last(sent) = Head(channel[v])
  <2>1. /\ sent \in Seq(1..MaxCalls) /\ Len(sent) = Len(wire[v]) + 1
        /\ sent # <<>> /\ Last(sent) = Head(channel[v])
    BY <1>1, <1>3, AppendLast
  <2>2. Len(wire[v]) \in Nat /\ Wire \in Nat
    BY <1>1, CallsConstants
  <2> HIDE DEF sent
  <2>3. Len(sent) <= Wire
    BY <1>1, <2>1, <2>2
  <2> QED
    BY <2>1, <2>3
<1>5. v \notin missed' => latest = NewestOf(queued, sent, banner[v])
  <2>1. v \notin missed => latest = Last(channel[v])
    BY <1>0, <1>1 DEF LatestOnItsWay, Newest
  <2>2. IF queued = <<>> THEN Last(channel[v]) = Head(channel[v])
        ELSE Last(queued) = Last(channel[v])
    BY <1>1, TailLast
  <2> HIDE DEF queued, sent
  <2> QED
    BY <1>1, <1>4, <2>1, <2>2 DEF NewestOf
<1>6. v \in hidden' => dismissed[v] = banner[v]
  BY <1>0, <1>1 DEF LatestOnItsWay
<1>7. /\ connected' \subseteq Operators /\ missed' \subseteq Operators
      /\ hidden' \subseteq Operators /\ drops' \in 0..MaxDrops
  BY <1>0, <1>1 DEF PagesOK
<1> HIDE DEF queued, sent
<1> QED
  BY <1>0, <1>1, <1>2, <1>3, <1>4, <1>5, <1>6, <1>7, OnePage

LEMMA RenderPages ==
  ASSUME CallsInv, NEW v \in Operators, RenderIncomingCall(v)
  PROVE  PagesKept
<1> DEFINE sent == Tail(wire[v])
           shown == Head(wire[v])
<1>0. PagesOK /\ LatestOnItsWay
  BY PagesTypes DEF CallsInv
<1>1. /\ wire[v] # <<>> /\ wire[v] \in Seq(1..MaxCalls) /\ channel[v] \in Seq(1..MaxCalls)
      /\ Len(wire[v]) <= Wire /\ Len(channel[v]) <= Buffer /\ v \in connected
      /\ wire' = [wire EXCEPT ![v] = sent] /\ banner' = [banner EXCEPT ![v] = shown]
      /\ hidden' = hidden \ {v}
      /\ UNCHANGED <<connected, channel, dismissed, latest, missed, drops>>
  BY <1>0 DEF RenderIncomingCall, PagesOK
<1>2. /\ channel' = [channel EXCEPT ![v] = channel[v]]
      /\ dismissed' = [dismissed EXCEPT ![v] = dismissed[v]]
      /\ dismissed[v] \in 0..MaxCalls
  BY <1>0, <1>1 DEF PagesOK
<1>3. /\ sent \in Seq(1..MaxCalls) /\ Len(sent) <= Wire
      /\ shown \in 0..MaxCalls
  <2>1. /\ sent \in Seq(1..MaxCalls) /\ Len(sent) <= Wire
        /\ shown \in 1..MaxCalls
    BY <1>1, TailShorter, CallsConstants
  <2> QED
    BY <2>1, CallsConstants
<1>4. v \notin missed' => latest = NewestOf(channel[v], sent, shown)
  <2>1. v \notin missed => latest = IF channel[v] # <<>> THEN Last(channel[v]) ELSE Last(wire[v])
    BY <1>0, <1>1 DEF LatestOnItsWay, Newest
  <2>2. IF sent = <<>> THEN Last(wire[v]) = shown ELSE Last(sent) = Last(wire[v])
    BY <1>1, TailLast
  <2> HIDE DEF sent, shown
  <2> QED
    BY <1>1, <2>1, <2>2 DEF NewestOf
<1>5. /\ connected' \subseteq Operators /\ missed' \subseteq Operators
      /\ hidden' \subseteq Operators /\ drops' \in 0..MaxDrops /\ v \notin hidden'
  BY <1>0, <1>1 DEF PagesOK
<1>6. \A w \in Operators \ {v} : /\ w \in connected' <=> w \in connected
                                 /\ w \in missed' <=> w \in missed
                                 /\ w \in hidden' <=> w \in hidden
  BY <1>1
<1> HIDE DEF sent, shown
<1> QED
  BY <1>0, <1>1, <1>2, <1>3, <1>4, <1>5, <1>6, OnePage

LEMMA DismissPages ==
  ASSUME CallsInv, NEW v \in Operators, Dismiss(v)
  PROVE  PagesKept
<1>0. PagesOK /\ LatestOnItsWay
  BY PagesTypes DEF CallsInv
<1>1. /\ hidden' = hidden \cup {v} /\ dismissed' = [dismissed EXCEPT ![v] = banner[v]]
      /\ UNCHANGED <<connected, channel, wire, banner, latest, missed, drops>>
  BY DEF Dismiss
<1>2. dismissed' \in [Operators -> 0..MaxCalls]
  BY <1>0, <1>1 DEF PagesOK
<1>3. PagesOK'
  BY <1>0, <1>1, <1>2 DEF PagesOK
<1>4. ASSUME NEW w \in Operators
      PROVE  /\ w \notin missed' => latest' = Newest(w)'
             /\ w \in hidden' => dismissed'[w] = banner'[w]
  <2>1. w \notin missed' => latest' = Newest(w)'
    BY <1>0, <1>1 DEF LatestOnItsWay, Newest
  <2>2. w \in hidden' => dismissed'[w] = banner'[w]
    BY <1>0, <1>1 DEF LatestOnItsWay, PagesOK
  <2> QED
    BY <2>1, <2>2
<1> QED
  BY <1>3, <1>4 DEF PagesKept, LatestOnItsWay

LEMMA SamePages ==
  ASSUME CallsInv, UNCHANGED pageVars
  PROVE  PagesKept
<1>1. UNCHANGED <<connected, channel, wire, banner, hidden, dismissed, latest, missed, drops>>
  BY DEF pageVars, bannerVars
<1> QED
  BY <1>1, PagesTypes DEF CallsInv, PagesKept, PagesOK, LatestOnItsWay, Newest

LEMMA PagesStep ==
  ASSUME CallsInv, [CallsNext]_callsVars
  PROVE  PagesKept
<1>1. ASSUME NEW r \in Hooks, Ring(r) \/ QueryChannel(r) \/ ReadParty(r) \/ ReadTickets(r)
      PROVE  UNCHANGED pageVars
  BY <1>1 DEF Ring, QueryChannel, ReadParty, ReadTickets
<1>2. ASSUME \/ \E i \in Items : ChangeStatus(i)
             \/ Next /\ UNCHANGED <<done, call, pageVars, calls>>
             \/ UNCHANGED callsVars
      PROVE  UNCHANGED pageVars
  BY <1>2 DEF ChangeStatus, callsVars, pageVars
<1> QED
  BY <1>1, <1>2, NotifyPages, SubscribePages, DisconnectPages, SendPages, RenderPages, DismissPages,
     SamePages
  DEF CallsNext

-----------------------------------------------------------------------------
(* The inductive invariant of the calls.                                     *)

LEMMA CallsInvInit == CallsInit => CallsInv
<1> SUFFICES ASSUME CallsInit PROVE CallsInv
  OBVIOUS
<1>1. DirectoryInv /\ TypeOK
  BY DirectoryInvInit DEF CallsInit, DirectoryInv
<1>2. /\ <<>> \in Seq(1..MaxCalls) /\ Len(<<>>) <= Buffer /\ Len(<<>>) <= Wire
      /\ 0 \in 0..MaxCalls /\ 0 \in 0..MaxDrops
  BY CallsConstants
<1>3. call \in [Hooks -> Call]
  BY IdleType DEF CallsInit
<1>4. CallsTypeOK
  BY <1>1, <1>2, <1>3 DEF CallsInit, CallsTypeOK, Call
<1>5. ASSUME NEW r \in Hooks PROVE CallInv(r)
  <2>1. call[r] = Idle
    BY DEF CallsInit
  <2> QED
    BY <2>1 DEF CallInv, Idle
<1>6. LatestOnItsWay
  BY DEF CallsInit, LatestOnItsWay, Newest
<1> QED
  BY <1>1, <1>4, <1>5, <1>6 DEF CallsInv

LEMMA NotifyCall ==
  ASSUME CallsInv, NEW r \in Hooks, NotifyIncomingCall(r)
  PROVE  CallKept(r)
<1>1. call'[r] = Idle
  BY CallTypes DEF CallsInv, NotifyIncomingCall
<1> QED
  BY <1>1, IdleType DEF CallKept, CallInv, Idle

\* The own request's step, and everybody else's.
LEMMA EveryCallKept ==
  ASSUME CallsInv, [CallsNext]_callsVars
  PROVE  \A q \in Hooks : CallKept(q)
<1>0. call \in [Hooks -> Call] /\ [Next]_contactsVars
  BY CallTypes, CallsStepOfDirectory DEF CallsInv
<1>1. ASSUME NEW q \in Hooks, call'[q] = call[q] PROVE CallKept(q)
  BY <1>0, <1>1, OthersKeepCall DEF CallKept
<1>2. ASSUME NEW r \in Hooks,
             Ring(r) \/ QueryChannel(r) \/ ReadParty(r) \/ ReadTickets(r) \/ NotifyIncomingCall(r)
      PROVE  /\ CallKept(r)
             /\ \A q \in Hooks : q # r => call'[q] = call[q]
  <2>1. CallKept(r)
    BY <1>2, RingKeeps, QueryChannelKeeps, ReadPartyKeeps, ReadTicketsKeeps, NotifyCall
  <2>2. ASSUME NEW q \in Hooks, q # r PROVE call'[q] = call[q]
    BY <1>0, <1>2, <2>2 DEF Ring, QueryChannel, ReadParty, ReadTickets, NotifyIncomingCall
  <2> QED
    BY <2>1, <2>2
<1>3. ASSUME \/ \E v \in Operators : PageStep(v)
             \/ \E i \in Items : ChangeStatus(i)
             \/ Next /\ UNCHANGED <<done, call, pageVars, calls>>
             \/ UNCHANGED callsVars
      PROVE  call' = call
  BY <1>3 DEF PageStep, SubscribeOperator, SendEvent, Disconnect, RenderIncomingCall,
                Dismiss, ChangeStatus, callsVars
<1> QED
  BY <1>1, <1>2, <1>3 DEF CallsNext, PageStep

LEMMA CallsTypeStep ==
  ASSUME CallsInv, [CallsNext]_callsVars
  PROVE  CallsTypeOK'
<1>0. CallsTypeOK /\ [Next]_contactsVars /\ call \in [Hooks -> Call]
  BY CallTypes, CallsStepOfDirectory DEF CallsInv
<1>1. TypeOK'
  BY <1>0, TypeStep DEF CallsInv, DirectoryInv
<1>2. PagesOK'
  BY PagesStep DEF PagesKept
<1>3. call' \in [Hooks -> Call]
  <2>1. \E f : call' = [r \in Hooks |-> f[r]]
    <3>1. CASE call' = call
      BY <1>0, <3>1
    <3>2. ASSUME NEW r \in Hooks,
                 \/ Ring(r) \/ QueryChannel(r) \/ ReadParty(r) \/ ReadTickets(r)
                 \/ NotifyIncomingCall(r)
          PROVE  \E f : call' = [q \in Hooks |-> f[q]]
      <4>1. call' = [q \in Hooks |-> call'[q]]
        BY <1>0, <3>2 DEF Ring, QueryChannel, ReadParty, ReadTickets, NotifyIncomingCall
      <4> QED
        BY <4>1
    <3>3. ASSUME \/ \E v \in Operators : PageStep(v)
                 \/ \E i \in Items : ChangeStatus(i)
                 \/ Next /\ UNCHANGED <<done, call, pageVars, calls>>
                 \/ UNCHANGED callsVars
          PROVE  call' = call
      BY <3>3 DEF PageStep, SubscribeOperator, SendEvent, Disconnect, RenderIncomingCall,
                Dismiss, ChangeStatus, callsVars
    <3> QED
      BY <3>1, <3>2, <3>3 DEF CallsNext, PageStep
  <2>2. \A r \in Hooks : call'[r] \in Call
    BY EveryCallKept DEF CallKept
  <2> QED
    BY <2>1, <2>2
<1>4. done' \subseteq {i \in Items : Opened(i)'}
  <2>1. done \subseteq {i \in Items : Opened(i)'}
    BY <1>0, HistoryStays DEF CallsInv, CallsTypeOK
  <2>2. ASSUME NEW i \in Items, ChangeStatus(i) PROVE done' \subseteq {j \in Items : Opened(j)'}
    BY <2>1, <2>2 DEF ChangeStatus, contactsVars, Opened
  <2>3. ASSUME \/ \E r \in Hooks : \/ Ring(r) \/ QueryChannel(r) \/ ReadParty(r) \/ ReadTickets(r)
                                   \/ NotifyIncomingCall(r)
               \/ \E v \in Operators : PageStep(v)
               \/ Next /\ UNCHANGED <<done, call, pageVars, calls>>
               \/ UNCHANGED callsVars
        PROVE  done' = done
    BY <2>3 DEF Ring, QueryChannel, ReadParty, ReadTickets, NotifyIncomingCall,
                PageStep, SubscribeOperator, SendEvent, Disconnect, RenderIncomingCall,
                Dismiss, callsVars
  <2> QED
    BY <2>1, <2>2, <2>3 DEF CallsNext, PageStep
<1>5. calls' \in 0..MaxCalls
  <2>1. ASSUME NEW r \in Hooks, Ring(r) PROVE calls' \in 0..MaxCalls
    BY <2>1, RingKeeps
  <2>2. ASSUME \/ \E r \in Hooks : \/ QueryChannel(r) \/ ReadParty(r) \/ ReadTickets(r)
                                   \/ NotifyIncomingCall(r)
               \/ \E v \in Operators : PageStep(v)
               \/ \E i \in Items : ChangeStatus(i)
               \/ Next /\ UNCHANGED <<done, call, pageVars, calls>>
               \/ UNCHANGED callsVars
        PROVE  calls' = calls
    BY <2>2 DEF QueryChannel, ReadParty, ReadTickets, NotifyIncomingCall,
                PageStep, SubscribeOperator, SendEvent, Disconnect, RenderIncomingCall,
                Dismiss, ChangeStatus, callsVars
  <2> QED
    BY <1>0, <2>1, <2>2 DEF CallsNext, PageStep, CallsTypeOK
<1> QED
  BY <1>1, <1>2, <1>3, <1>4, <1>5 DEF CallsTypeOK, PagesOK, Call

LEMMA CallsInvStep == CallsInv /\ [CallsNext]_callsVars => CallsInv'
<1> SUFFICES ASSUME CallsInv, [CallsNext]_callsVars PROVE CallsInv'
  OBVIOUS
<1>1. DirectoryInv'
  BY CallsStepOfDirectory, DirectoryInvStep DEF CallsInv
<1>2. \A r \in Hooks : CallInv(r)'
  BY EveryCallKept DEF CallKept
<1>3. LatestOnItsWay'
  BY PagesStep DEF PagesKept
<1> QED
  BY <1>1, <1>2, <1>3, CallsTypeStep DEF CallsInv

THEOREM CallsInvariant == CallsSpec => []CallsInv
BY CallsInvInit, CallsInvStep, PTL DEF CallsSpec

\* The calls read the directory and leave its operations as they are.
THEOREM CallsKeepTheDirectory == CallsSpec => Spec
<1>1. CallsInit => Init
  BY DEF CallsInit
<1> QED
  BY <1>1, CallsStepOfDirectory, PTL DEF CallsSpec, Spec

\* The directory, the local variables of every request, the channels and the
\* banners have their types.
THEOREM CallsTypeCorrect == CallsSpec => []CallsTypeOK
<1>1. CallsInv => CallsTypeOK
  BY DEF CallsInv
<1> QED
  BY <1>1, CallsInvariant, PTL

\* However the directory changes between the queries of a lookup, a screen-pop
\* that names nobody links no ticket, unless an error was ignored or a party
\* was deleted without foreign keys.
THEOREM LinksHaveCallers == CallsSpec => []LinkHasCaller
<1>1. ASSUME CallsInv PROVE LinkHasCaller
  <2>1. ASSUME NEW r \in Hooks, call[r].pc = "notify", call[r].pop.party = None,
               ViewLink(call[r].pop) # {}, ~loose
        PROVE  call[r].pop.failed
    <3>1. ViewLink(call[r].pop) = IF Cardinality(call[r].pop.tickets) = 1
                                  THEN call[r].pop.tickets ELSE {}
      BY <2>1, ContactsConstantsOK DEF ViewLink
    <3>2. call[r].pop.tickets # {}
      BY <2>1, <3>1
    <3> QED
      BY <1>1, <2>1, <3>2 DEF CallsInv, CallInv
  <2> QED
    BY <2>1 DEF LinkHasCaller
<1> QED
  BY <1>1, CallsInvariant, PTL

\* The page of an operator whom the last call did not pass by shows it or has
\* it behind everything else in its channel or on its connection, and dismissing
\* an older call does not hide it.
THEOREM LatestIsOnItsWay == CallsSpec => []LatestOnItsWay
<1>1. CallsInv => LatestOnItsWay
  BY DEF CallsInv
<1> QED
  BY <1>1, CallsInvariant, PTL
=============================================================================
