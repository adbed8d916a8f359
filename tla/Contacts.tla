------------------------------- MODULE Contacts -------------------------------
(***************************************************************************)
(* The directory: contacts, organizations, affiliations and                *)
(* communication_channels, the links from work_items to them, and the      *)
(* operations of internal/db/contact_repository.go.  Every operation is    *)
(* one statement or one IMMEDIATE transaction, so it is one action; a call *)
(* that is refused is rolled back as a whole and is no step.  Names of     *)
(* people, labels, roles and notes are left out, and so is the             *)
(* REQUESTER_PROMOTED audit row, which nothing reads back.                 *)
(***************************************************************************)
CONSTANTS
  Contacts,          \* ids of contacts; AUTOINCREMENT never reuses one
  Orgs,              \* ids of organizations
  Names,             \* organization names, up to case
  Addresses,         \* spellings of e-mail addresses and phone numbers
  Canonical,         \* NormalizeEmail / NormalizePhone
  Kind,              \* is it an e-mail address or a phone number?
  Items,             \* tickets
  Requester,         \* the address the requester of a ticket wrote or called from
  None,              \* SQL NULL
  LooseForeignKeys   \* may a pooled connection run with foreign_keys off?

ASSUME ContactsConstantsOK ==
  /\ Contacts \cap Orgs = {} /\ None \notin Contacts \cup Orgs \cup Names
  /\ None \notin [contact : Contacts \cup {None}, org : Orgs \cup {None}]
  /\ Names \cap {"unused", "deleted"} = {}
  /\ Canonical \in [Addresses -> Addresses]
  /\ Kind \in [Addresses -> {"EMAIL", "PHONE"}]
  /\ \A a \in Addresses : /\ Canonical[Canonical[a]] = Canonical[a]
                          /\ Kind[Canonical[a]] = Kind[a]
  /\ Requester \in [Items -> Addresses]
  /\ LooseForeignKeys \in BOOLEAN

VARIABLES
  contacts,      \* "unused", "row" or "deleted"
  orgs,          \* "unused", "deleted" or the row's name
  channels,      \* rows of communication_channels
  affiliations,  \* rows of affiliations
  ticket,        \* contact_id and organization_id of work_items
  loose          \* history: has a statement run without foreign_keys?

contactsVars == <<contacts, orgs, channels, affiliations, ticket, loose>>

Parties == Contacts \cup Orgs
IsRow(p) == IF p \in Contacts THEN contacts[p] = "row"
            ELSE orgs[p] \notin {"unused", "deleted"}
Known(p) == IF p \in Contacts THEN contacts[p] # "unused" ELSE orgs[p] # "unused"

Opened(i) == ticket[i] # None

Channel == [type : {"EMAIL", "PHONE"}, value : Addresses,
            owner : Parties, primary : BOOLEAN]
Affiliation == [contact : Contacts, org : Orgs, primary : BOOLEAN]
Ticket == [contact : Contacts \cup {None}, org : Orgs \cup {None}]

TypeOK ==
  /\ contacts \in [Contacts -> {"unused", "row", "deleted"}]
  /\ orgs \in [Orgs -> Names \cup {"unused", "deleted"}]
  /\ channels \subseteq Channel
  /\ affiliations \subseteq Affiliation
  /\ ticket \in [Items -> Ticket \cup {None}]
  /\ loose \in BOOLEAN

Init ==
  /\ contacts = [c \in Contacts |-> "unused"]
  /\ orgs = [o \in Orgs |-> "unused"]
  /\ channels = {} /\ affiliations = {}
  /\ ticket = [i \in Items |-> None]
  /\ loose = FALSE

-----------------------------------------------------------------------------
(* What the schema enforces.  (A suffixed name, here and below, is a       *)
(* deliberately wrong variant the properties must tell from the real       *)
(* definition.)                                                            *)

\* Does the connection that happens to run the statement enforce REFERENCES?
Enforced == IF LooseForeignKeys THEN BOOLEAN ELSE {TRUE}

RanOn(fk) == loose' = (loose \/ ~fk)

\* UNIQUE (channel_type, value) and the two indexes on primary channels.
WellIndexed(rows) ==
  \A x, y \in rows : x # y =>
    /\ <<x.type, x.value>> # <<y.type, y.value>>
    /\ ~(x.primary /\ y.primary /\ x.owner = y.owner /\ x.type = y.type)

RowFor(a, p, primary) ==
  [type |-> Kind[a], value |-> Canonical[a], owner |-> p, primary |-> primary]

-----------------------------------------------------------------------------
(* Contacts and organizations.                                             *)

\* CreateContact and CreateOrganization insert the channels they are given.
Directory(p, first) ==
  /\ \A x \in first : x.owner = p
  /\ WellIndexed(channels \cup first)
  /\ channels' = channels \cup first

FirstChannels(p) ==
  {{}} \cup {{RowFor(a, p, b)} : a \in Addresses, b \in BOOLEAN}
       \cup {{RowFor(a, p, TRUE), RowFor(b, p, TRUE)} : a, b \in Addresses}

CreateContact(c, first) ==
  /\ contacts[c] = "unused"
  /\ Directory(c, first)
  /\ contacts' = [contacts EXCEPT ![c] = "row"]
  /\ UNCHANGED <<orgs, affiliations, ticket, loose>>

CreateOrganization(o, name, first) ==
  /\ orgs[o] = "unused"
  /\ Directory(o, first)
  /\ orgs' = [orgs EXCEPT ![o] = name]
  /\ UNCHANGED <<contacts, affiliations, ticket, loose>>

UpdateOrganization(o, name) ==
  /\ IsRow(o)
  /\ orgs' = [orgs EXCEPT ![o] = name]
  /\ UNCHANGED <<contacts, channels, affiliations, ticket, loose>>

\* Schema 0003 without its SET NULL.
CascadeKeepsTickets(p) ==
  /\ channels' = {x \in channels : x.owner # p}
  /\ affiliations' = {x \in affiliations : p \notin {x.contact, x.org}}
  /\ UNCHANGED ticket

\* ON DELETE CASCADE of channels and affiliations, SET NULL of tickets.
Cascade(p) ==
  /\ channels' = {x \in channels : x.owner # p}
  /\ affiliations' = {x \in affiliations : p \notin {x.contact, x.org}}
  /\ ticket' = [i \in Items |-> IF ~Opened(i) THEN None ELSE
                  [ticket[i] EXCEPT !.contact = IF @ = p THEN None ELSE @,
                                    !.org = IF @ = p THEN None ELSE @]]

Referenced(p, fk) ==
  IF fk THEN Cascade(p) ELSE UNCHANGED <<channels, affiliations, ticket>>

DeleteContact(c, fk) ==
  /\ IsRow(c)
  /\ contacts' = [contacts EXCEPT ![c] = "deleted"]
  /\ Referenced(c, fk) /\ RanOn(fk)
  /\ UNCHANGED orgs

DeleteOrganization(o, fk) ==
  /\ IsRow(o)
  /\ orgs' = [orgs EXCEPT ![o] = "deleted"]
  /\ Referenced(o, fk) /\ RanOn(fk)
  /\ UNCHANGED contacts

-----------------------------------------------------------------------------
(* Affiliations and channels.                                              *)

\* Contact c is linked to o as its main organization, but the demotion of the
\* one before has failed.
LinkedUndemoted(c, o) ==
  {x \in affiliations : <<x.contact, x.org>> # <<c, o>>}
    \cup {[contact |-> c, org |-> o, primary |-> TRUE]}

\* The affiliations after contact c has been linked to o.
Linked(c, o, primary) ==
  LET cleared == {IF primary /\ x.contact = c THEN [x EXCEPT !.primary = FALSE]
                  ELSE x : x \in affiliations}
  IN  {x \in cleared : <<x.contact, x.org>> # <<c, o>>}
        \cup {[contact |-> c, org |-> o, primary |-> primary]}

AddAffiliationUndemoted(c, o, primary, fk) ==
  /\ Known(c) /\ Known(o)
  /\ fk => IsRow(c) /\ IsRow(o)
  /\ affiliations' = IF primary THEN LinkedUndemoted(c, o) ELSE Linked(c, o, FALSE)
  /\ RanOn(fk)
  /\ UNCHANGED <<contacts, orgs, channels, ticket>>

\* An error of the demotion is returned here, and rolls everything back.
AddAffiliation(c, o, primary, fk) ==
  /\ Known(c) /\ Known(o)
  /\ fk => IsRow(c) /\ IsRow(o)
  /\ affiliations' = Linked(c, o, primary)
  /\ RanOn(fk)
  /\ UNCHANGED <<contacts, orgs, channels, ticket>>

RemoveAffiliation(c, o) ==
  /\ affiliations' = {x \in affiliations : <<x.contact, x.org>> # <<c, o>>}
  /\ UNCHANGED <<contacts, orgs, channels, ticket, loose>>

\* The channels of the other kind, of other owners, and the cleared ones.
Demoted(new) ==
  {IF new.primary /\ x.owner = new.owner /\ x.type = new.type
   THEN [x EXCEPT !.primary = FALSE] ELSE x : x \in channels}

AddChannelNoRollback(new, fk) ==
  /\ Known(new.owner) /\ (fk => IsRow(new.owner))
  /\ channels' = IF \E x \in channels : <<x.type, x.value>> = <<new.type, new.value>>
                 THEN Demoted(new) ELSE Demoted(new) \cup {new}
  /\ RanOn(fk)
  /\ UNCHANGED <<contacts, orgs, affiliations, ticket>>

\* A taken address is refused, and the demotion of the old primary channel is
\* rolled back with it.  An error of the demotion is ignored, but where there
\* was something to demote the unique index then refuses the new row.
AddChannel(new, fk) ==
  /\ Known(new.owner) /\ (fk => IsRow(new.owner))
  /\ \A x \in channels : <<x.type, x.value>> # <<new.type, new.value>>
  /\ channels' = Demoted(new) \cup {new}
  /\ RanOn(fk)
  /\ UNCHANGED <<contacts, orgs, affiliations, ticket>>

RemoveChannel(x) ==
  /\ channels' = channels \ {x}
  /\ UNCHANGED <<contacts, orgs, affiliations, ticket, loose>>

-----------------------------------------------------------------------------
(* Tickets.                                                                *)

OwnerOf(type, value) ==
  {x.owner : x \in {y \in channels : y.type = type /\ y.value = value}}

\* IngestInbound opens a ticket for whoever owns the sender's address, or for
\* nobody: an error of that query is ignored.
OpenTicket(i, fk) ==
  LET owner == OwnerOf(Kind[Requester[i]], Canonical[Requester[i]]) IN
  /\ ~Opened(i)
  /\ \E p \in owner \cup {None} :
       /\ fk /\ p # None => IsRow(p)
       /\ ticket' = [ticket EXCEPT ![i] =
            [contact |-> IF p \in Contacts THEN p ELSE None,
             org |-> IF p \in Orgs THEN p ELSE None]]
  /\ RanOn(fk)
  /\ UNCHANGED <<contacts, orgs, channels, affiliations>>

PromotedContactConflictIgnored(c, email) ==
  \/ /\ c \in OwnerOf("EMAIL", email)
     /\ UNCHANGED <<contacts, channels>>
  \/ /\ OwnerOf("EMAIL", email) \cap Contacts = {}
     /\ contacts[c] = "unused"
     /\ contacts' = [contacts EXCEPT ![c] = "row"]
     /\ channels' = IF OwnerOf("EMAIL", email) = {}
                    THEN channels \cup {[type |-> "EMAIL", value |-> email,
                                         owner |-> c, primary |-> TRUE]}
                    ELSE channels

\* The contact to promote to: the one that owns the address as an e-mail
\* channel, or a new one that gets it.  Where an organization owns it the new
\* channel violates the unique index and everything is rolled back; so it does
\* where the query for the owner fails, an error that is ignored too.
PromotedContact(c, email) ==
  \/ /\ c \in OwnerOf("EMAIL", email)
     /\ UNCHANGED <<contacts, channels>>
  \/ /\ OwnerOf("EMAIL", email) = {}
     /\ contacts[c] = "unused"
     /\ contacts' = [contacts EXCEPT ![c] = "row"]
     /\ channels' = channels \cup {[type |-> "EMAIL", value |-> email,
                                    owner |-> c, primary |-> TRUE]}

\* The organization of that name, any of them, or a new one.
PromotedOrg(o, name) ==
  \/ IsRow(o) /\ orgs[o] = name /\ UNCHANGED orgs
  \/ /\ \A q \in Orgs : orgs[q] # name
     /\ orgs[o] = "unused"
     /\ orgs' = [orgs EXCEPT ![o] = name]

\* An error of the demotion of the contact's main affiliation is ignored, and
\* the new one inserted as a main one all the same.
PromoteRequesterToContact(i, c, fk) ==
  /\ Opened(i)
  /\ PromotedContact(c, Canonical[Requester[i]])
  /\ fk => contacts[c] # "deleted"
  /\ \/ /\ UNCHANGED <<orgs, affiliations>>
        /\ ticket' = [ticket EXCEPT ![i].contact = c]
     \/ \E o \in Orgs, name \in Names :
          /\ PromotedOrg(o, name)
          /\ affiliations' \in {Linked(c, o, TRUE), LinkedUndemoted(c, o)}
          /\ ticket' = [ticket EXCEPT ![i].contact = c, ![i].org = o]
  /\ RanOn(fk)

-----------------------------------------------------------------------------

Next ==
  \/ \E c \in Contacts : \/ \E first \in FirstChannels(c) : CreateContact(c, first)
                         \/ \E fk \in Enforced : DeleteContact(c, fk)
  \/ \E o \in Orgs : \/ \E name \in Names, first \in FirstChannels(o) :
                          CreateOrganization(o, name, first)
                     \/ \E name \in Names : UpdateOrganization(o, name)
                     \/ \E fk \in Enforced : DeleteOrganization(o, fk)
  \/ \E c \in Contacts, o \in Orgs :
       \/ \E primary \in BOOLEAN, fk \in Enforced : AddAffiliation(c, o, primary, fk)
       \/ RemoveAffiliation(c, o)
  \/ \E a \in Addresses, p \in Parties, primary \in BOOLEAN, fk \in Enforced :
       AddChannel(RowFor(a, p, primary), fk)
  \/ \E x \in channels : RemoveChannel(x)
  \/ \E i \in Items : \/ \E fk \in Enforced : OpenTicket(i, fk)
                      \/ \E c \in Contacts, fk \in Enforced :
                           PromoteRequesterToContact(i, c, fk)

Spec == Init /\ [][Next]_contactsVars

-----------------------------------------------------------------------------
(* Properties.                                                             *)

\* Whatever was deleted, no channel, affiliation or ticket refers to a row
\* that is gone, as long as no statement ran on a connection without the
\* foreign_keys pragma.
ReferencesResolve == ~loose =>
  /\ \A x \in channels : IsRow(x.owner)
  /\ \A x \in affiliations : IsRow(x.contact) /\ IsRow(x.org)
  /\ \A i \in Items : Opened(i) =>
       \A p \in {ticket[i].contact, ticket[i].org} \ {None} : IsRow(p)

Mains(rows, c) == {x \in rows : x.contact = c /\ x.primary}

\* No index keeps a contact from having two main affiliations, and a promotion
\* can leave two.  Nothing else brings two together: linking by hand never
\* leaves two that were not both there, and a promotion that does has linked its
\* ticket to the contact and one of the two organizations.
LinkedTo(i, x) == Opened(i) /\ ticket[i] = [contact |-> x.contact, org |-> x.org]

SecondMainByPromotion ==
  [][\A c \in Contacts : \A x, y \in Mains(affiliations', c) :
       x = y \/ {x, y} \subseteq affiliations
       \/ \E i \in Items : LinkedTo(i, x)' \/ LinkedTo(i, y)']_affiliations

\* An owner loses its primary channel to another primary channel or with the
\* channel itself, never to a request that was refused.
PrimaryNotLost ==
  [][\A x \in channels : x.primary =>
       \/ \E y \in channels' : y.primary /\ y.owner = x.owner /\ y.type = x.type
       \/ \A y \in channels' : <<y.type, y.value>> # <<x.type, x.value>>]_channels

\* The contact a ticket is linked to by a promotion owns the requester's
\* address, also where that was somebody's already.
PromotedOwnsAddress ==
  [][\A i \in Items : Opened(i) /\ ticket'[i].contact \notin {ticket[i].contact, None} =>
       \E x \in channels' : x.value = Canonical[Requester[i]]
                            /\ x.owner = ticket'[i].contact]_ticket
=============================================================================
