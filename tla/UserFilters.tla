---------------------------- MODULE UserFilters ----------------------------
(***************************************************************************)
(* content/monitor/user-filters.go and what writes the row of a user:      *)
(* api/user_settings.go, api/tag.go, api/user.go.                          *)
(*                                                                         *)
(* A filter of a user may name a tag; it carries the feeds of the tag.     *)
(* When a request sets the tags of a feed, the monitor brings the filters  *)
(* up to date from the event.  Every request reads the whole row of its    *)
(* user in the middleware and works with that copy; the event of a tag     *)
(* request carries the copy too, and the monitor, like every setting,      *)
(* writes the whole row back.                                              *)
(*                                                                         *)
(* One user, subscribed to all Feeds, with at most one filter for each     *)
(* tag, each with a term to match; filters without a tag pass through the  *)
(* monitor unchanged and are left out.                                     *)
(***************************************************************************)
EXTENDS UserRows

vars == <<row, member, tags, req, events, overlap>>

(* The filters of a profile: the feeds of each tag with a filter.          *)
Filters == UNION {[D -> SUBSET Feeds] : D \in SUBSET Tags}

TagOps == [kind : {"tags"}, feed : Feeds, tags : SUBSET Tags]
SettingOp == [kind |-> "setting"]

Init ==
  /\ row = [present |-> TRUE, filters |-> <<>>]
  /\ member = TRUE
  /\ tags = [f \in Feeds |-> {}]
  /\ req = [r \in Requests |-> Free]
  /\ events = <<>>
  /\ overlap = FALSE

-----------------------------------------------------------------------------
(* userContext: the request goes on with a copy of the row.                *)
Begin(r, op) ==
  /\ req[r] = Free
  /\ overlap' = (overlap \/ ~Drained)
  /\ row.present
  /\ req' = [req EXCEPT ![r] = [at |-> "began", op |-> op, user |-> row]]
  /\ UNCHANGED <<row, member, tags, events>>

(* userRepo.Update: all columns of the row at once; a row that is not      *)
(* there is created.                                                       *)
Update(user) == row' = [user EXCEPT !.present = TRUE]

(* setSettingValue of a name, an address or the password, which are left   *)
(* out: what the copy has besides goes back into the row.                  *)
SetSetting(r) ==
  /\ req[r].at = "began" /\ req[r].op.kind = "setting"
  /\ Update(req[r].user)
  /\ req' = [req EXCEPT ![r] = Free]
  /\ UNCHANGED <<member, tags, events, overlap>>

(* setSettingValue of the profile, with the filters the client has put     *)
(* together from the feeds of their tags.                                  *)
SetProfile(r) ==
  /\ req[r].at = "began" /\ req[r].op.kind = "profile"
  /\ Update([req[r].user EXCEPT !.filters = req[r].op.filters])
  /\ req' = [req EXCEPT ![r] = Free]
  /\ UNCHANGED <<member, tags, events, overlap>>

(* SetUserTags looks at the feed's users before its transaction.           *)
CheckUsers(r) ==
  /\ req[r].at = "began" /\ req[r].op.kind = "tags"
  /\ req' = [req EXCEPT ![r] = IF member THEN [@ EXCEPT !.at = "checked"] ELSE Free]
  /\ UNCHANGED <<row, member, tags, events, overlap>>

(* Wrong: users_feeds_tags without its foreign keys.                       *)
StoreTagsAnyway(r) ==
  /\ req[r].at = "checked"
  /\ tags' = [tags EXCEPT ![req[r].op.feed] = req[r].op.tags]
  /\ req' = [req EXCEPT ![r].at = "stored"]
  /\ UNCHANGED <<row, member, events, overlap>>

(* The transaction of SetUserTags.  Without the users row the foreign key  *)
(* refuses the inserts.  Tags without a feed, which it deletes, are no     *)
(* different here from tags that no feed has.                              *)
StoreTags(r) ==
  LET op == req[r].op IN
  /\ req[r].at = "checked"
  /\ \/ /\ row.present \/ op.tags = {}
        /\ tags' = [tags EXCEPT ![op.feed] = op.tags]
        /\ req' = [req EXCEPT ![r].at = "stored"]
     \/ /\ ~row.present /\ op.tags # {}
        /\ req' = [req EXCEPT ![r] = Free]
        /\ UNCHANGED tags
  /\ UNCHANGED <<row, member, events, overlap>>

(* eventable.feedRepo.SetUserTags dispatches and returns.                  *)
Dispatch(r) ==
  /\ req[r].at = "stored" /\ Len(events) < MaxEvents
  /\ events' = Append(events, [feed |-> req[r].op.feed, tags |-> req[r].op.tags,
                               user |-> req[r].user])
  /\ req' = [req EXCEPT ![r] = Free]
  /\ UNCHANGED <<row, member, tags, overlap>>

(* deleteUser of an administrator; the foreign keys take the user's other  *)
(* rows along.                                                             *)
DeleteUser ==
  /\ row.present
  /\ overlap' = (overlap \/ ~Drained)
  /\ row' = [row EXCEPT !.present = FALSE]
  /\ member' = FALSE
  /\ tags' = [f \in Feeds |-> {}]
  /\ UNCHANGED <<req, events>>

-----------------------------------------------------------------------------
(* Wrong: a feed that has lost the tag stays in the filter.                *)
FeedsAfterAddOnly(e, t) ==
  IF t \in e.tags THEN e.user.filters[t] \cup {e.feed} ELSE e.user.filters[t]

(* The feeds the filter of t has after the event e.                        *)
FeedsAfter(e, t) ==
  IF t \in e.tags THEN e.user.filters[t] \cup {e.feed}
                  ELSE e.user.filters[t] \ {e.feed}

(* A filter of a tag without feeds is not Valid and is dropped.            *)
FiltersAfter(e) ==
  [t \in {u \in DOMAIN e.user.filters : FeedsAfter(e, u) # {}} |-> FeedsAfter(e, t)]

(* One turn of UserFilters.                                                *)
Monitor ==
  /\ events # <<>>
  /\ LET e == Head(events)
     IN IF FiltersAfter(e) # e.user.filters
          THEN Update([e.user EXCEPT !.filters = FiltersAfter(e)])
          ELSE UNCHANGED row
  /\ events' = Tail(events)
  /\ UNCHANGED <<member, tags, req, overlap>>

-----------------------------------------------------------------------------
ProfileOps == {[kind |-> "profile", filters |-> [t \in D |-> FeedsOf(t)]] : D \in SUBSET Tags}

Next ==
  \/ \E r \in Requests :
       \/ \E op \in TagOps \cup {SettingOp} \cup ProfileOps : Begin(r, op)
       \/ SetSetting(r) \/ SetProfile(r)
       \/ CheckUsers(r) \/ StoreTags(r) \/ Dispatch(r)
  \/ DeleteUser
  \/ Monitor

Spec == Init /\ [][Next]_vars
=============================================================================
