------------------------- MODULE ScopeClassification -------------------------
(***************************************************************************)
(* Which scope a statement is charged to (src/scope.rs), and which         *)
(* policies are about that scope (src/policy_cache.rs).                    *)
(*                                                                         *)
(* A backend's statements are classified by the tenant it was given, its   *)
(* current role, its database and the application name of its client, by   *)
(* precedence or, when pwb.composite_scope_enabled is on, by the text of   *)
(* all of them.  Names are sequences of atoms; a blank, the delimiters and *)
(* the words of the kinds are atoms of their own.  A scope is what is      *)
(* hashed: its kind and its value.  (Two scopes with the same 64-bit hash  *)
(* would share a bucket; hashes are not modelled.)                         *)
(***************************************************************************)
EXTENDS Naturals, Sequences, SequencesExt, FiniteSetsExt

CONSTANTS
  Backends,
  Roles,         \* the names of the roles
  Setters,       \* those of pwb_admin, pwb_tenant_setter and superusers
  Databases,     \* the names of the databases
  Applications,  \* values of application_name, with the empty one
  TenantTexts,   \* arguments of pwb.set_tenant
  Composite      \* values of pwb.composite_scope_enabled

ASSUME SettersAssumption == Setters \subseteq Roles
ASSUME CompositeAssumption == Composite \subseteq BOOLEAN
ASSUME NamesAssumption ==
  \A text \in Roles \cup Databases \cup Applications \cup TenantTexts :
    text \in Seq({text[i] : i \in DOMAIN text})

Blank == " "
Bar == "|"
Equals == "="
Delimiters == {Bar, Equals}

NoTenant == <<>>
NoScope == [kind |-> "none", value |-> <<>>]

-----------------------------------------------------------------------------
(* Names.                                                                  *)

\* str::trim
Trim(text) ==
  LET kept == {i \in DOMAIN text : text[i] # Blank}
  IN  IF kept = {} THEN <<>> ELSE SubSeq(text, Min(kept), Max(kept))

HasAny(text, atoms) == \E i \in DOMAIN text : text[i] \in atoms

\* Mutant: the delimiters are allowed.
ValidTenantNonempty(text) == Trim(text) # <<>>

\* normalize_tenant_value accepts the text.
ValidTenant(text) == Trim(text) # <<>> /\ ~HasAny(Trim(text), Delimiters)

-----------------------------------------------------------------------------
(* Sessions.  The tenant is state of the extension; the names are those of *)
(* the PostgreSQL session: the role that SET ROLE chose (`outer') and the  *)
(* one in effect, which a SECURITY DEFINER function changes.               *)

VARIABLES
  session,    \* of each backend
  composite,  \* pwb.composite_scope_enabled
  scope       \* the scope of the last statement that was admitted in the
              \* session as it is

vars == <<session, composite, scope>>

\* What is blank is not available.
Available(kind, value) ==
  IF value = <<>> THEN <<>> ELSE <<[kind |-> kind, value |-> value]>>

\* current_scope_components
Components(s) ==
  Available("tenant", s.tenant) \o Available("role", Trim(s.role))
    \o Available("database", Trim(s.database))
    \o Available("application", Trim(s.application))

\* Mutant: the values without their kinds.
CompositeOfValues(components) ==
  FlattenSeq([i \in DOMAIN components |->
                (IF i = 1 THEN <<>> ELSE <<Bar>>) \o components[i].value])

\* composite_scope_value
CompositeValue(components) ==
  FlattenSeq([i \in DOMAIN components |->
                (IF i = 1 THEN <<>> ELSE <<Bar>>)
                  \o <<components[i].kind, Equals>> \o components[i].value])

\* classify_current_scope: a session with no component has no scope.
Classified(s) ==
  LET components == Components(s) IN
  IF components = <<>> THEN NoScope
  ELSE IF composite /\ Len(components) >= 2
       THEN [kind |-> "composite", value |-> CompositeValue(components)]
       ELSE Head(components)

\* Mutant: the value of the policy is compared as it is written.
GovernsUntrimmed(policy, of) ==
  policy.kind = of.kind /\ policy.value \in {<<>>, of.value}

\* policy_matches_scope, with the value as normalize_scope_value leaves it:
\* one that is null or blank is about every scope of the kind.
Governs(policy, of) ==
  policy.kind = of.kind /\ Trim(policy.value) \in {<<>>, of.value}

-----------------------------------------------------------------------------
(* The steps.                                                              *)

FreshSessions ==
  {[tenant |-> NoTenant, outer |-> role, role |-> role, database |-> database,
    application |-> application] :
      role \in Roles, database \in Databases, application \in Applications}

Init ==
  /\ session \in [Backends -> FreshSessions]
  /\ composite \in Composite
  /\ scope = [b \in Backends |-> NoScope]

Changed(b, changed) ==
  /\ session' = [session EXCEPT ![b] = changed]
  /\ scope' = [scope EXCEPT ![b] = NoScope]
  /\ UNCHANGED composite

\* privileges::require(TenantSetter): asked of the role that called, even inside
\* a SECURITY DEFINER function
MaySetTenant(b) == session[b].outer \in Setters

\* pwb_set_tenant and set_tenant_impl: text that is not valid fails and changes
\* nothing.
SetTenant(b, text) ==
  /\ MaySetTenant(b) /\ ValidTenant(text)
  /\ Changed(b, [session[b] EXCEPT !.tenant = Trim(text)])

\* pwb_clear_tenant and clear_tenant_impl
ClearTenant(b) ==
  /\ MaySetTenant(b)
  /\ Changed(b, [session[b] EXCEPT !.tenant = NoTenant])

\* PostgreSQL: SET ROLE; the tenant stays.
SetRole(b, role) == Changed(b, [session[b] EXCEPT !.outer = role, !.role = role])

\* PostgreSQL: a SECURITY DEFINER function of the role begins, or ends.
EnterDefiner(b, role) == Changed(b, [session[b] EXCEPT !.role = role])
LeaveDefiner(b) == Changed(b, [session[b] EXCEPT !.role = session[b].outer])

\* PostgreSQL: the client sets application_name.
SetApplication(b, application) ==
  Changed(b, [session[b] EXCEPT !.application = application])

\* The backend exits, with its tenant, and another client's takes its place.
Reconnect(b, fresh) == Changed(b, fresh)

\* A statement is admitted: classify_current_scope.
Admit(b) ==
  /\ scope' = [scope EXCEPT ![b] = Classified(session[b])]
  /\ UNCHANGED <<session, composite>>

Next ==
  \/ \E b \in Backends, text \in TenantTexts : SetTenant(b, text)
  \/ \E b \in Backends : ClearTenant(b) \/ LeaveDefiner(b) \/ Admit(b)
  \/ \E b \in Backends, role \in Roles : SetRole(b, role) \/ EnterDefiner(b, role)
  \/ \E b \in Backends, application \in Applications : SetApplication(b, application)
  \/ \E b \in Backends, fresh \in FreshSessions : Reconnect(b, fresh)

Spec == Init /\ [][Next]_vars

-----------------------------------------------------------------------------
(* Properties.                                                             *)

\* What a session and the scope of its statement consist of; a tenant is stored
\* trimmed.
TypeOK ==
  /\ \A b \in Backends :
       /\ session[b].outer \in Roles /\ session[b].role \in Roles
       /\ session[b].database \in Databases /\ session[b].application \in Applications
       /\ session[b].tenant \in {NoTenant} \cup {Trim(text) : text \in TenantTexts}
       /\ scope[b].kind \in {"none", "tenant", "role", "database", "application",
                             "composite"}
  /\ composite \in Composite

Admitted(b) == scope[b] # NoScope

\* Two sessions whose statements share a scope have the same tenant, or both
\* none, whatever else they are called: no name, not even one with delimiters
\* in it, puts a session's writes on the budget of another tenant.  With
\* composite scopes this rests on the tenant being the first component and
\* having no delimiter (normalize_tenant_value).
TenantSeparated ==
  \A b, c \in Backends :
    Admitted(b) /\ Admitted(c) /\ scope[b] = scope[c]
      => session[b].tenant = session[c].tenant

\* Where role and database names have no bar, the text of a composite scope
\* tells all of its components apart, although the last of them, the
\* application name, is whatever a client likes.
ClientNamesSeparated ==
  \A b, c \in Backends :
    /\ Admitted(b) /\ Admitted(c) /\ scope[b] = scope[c]
    /\ scope[b].kind = "composite"
    /\ \A s \in {session[b], session[c]} :
         ~HasAny(s.role, {Bar}) /\ ~HasAny(s.database, {Bar})
    => Components(session[b]) = Components(session[c])

\* A policy that was made for a name as PostgreSQL reports it (scope_value =>
\* current_user) governs the statements classified by that name, blanks around
\* it included: the policy's value and the scope's are normalised alike.
PolicyGovernsItsName ==
  \A b \in Backends :
    Admitted(b) =>
      /\ scope[b].kind = "role" =>
           Governs([kind |-> "role", value |-> session[b].role], scope[b])
      /\ scope[b].kind = "tenant" =>
           \A text \in TenantTexts :
             Governs([kind |-> "tenant", value |-> text], scope[b])
               <=> Trim(text) \in {<<>>, session[b].tenant}

\* A separate policy for an application governs the statements of that
\* application where there is no tenant and no composite scope.
ApplicationPolicyGoverns ==
  \A b \in Backends :
    /\ Admitted(b) /\ ~composite /\ session[b].tenant = NoTenant
    /\ Trim(session[b].application) # <<>>
    => Governs([kind |-> "application", value |-> session[b].application], scope[b])
=============================================================================
