------------------------ MODULE MCScopeClassification ------------------------
(* Names with blanks around them, and names that look like the text of other *)
(* components: each delimiter and each word of a kind is one atom.           *)
EXTENDS ScopeClassification

MCRoles == {<<"a">>, <<" ", "d">>, <<"a", "|", "role", "=", "a">>}
MCSetters == {<<"a">>}
MCDatabases == {<<"d">>}
MCApplications == {<<>>, <<"x">>, <<"d", "|", "x">>, <<"x", "|", "tenant", "=", "a">>}
MCTenantTexts == {<<" ", "a">>, <<"u">>, <<" ">>, <<"a", "|", "role", "=", "a">>}
=============================================================================
