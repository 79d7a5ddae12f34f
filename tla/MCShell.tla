------------------------------ MODULE MCShell ------------------------------
(***************************************************************************)
(* A small instance of Shell for TLC.                                      *)
(***************************************************************************)
EXTENDS Shell

\* Two navigations or answers under way suffice to submit a form behind a pending
\* esc, come back and submit another.  The register form differs from the login form
\* in nothing but its name, and is left to the welcome key.  Fair steps never leave
\* these states: only keys do.
Small ==
    /\ navs["welcome"] + navs["login"] + navs["adminLogin"]
         + requests["login"] + requests["adminLogin"] <= 2
    /\ navs["welcome"] <= 1 /\ navs["login"] <= 1 /\ requests["adminLogin"] <= 1
    /\ navs["register"] = 0 /\ requests["register"] = 0

=============================================================================
