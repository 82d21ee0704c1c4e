---- MODULE MCFramework ----
EXTENDS FrameworkBuilder
Form(dest, overwrite, init, remote, auto) ==
  [dest |-> dest, overwrite |-> overwrite, init |-> init, remote |-> remote,
   register |-> init, auto |-> auto]
\* Local with everything, into a repository that is there, twice without git; two pull requests.
Forms ==
  {Form("local", FALSE, TRUE, TRUE, TRUE), Form("local", TRUE, FALSE, TRUE, FALSE),
   Form("github", FALSE, FALSE, FALSE, FALSE), Form("github", FALSE, FALSE, TRUE, FALSE)}
====
