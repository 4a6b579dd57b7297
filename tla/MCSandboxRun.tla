---------------------------- MODULE MCSandboxRun ----------------------------
(* SandboxRun on small pipes, and a claim about it.                        *)
EXTENDS SandboxRun

\* tester_sandboxer.h:101 says that the descriptors are closed when they are
\* read from or when the object that has them is destroyed, so that none is
\* open when the function that asked for them has returned.
DescriptorsClosed == pc = "returned" => open = {}
=============================================================================
