----------------------------- MODULE BuildScript -----------------------------
(***************************************************************************)
(* What is run on the source of a build, in order, and how each part may   *)
(* end: the checks the worker makes before it starts a container, and the  *)
(* steps of the script inside it.  An outcome that is not a pass is the    *)
(* error code the build ends with; a step that raises anything but its own *)
(* failure ends with the code of its decorator.                            *)
(***************************************************************************)
EXTENDS Naturals, Sequences

Passes == {"SUCCESS", "SKIPPED"}

(* The version is compared with the tag in a release only.                 *)
Mismatch(release) == IF release THEN {"VERSION_MISMATCH"} ELSE {}

validate_source(release) ==
  {"SUCCESS", "GIT_CLONE_FAILED", "INVALID_PYPROJECT", "INVALID_PACKAGE_NAME", "INTERNAL_PREFIX_REQUIRED"}
    \cup Mismatch(release)

prepare == {"SUCCESS", "RUNNER_ERROR"}
run_tests == {"SUCCESS", "SKIPPED", "TEST_FAILED", "RUNNER_ERROR"}
build_package == {"SUCCESS", "BUILD_FAILED"}
twine_check == {"SUCCESS", "TWINE_CHECK_FAILED"}
verify_metadata(release) == {"SUCCESS", "INVALID_PACKAGE_NAME"} \cup Mismatch(release)
install_test == {"SUCCESS", "INSTALL_TEST_FAILED", "RUNNER_ERROR"}

Steps(release) ==
  <<prepare, run_tests, build_package, twine_check, verify_metadata(release), install_test>>

(* The first step that does not pass ends the script with its code; no one *)
(* sees it between two steps.                                              *)
run_build(release) ==
  {"none"} \cup ((UNION {Steps(release)[i] : i \in 1 .. 6}) \ Passes)

Codes == (validate_source(TRUE) \cup run_build(TRUE)) \ (Passes \cup {"none"})
=============================================================================
