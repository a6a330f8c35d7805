------------------------------- MODULE Pager -------------------------------
(***************************************************************************)
(* The arithmetic of the console's tables (app.js: pagedSlice,             *)
(* buildTablePager, the pager of loadTasks).  Pages and rows count from 1. *)
(***************************************************************************)
EXTENDS Integers

Larger(a, b)  == IF a > b THEN a ELSE b
Smaller(a, b) == IF a < b THEN a ELSE b

\* Math.max(1, Math.ceil(total / size))
Pages(total, size) == Larger(1, (total + size - 1) \div size)

\* pagedSlice pulls the page back into range.
Clamp(page, total, size) == Larger(1, Smaller(page, Pages(total, size)))

\* The rows of a page, as indexes.
FirstRow(page, size) == (page - 1) * size + 1
PageRows(page, total, size) ==
  FirstRow(page, size) .. Smaller(page * size, total)

\* The page numbers offered: at most five, around the current page.
WindowStart(page, pages) == Larger(1, Smaller(page - 2, pages - 4))
WindowEnd(page, pages) == Smaller(pages, WindowStart(page, pages) + 4)
Window(page, pages) == WindowStart(page, pages) .. WindowEnd(page, pages)
=============================================================================
