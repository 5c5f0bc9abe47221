# Casa das Quentinhas: a model of the order system and of its pages

Casa das Quentinhas is a Spring MVC / JPA (Hibernate) web application over a
PostgreSQL database: the staff of a company that sells lunch boxes registers
orders (`pedido`) with their items (`pedido_item`), and keeps registers of
products, customers, companies, employees, deliverers and users. Its pages run
scripts of their own, jQuery UI, maskMoney and Bootstrap, which the repository
holds under `static/js`; nearly all of its JavaScript is jQuery UI. This
directory holds TLA+ modules that model both sides, TLC configurations that
check them on small instances, and proofs that TLAPS checks.

Names follow the source: an operator or an action that models a method, a table
or a column has its name. Where two modules that are used together would both
have a `close` or a `refresh`, the name of the widget is added
(`closeMenu`, `refreshSanfona`).

## The system

| Component | State it keeps | Operations | What makes it correct | Module |
|---|---|---|---|---|
| **Order form** (`PedidoController`, `PedidoItemFacade`, `PedidoServiceImpl`, `pedido_item.js`) | `pedido`, `pedido_item`; the items and the removed items in one bean per HTTP session; the total in the form of each tab | create, show, edit, add item, remove item, store, update, destroy | the stored total is that of the rows; a save stores what its page shows, touches one order, never revives a deleted one | `PedidoSession`, `PedidoContrato` |
| **Companies, employees** (their controllers, services, DAOs) | `empresa`, `funcionario` and the orders tied to them | persist, update, delete, with the checks across tables | orders and employees match the type of their company; a deliverer delivers | `EmpresaVinculos` |
| **Customers and users; author of a record** (`ClienteController`, `ClienteServiceImpl`, `AbstractService`) | `cliente`, `usuario`; `username`, one field of each singleton service | check that an e-mail is free, `setUsername`, persist, update, delete | one user per e-mail and per customer; a record's author is who stored it | `Cadastro` |
| **Generic queries** (`AbstractDAO`) | `ignoredJoins`, one field of each singleton DAO | `setIgnoredJoins`, search, count | a page is built with the joins its own request chose | `Consulta` |
| **Navigation** (`AbstractBeanController`) | a stack of previous pages in the session | push, pop, peek, empty | "back" leads to the page one came from | `Navegacao` |
| **List pages** (`casa_das_quentinhas-list.js`, `PaginationTaglib`, Bootstrap's modals) | the table with its hidden inputs, requests in flight, the modal `Carregando` and its backdrops | page, order, search, delete | a deletion does not leave an empty table; no backdrop stays; `Carregando` goes | `ListaPagina` |
| **Report of a range of pages** (`report_modal.jsp`, jQuery UI's slider) | two handles, their limits, what the form shows | drag, keys, open, ask | the range is what the handles show, and part of the table | `Slider`, `Relatorio` |
| **Fields with suggestions** (`-pedido-form.js`, jQuery UI's autocomplete) | text, hidden id, timer, questions in flight, list | type, keys, mouse, answers, choose | the id belongs to the type shown; only the last question counts | `Autocompletar`, `SugestaoContrato` |
| **Price field** (maskMoney, `MoneyEditor`) | text and caret | keys, focus, blur; read by the server | the price read is the one typed | `MaskMoney` |
| **Other widgets of jQuery UI** | see below | see below | see below | `Menu`, `Abas`, `Dialogos`, `Dica`, `Sanfona`, `Giro`, `Escolha`, `Calendario`, `Formato` |
| **Products** | `produto` | persist, update, delete | a product that an order has is not deleted | an action of `PedidoSession` |
| **Login**, reports to PDF, cities, configuration, effects of jQuery UI | | | | not modelled, see below |

How they interact: a request of the browser runs a controller, which reads the
session bean and calls a singleton service; a service method is one transaction
over DAOs. Scripts call the server for items, tables, suggestions and deletions
and change the page when the answer comes. Tabs of one browser share the
session, and with it the list of items and the navigation stack. All users
share the singletons. The widgets of one page share only the document.

What is hard to test here:

* tabs of one session that edit the same list, and sessions that edit the same
  order, in any interleaving;
* answers that overtake each other, are lost, or arrive after the field, the
  modal or the page they are for has moved on;
* a transaction that rolls back after the service has written ids into the
  items that the session keeps;
* forms that outlive what they show: the order or a product is deleted, the
  session expires, the form is submitted twice;
* fields of singletons (`username`, `ignoredJoins`) that concurrent requests
  set and read; checks made in one transaction and used in another;
* timers of the widgets, which wait between two events that clear, replace or
  forget them; the state of a widget that several inputs drive at once;
* a sum cast to `short`; numbers and dates that are formatted, edited and read
  back.

`PROJECT.json` lists them under `hazards`, each at its line, with the
properties that watch it.

## The modules

| Module | What it is |
|---|---|
| `PedidoSession`, `PedidoContrato` | the order form; what it promises |
| `EmpresaVinculos` | companies and the orders and employees tied to them: the checks of three services, each in a transaction of its own |
| `Cadastro`, `Consulta`, `Navegacao`, composed by `Servidor` | the register of customers with its users, pages of orders, the way back |
| `Autocompletar`, `SugestaoContrato` | the field with suggestions; what it promises |
| `ListaPagina`, `Slider`, composed by `Relatorio` | the list page, and the modal over it with the slider |
| `MaskMoney`, `Menu`, `Abas`, `Dialogos`, `Dica`, `Sanfona`, `Giro`, `Escolha`, `Calendario`, `Formato`, composed by `Componentes` | the price field and the widgets of jQuery UI, one of them in use in each behaviour |
| `PedidoSessionProofs`, `PedidoContratoProofs`, `EmpresaVinculosProofs`, `AutocompletarProofs`, `ServidorProofs`, `RelatorioProofs`, `ComponentesProofs`, `CalendarioProofs` | the theorems |
| `MC...` | the instances for TLC |

An operator with the comment *Mutant* is no part of the model: it is a
plausible wrong version of the definition after it. Substituting it must make a
property of the module fail, which shows that the property depends on what the
code does.

`PedidoSession` and `EmpresaVinculos` meet in the table `pedido`, of which each
keeps what its properties are about: the first the items and their total, with
whole requests as steps, the second the customer and the deliverer, with the
queries of a request as steps. In the same way `Cadastro` has the users of
customers and employees, `EmpresaVinculos` those of companies.

*History variables* (the comments say which) record what has happened, so that
a property can say when it is to hold. They are read by properties only.

### PedidoSession

State and code:

| Variable | Code |
|---|---|
| `pedido`, `pedido_item`, `produto` | the tables; of an order only `quantidade_total` is kept, of an item its quantity |
| `pedido_id_seq` | the sequence: a value read by a transaction that rolls back is lost |
| `facade[s]` | the `PedidoItemFacade` of session `s`: `criada` is `itens != null`, `itens` the quantity of each product, `dono` the `pedidoId` of each item's key, `removedItens` the list of keys |
| `form[a]` | the page tab `a` shows: the hidden id of `edit.jsp`, the read-only total of `form.jsp` |
| `respostas[a]` | answers whose script has not run |
| `manchados` | history only: orders that a save left with rows its list did not account for |

An action is one request, from the controller to the commit, or the script of
the page handling an answer:

| Action | Request |
|---|---|
| `Create`, `Show`, `Edit` | GET of the form or of the order: the bean is emptied, dropped or loaded, then the page is made; `Create` and `Edit` also fail after the bean has changed |
| `AddItem`, `RemoveItem` | the AJAX calls, answered with the total of the session's list |
| `RecebeTotal`, `PerdeTotal` | the success handler: `setPedido` copies the total, or blanks the field; or the answer does not come |
| `Store`, `Update` | POST of the form: the check of the total, the rows inserted, merged and deleted, the ids written into the session's items |
| `StoreFalha`, `UpdateFalha` | the same, rolled back at any point: the tables stay, the sequence value and the ids written so far do not come back |
| `Destroy`, `DestroyProduto` | deletion of an order, or of a product that no row has |
| `SessaoExpira` | timeout or restart |

A request is one step. Two transactions that overlap at READ COMMITTED either
touch different rows, or the second one waits for the first and then sees its
rows; where the second fails on a key that the first has inserted or deleted,
that is `StoreFalha` or `UpdateFalha`, which may happen for any reason. The
merge of Hibernate inserts a row that is gone; `persist` of a key that exists
fails; deleting a row that is gone, or twice, fails (`PodeExcluirItens`).

What is abstracted: prices and the float total (its check refuses a save and
changes nothing, like the check of the quantity); customer, deliverer, company,
status and the other columns; the text of pages. A refused request that changes
nothing is not a step. Pages are sent with the default headers of Spring
Security, which forbid caching, so "back" asks for the form again (`Create`,
`Edit`); submitting the same form twice is possible, with a second click or by
reloading an error page. Requests of the same session run one at a time: the
data race of two of them on one `ArrayList` is not modelled.

### PedidoContrato

The abstract specification: pages with drafts, orders with items and total, the
numbers given out. A save stores the draft whole, with its total, as a new order
or in place of the one it was opened from, if that exists; a number is used
once; nothing else changes an order. `PedidoSession!KeepsPromise` is that
specification under a refinement mapping: an order is the row of `pedido` with
its rows of `pedido_item`, a draft is the hidden id of a form page together
with the list of its session, and is gone when the session has no list.

One interleaving is left out: an order deleted between the service's reads and
the merge of the same save. The merge then inserts a row under a new number; if
the order has items their rows still carry the old number and the save fails on
the foreign key, which is `UpdateFalha`, and an order without items would be
stored again. `EmpresaVinculos` has this window, for companies and orders.

### EmpresaVinculos

A company is a customer (`CLIENTE`) or a carrier (`ENTREGA`). `verificaEmpresa`
of the order service wants a customer, that of the employee service a carrier
for a deliverer and company 1, the house, for the others; the form of a company
refuses a type that the orders or the employees of the company contradict
(`setTipoNotValidError`).

| Variable | Code |
|---|---|
| `empresa` | the table without company 1: `tipo`, and whether `id_usuario_acesso` is set |
| `funcionario` | the table: `funcao`, `id_empresa` |
| `pedido` | the tables `pedido` and `empresa_pedido`: `id_empresa`, none for the order of a person, and `id_entregador` |
| `requisicao[t]` | the request that thread `t` runs: how far it is, its form, what its queries have answered |
| `cruzou[t]`, `corridos` | history only: the companies that were under change while the request of `t` ran; the rows stored by a request whose company was among them |

Transactions run at READ COMMITTED and the code locks nothing, so a request is
cut where the commit of another one may change what it reads next:

| Action | Step |
|---|---|
| `ValidaUpdate` | the controller counts the orders or the employees of the company, outside any transaction of the service |
| `LeCadastro`, `LeAcesso` | the two queries of `EmpresaServiceImpl.update`; not finding the access user is taken for a company that has none |
| `MergeEmpresa` | the merge and the commit: the row is changed, or inserted under a new id if it is gone |
| `IniciaPedido`, `GravaPedido` | the reads of the order service, for a new order or an existing one; its writes and commit, where the foreign keys are checked |
| `IniciaFuncionario`, `GravaFuncionario` | the same of the employee service, called by the two controllers with the functions and the companies of their forms |
| `StoreEmpresa`, `DestroyEmpresa`, `DestroyPedido`, `DestroyFuncionario` | requests whose reads nothing here can change in between, or whose writes are guarded by the foreign keys |
| `Falha` | any failure, at any point |

The reads of an order or of an employee are one step: of its deliverer they read
the function, which the forms never change from or to deliverer, so that only
the moment of the company's type counts.

What is abstracted: names, addresses, documents, passwords and the checks that
they are unique, which refuse a request and change nothing here; the users that
have registered a row. A deletion refused for one of those is not a step.

### Cadastro, Consulta, Navegacao, Servidor

`Cadastro` is the register of customers. A customer and its user are stored
together; the controller asks in one transaction whether the e-mail is free and
saves in another. A request of an employee is a program counter:
`VerificaCliente` and `VerificaUsuario` (the queries of the validation),
`setUsername` (the field of the singleton service), and then the transaction,
`persist`, `altera` or `delete`; `updateFuncionario` and `destroyFuncionario`
change the users that employees log in with. The key on the e-mail of `cliente`
is a guard of the transaction; `usuario` has one as well. Left out: documents,
addresses, the orders of a customer (one more reason for a deletion to fail),
and passwords.

`Consulta` is `ignoredJoins` of the order's DAO. `setIgnoredJoins`, `search` and
`getTotalElements` are steps of their own, for the list of orders and for the
orders of a customer, a company or a deliverer. A search by name that names
both kinds of customer finds nothing of a kind whose join it lost, since the
filter makes an inner join of its own.

`Navegacao` is the stack of previous pages: `SegueLink`, `Cancela`, `Salva`,
`Exclui`, `NaoSalva` (a form with errors), `Recarrega` and `Digita`, for each
tab. `caminho` is the way the user came, from the pages alone; the property says
that the stack is this way.

`Servidor` composes the three: nothing in one reads or writes what is in
another, so that a behaviour is about one of them and the others rest.

### Autocompletar and SugestaoContrato

The field `cliente` of the order form, with the select `tipoCliente` and the
hidden `cliente_id`.

| Variable | Code |
|---|---|
| `tipo`, `texto`, `id` | the select, the input, the hidden input |
| `foco`, `atraso` | the focus; the delay a `mousedown` in the list sets to bring it back |
| `searching`, `term` | the search timer; the text of the last search |
| `requestIndex`, `pending`, `cancelSearch` | fields of the widget of the same names |
| `emVoo`, `falhas` | the questions whose answer has not been handled; history: those that will not be |
| `menu`, `visivel`, `ativo`, `isNewMenu`, `remexe`, `recolhe` | the list, whether it is shown, the active item, and the handlers and timers of the mouse |

An action is one handler: `Digita`, `Tecla`, `Move`, `Enter`, `Escape` of the
keyboard; `MouseEnter`, `MouseMove`, `Click`, ... of the mouse; `Procura`,
`Recolhe`, `DepoisDoMouseDown`, the timers; `Recebe` and `Falha`, an answer that
comes, in any order, or does not; `MudaTipo`, the script of the page that empties
both inputs. `RatoParado` says whether the list may open under a mouse at rest,
which the comment at `jquery-ui.js:5551` takes for impossible.

`SugestaoContrato` has one question and one list: the list on offer answers the
last question, the id is taken from a list on offer, the type changes while
nothing is asked. The refinement maps the many questions in flight to the last
one, and to none when the field was closed after it (`cancelSearch`). The other
fields with suggestions are the same without the select.

### ListaPagina, Slider, Relatorio

`ListaPagina`: `tabela` is what the page shows with its hidden inputs
`dataTable_*`, or `Vazia`, when the server rendered no table and there are no
inputs either; `consultas` and `exclusoes` are requests whose answer has not
been handled, with the answer as the server made it; `excluir` is the row the
modal asks about; `isShown`, `sumindo` and `fundos` are Bootstrap's state of the
modal `Carregando`, which every `ajaxSend` shows and every `ajaxComplete` hides,
in 300 ms. `loadTable` is the script's, with `OffsetAtual`, the step back after
the last row of a page was deleted. The answer to a deletion may be an error
with or without JSON; without, the handler fails before `complete`.

`Slider` has two handles (`range: true`), driven by the mouse (`MouseDown`,
`MouseMove`, `MouseUp` of the mouse widget), the keyboard (`KeyDown`, `KeyUp`)
and the page (`Reinicia`) at the same time. `NaN` is a limit that the page does
not know: no comparison with it holds, as in the code. Pixels are the value under
the mouse.

`Relatorio` opens the modal of the report over the list: `setIntervalos` resets
the slider to the pages of the table, `Pedido` is the request the form then
makes. Requests that were sent before go on being answered meanwhile.

### MaskMoney

The field `preco` of the product form. `preco` is a record with the text, a
sequence of characters, the selection, the focus, `dirty`, and as history
`esperado`, the cents that typing at the end of the field adds up to.
`maskAndPosition` is the plugin's rewriting of the text and its placing of the
caret; `setAsText` is `MoneyEditor`, which wants the symbol in front and reads up
to the first character that is none of a number. `blurEvent` fails where it asks
for `$.browser`, which the page's jQuery 3 does not have: the symbol stays in the
field, and the server needs it.

### The widgets of jQuery UI

The program's pages create the autocomplete and the slider only. The other
widgets are modelled because the program ships them as part of its source and
their state is worth checking; no page of the program reaches it. Each is a
record with the widget's fields, and a handler of the source is an operator from
one such record to the next, as handlers call each other; the events apply them.

| Module | State and events | Left out |
|---|---|---|
| `Menu` | `active`, `activeMenu`, the submenus shown, the delays under way in the order they will run out (`fila`) and what happens in a moment (`logo`); mouse, keys, letters, clicks, focus, timers | disabled items, scrolling, pages |
| `Abas` | active tab and panel, animation, the request of each tab, the delayed activation of an arrow key; clicks, keys, answers, disabling | tabs that come and go |
| `Dialogos` | open dialogs and their order, z-indexes, overlays, the document's focus handler, focus; open, close, clicks, Tab, the moment after | place, size, buttons, other focusable parts |
| `Dica` | titles taken away and kept, open tooltips and what closes them; mouse, focus, Escape, disabling, for elements inside each other | content that is loaded, fading |
| `Sanfona` | active panel, animation with `prevShow` and `prevHide`, classes, tab order; clicks, keys, option, refresh | headers that come and go, refused choices |
| `Giro` | value, repetition, timers of wheel and blur, button and key held, what the page was told; typing, keys, buttons, wheel, calls, focus, disabling | decimals and formats, two presses within a moment |
| `Escolha` | the select's index, the label, the menu's focus, open or closed; keys, mouse, page, form reset, disabling | layout, an empty select |
| `Calendario` | `showing`, `curInst`, `lastInput`, what the calendar was drawn with, each field's selection, current date, text and limits; keys, mouse, typing, calls of the page | years, inline calendars, several months |
| `Formato` | a date written by a format (`formatDate`), edited, and read back (`parseDate`) | upper and lower case, timestamps, quoted quotes |

Dates are days of a calendar of four short months in `Calendario`; `Formato` has
the real calendar. `Componentes` composes the widgets and the price field: each
hears the events of its own elements only, and keeps its own record, so that a
behaviour with one of them in use says as much as one with all.

## The runs

| Run | Instance | Shows |
|---|---|---|
| `pedido_two_sessions` | two users with one tab each, two products, two orders | `TypeOK`; totals agree with the rows unless a save did not account for them (`TotalsAgreeUnlessStale`); the list and the removals belong to the order of the form (`ListBelongsToForm`); a request changes one order (`OneOrderPerRequest`); deleted orders stay deleted (`NoResurrection`) |
| `pedido_one_tab` | one tab, two products, quantities 1 and 2, two answers in flight, lost or handled in any order | stored totals agree with the rows (`TotalsAgree`): a total that is out of date is refused; the form implements `PedidoContrato` (`KeepsPromise`) |
| `empresa_concurrent` | two companies besides the house, an employee, an order, two threads | `TypeOK`; only rows stored while their company was under change may fail to match (`LinksMatchUnlessRaced`); the deliverer of an order is one (`DelivererDelivers`) |
| `autocompletar_campo` | two people, a company, one text, four questions, one of which may fail | the id belongs to the type (`IdDoTipo`); the field implements `SugestaoContrato` (`KeepsPromise`) |
| `autocompletar_busca` | two texts, three questions; the list may open under a mouse at rest | `TypeOK`; no list without the focus (`MenuSoComFoco`); `pending` counts (`PendenteConta`); a text that stays is searched for and answered (`TextoProcurado`, under fairness) |
| `relatorio` | three rows on pages of two, two searches, three requests | no empty table after a deletion (`PaginaComLinhas`); no backdrop stays (`PaginaLivre`); the range is what the handles show (`IntervaloConfere`) and of the table (`RelatorioDaTabela`); `Carregando` goes (`CargaTermina`, under fairness) |
| `servidor` | two employees, one free e-mail, two customers; two pages of orders; two tabs, five pages, a stack of three | customers and users go together (`ClienteTemAcesso`); what the validation allowed the database accepts, unless somebody saved since (`VerificacaoBasta`); the author is right unless requests met (`AutorSemCruzar`); a page of orders is complete unless another was built meanwhile (`PaginaCompleta`); the stack is the way back of the one tab that moves (`VoltaPeloCaminho`) |
| `componentes` | a menu of three levels, three tabs, three dialogs, four elements with titles, three panels, a spinner from 0 to 9 by 4, four options, two date fields, six formats | `PrecoChega`, `MenuCoerente`, `UmaAba`, `PedidoDaAtiva`, `FocoPreso`, `TituloVolta`, `UmPainel`, `GiroPara`, `GiroAvisa`, `RotuloSegue`, `CalendarioDoCampo`, `EscolhaCerta`, `CampoEmDia`, `VoltaIgual`, each stated in its module |
| `pedido_two_sessions_totals` | as `pedido_two_sessions` | `TotalsAgree` is violated |
| `pedido_overflow` | three products, quantities 1 and 30000 | `TotalsAreSums` is violated |
| `empresa_race` | as `empresa_concurrent` | `LinksMatch` is violated |
| `cadastro_autor` | as `servidor` | `AutorEQuemCadastra` is violated |

The runs that are violated are disagreements between the code and what it says of itself:

* *Two users.* Both edit order 1; the first one adds a product and saves; the
  second one saves the list loaded before, and the product stays in the order,
  whose stored total does not count it. The check that refuses a wrong total
  (`PedidoServiceImpl.java:255-261`) compares it with the list, not with the
  rows.
* *Overflow.* The sum of quantities is cast to `short` on both sides of the
  check, so three items of 30000 have the total 24464.
* *The type of a company.* The form that makes a customer a carrier counts no
  orders; an order for the company reads that it is a customer; both commit. The
  same happens with a carrier, that becomes a customer, and its deliverer.
* *The author.* f1 sets the field `username`, f2 sets it, f1's `persist` reads
  it: f2 is recorded as the author of f1's customer.

### Bounds

`pedido_*`: `MaxPedidos` is the number of values the sequence gives: two, so
that a save can touch an order it should not. `MaxRemovidos` bounds the list of
removals: one is enough for a removal that survives into the edition of another
order, two (with one tab) for an order that loses all its products or the same
key twice. `MaxRespostas`: with two answers in flight, one overtakes the other
(the page shows a modal during a call, but the end of any other call hides it).
One quantity tells a row from no row; two tell a changed quantity.

`empresa_*`: two threads are enough for a check that is overtaken, as no
property relates three requests; each property speaks of one row and its
company. Symmetry is used only where the constants are interchangeable and the
properties do not name them.

`autocompletar_*`: two people and a company, for lists of up to two items, of
which one can be active and another under the mouse, and for ids of the wrong
type; three questions, so that one overtakes another and one more is asked
after; one failure. `relatorio`: with three rows on pages of two the last page
has one row, whose deletion must lead back; three requests can cross, and a
deletion can follow a search. `MaxValor` cuts only the keys of a handle without
limit.

`servidor`: two employees and one free e-mail make every collision of two
requests; a second customer is a second owner of an e-mail. A stack of three is
longer than the way from a list to a form.

`componentes`: a menu three levels deep, so that a submenu is neither outermost
nor innermost, and two delays under way when the menu gets the focus
(`MaxTimers`). Three tabs, so that the one left, the one asked for and a third
one differ. Two modal dialogs and one that is not, and four z-indexes
(`MaxZ`). Three elements inside each other and one beside. A step of 4 and a
greatest value of 9, which is no step; the speed of a repetition after the second
one only changes how far it goes (`MaxConta`). A disabled option between others.
Two fields of dates, of which one changes its limits. The formats have names that
begin alike, numbers that touch, and short years on both sides of a century.
`MaxCentavos` cuts what is typed at seven digits, with a thousands point; the
module writes one point only, so that no price may reach 10.000,00.

### Fairness

`Autocompletar` assumes weak fairness of its timers and of the answer to each
question that does not fail: the browser runs a timer that has run out, and the
server answers or the question fails. `Relatorio` assumes it of the handling of
answers (`Atende`) and of the end of Bootstrap's transition (`hideModal`). Users
owe nothing. No liveness is stated of the other modules: their requests are
served as they come, and nobody has to make one. The repetition of a spinner is
stated as a safety property, that it goes on only while something is held.

CHECK_DEADLOCK is off where a system may come to rest by itself: all ids used
up, all requests of the bound made.

## The proofs

`PedidoSessionProofs` proves, for any number of sessions, tabs, products and
orders and any bound:

* `TypeCorrect`: `TypeOK` always holds. One step per action; the parts of
  `TypeOK` about tables, beans and pages are proved apart. An edit page names an
  order: the save of an edited order relies on it.
* `TotalsCorrect`: `TotalsAgreeUnlessStale` always holds. With `TypeOK` it is
  inductive. The argument is in two lemmas. `GravaALista`: when the list accounts
  for every row of the order, deleting the removed rows and merging the list
  leaves exactly the list, so the total that was checked against the list is
  that of the rows. `GravaSoOPedido`: the rows of another order change only if
  they were removed, and then the order is in `manchados`.
* `DeletedStaysDeleted`: the action property `NoResurrection`.
* `ListCorrect`: `ListBelongsToForm`, when no two tabs share a session
  (`UmaAbaCadaSessao`; with two tabs it is false, which is how their totals go
  wrong). It is not inductive: a product that is not in the list might have a
  key left, which adding it again would bring into the list. `ListInv` adds
  `ChaveSoDeItem`, that only items of the list have a key.
* `OneOrderCorrect`: the action property `OneOrderPerRequest` under the same
  assumption, from `ListCorrect`.

Assumed of the constants: `ConstantesOK`, in `PedidoSession` (quantities are
positive and fit a `short`, there are finitely many products, each tab has a
session). What the sum of a list adds up to would need induction over the
products, and no theorem needs it: all but one step only use that equal lists
have equal sums.

`PedidoContratoProofs` proves that one tab keeps what `PedidoContrato` promises,
under `UmaAba` (two tabs of a session break it):

* `OneTabTotals`: `TotalsAgree`, without the exception for orders that another
  form spoiled. `UmaAbaInv` adds `Contas` to `TypeOK` and `ListInv`: the list in
  the session, with the keys removed from it, accounts for every row of the order
  the form names. Each handler of the session's bean keeps that account, and a
  save closes it.
* `PromiseKept`: `KeepsPromise`. `ContratoStep` shows each action to be a step of
  the contract or a stutter: the draft is the list of the form in use, and an
  order appears, changes and goes as the contract says. Here the sum is needed
  once: an empty list sums up to nothing (`SomaDaVazia`), which is shown of the
  recursive fold by the least number at which it would fail, as the library's
  induction theorems cannot be instantiated.

Assumed besides: `NuloOK`, that null is neither an answer nor a draft.

`EmpresaVinculosProofs` proves, for any number of companies, employees, orders
and threads:

* `TypeCorrect`: `TypeOK` always holds.
* `LinksMatchOrRaced`: `LinksMatchUnlessRaced` always holds. The invariant,
  `VinculosInv`, says why the two sides of the check meet, whichever comes
  first. `ChangesCovered`: while a company is to change its type, the rows that
  would contradict it are in the history, for there were none when they were
  counted. `CrossingKnown`: a request that is to tie a row to this company knows
  of the change. `CheckStillHolds`: what the others have read is still so.
  `LinksExist`, the foreign keys, is needed because an id that no row has may
  become a company of any type.
* `DeliverersDeliver`: `DelivererDelivers` always holds. `DelivererStays` says
  of each pending request that the deliverer it read still is one, and that a
  form stays among the functions of its controller.

Assumed: `ConstantesOK` of `EmpresaVinculos` (company 1 is none of the others,
orders and employees have different names).

`AutocompletarProofs` proves, for any types of customers, any suggestions, any
number of questions and any bound:

* `TypeCorrect`, `ListNeedsFocus` (`MenuSoComFoco`): from `BaseInv`, which adds
  to `TypeOK` that a term was searched for before there are questions
  (`BuscaFeita`), that questions in flight have different indexes up to
  `requestIndex` (`IndicesOK`), and that without the focus nothing that could
  open the list is pending (`SemFocoQuieto`): the timer is stopped and the last
  question cancelled. The last one is what makes the property inductive: an
  answer may come at any time.
* `PendingCounts` (`PendenteConta`), by counting `emVoo` with and without the
  question answered.
* `IdOfType` (`IdDoTipo`) and `ContractKept` (`KeepsPromise`): from `TipoInv`,
  which says that all there is in the list, and the question that counts, is of
  the type selected. Both assume `~RatoParado`: a list that opens under a mouse
  at rest has no active item for a click to select. Every action is shown to be
  a step of the contract or a stutter.

`ServidorProofs` proves the five properties of `servidor`, for any employees,
customers, requests, orders, tabs and pages. `ServidorInv` has a part for each
module `Servidor` composes, as none touches the variables of another:

* `CadastroInv`, for `CustomersHaveUsers` (`ClienteTemAcesso`), `QuestionsSuffice`
  (`VerificacaoBasta`) and `AuthorUnlessCrossed` (`AutorSemCruzar`). `TabelasInv`
  has the keys of the tables: emails and users are of one row each.
  `RequisicoesInv` says of each request under way what its queries have shown: an
  answer marked `atual` still holds, as nothing was written since, and once a
  request that was not crossed has set the name in the singleton, the name is its
  own. Without these a save that comes after its questions could not be told from
  one that never asked.
* `ConsultaInv`, for `PagesComplete` (`PaginaCompleta`). `JuntasDaPagina`: while a
  page is built, the ignored joins of the singleton are its own unless another
  request set them. `LinhasCompletas`: from the first query on, the rows are all
  there with their customers, so that the count that follows agrees with them.
* `NavegacaoInv`, for `BackTheSameWay` (`VoltaPeloCaminho`), which is inductive
  with the types of the stack and the tabs.

Assumed: `ConstantesDoCadastro` (employees have different emails; employees,
numbers and nobody are different things), `ConstantesDaConsulta`,
`ConstantesDaNavegacao` (links and lists are pages, a form is no list, the error
page is none of them).

`RelatorioProofs` proves the four properties of `relatorio`, for any rows,
searches, page size above one, limits and bounds:

* `PageIsFree` (`PaginaLivre`), from `FundosInv`: there is one backdrop exactly
  for a modal that is seen or still disappearing, and it is shown only while a
  request is in flight.
* `PagesKeepRows` (`PaginaComLinhas`), from `SemCruzarInv`. As long as requests do
  not cross and no answer is lost, there is one request at a time (`UmPedido`);
  what is asked fits what the database has (`PerguntaCabe`); between requests the
  table counts what the database has, but for a row just deleted
  (`TabelaEmDia`), which is one the table can show (`LinhaDaTabela`). The offset
  that steps back when a page loses its last row is the reason for all four: it
  is right only if the count on the page was.
* `RangeIsShown` (`IntervaloConfere`), from `SliderInv`: values within the limits,
  in their order, and written in the form; what is dragged is one of the handles.
* `ReportOfTheTable` (`RelatorioDaTabela`), which relates the two: `ModalInv`
  says that the limits of an open modal are the pages of the table behind it,
  unless the page was loaded again.

Assumed: `ConstantesDaLista` (finitely many rows, searches find rows, the empty
table and `Nada` are no tables), `ConstantesDoSlider`.

`ComponentesProofs` proves ten properties of `componentes`, for any number of
tabs, panels, options and dialogs, any menus, any elements with titles, any
limits of the spinner and any price that is changed. A widget that is
not in use does not move, so each has an invariant of its own:

* `OneTabIsShown` (`UmaAba`) and `RequestOfTheActive` (`PedidoDaAtiva`), from
  `AbaOK`: what is visible in each phase of the animation, an order of the
  keyboard that is not empty and has the active tab (`OrdemAlcanca`), one request,
  of the tab that is active.
* `OnePanelIsShown` (`UmPainel`), from `SanfonaOK`, which says the same of the
  panels of the accordion: an animation that is interrupted is finished first.
* `SpinnerStops` (`GiroPara`) and `SpinnerTells` (`GiroAvisa`), from `GiroOK`: a
  spinner that turns has been started and is held by a key or a button, and, as
  long as no change went without an event, the page was told of the value that
  the field was entered with, or left with (`Comecou`, `Seguro`). `CallTells`: a
  call tells of its change with or without the focus, and during a visit this is
  no help, as the end of the visit compares with the value at its beginning.
* `LabelFollows` (`RotuloSegue`), from `EscolhaOK`: an open menu has an item in
  focus for the keys to move from.
* `FocusIsHeld` (`FocoPreso`), from `DialogoOK`. `PilhaOK`: the overlays are those
  of the open modal dialogs, each below its dialog and none as high as another.
  `GuardaOK`: the handler that holds the focus belongs to the lowest of them.
  The property alone does not say which dialog the handler belongs to, and so not
  whether closing one leaves it. `PilhaOK` always holds; `GuardaOK` if no modal
  dialog was closed before one over it (`dialogoDesvio`).
* `MenuIsCoherent` (`MenuCoerente`), from `MenuInv`, which holds of every state
  that `menuCruzado` does not mark. `UmTempo`: one delay at most is under way and
  the menu remembers it. `FilaOK` says what that delay is about: to close and to
  open, the active item, whose menu is the active one; to collapse, a menu that
  is shown. With the submenus shown on one path (`Trilha`), what runs out late
  then leaves a path. Without `FilaOK` a delayed opening could show a submenu of
  an item in a closed one. The item under the mouse, the first item that waits
  for the focus and, while none waits, the active menu can be seen too: the next
  event begins from them. What is above a menu (`Acima`, a recursive function) is
  the least set that goes on upward (`OneWayUp`), which gives all that the proof
  uses of it.
* `TitlesComeBack` (`TituloVolta`), from `DicaOK`. The property says which titles
  are there, not who gives one back: an empty title looks the same for an element
  that shows its tooltip, for one inside which another does, and for one that was
  disabled. `Cobre` says that each has its keeper. What shows a tooltip has its
  title there (`Mostradas`); what was silenced for one inside it is in `parents`,
  with all that is around it (`Abafadas`); a title that is away is in one of the
  three places (`Titulados`). Every tooltip shown is for an element the mouse or
  the focus is in, and listens to what closes it (`Presa`). `Cobre` and `Presa`
  always hold; that nothing is silenced once the last tooltip is gone does unless
  `dicaDesvio`. What is inside an element (`Dentro`) is a least set, and all the
  proof uses is that it goes on through the parents (`WayOut`).
* `PriceArrives` (`PrecoChega`), from `PrecoOK`. While it is known what the user
  expects, `n`, the text is the mask of `n` (`TextoDe`): the symbol, one, two or
  three digits, or four with a point, the comma and two digits more, and behind
  them the character of an arrow key at most. The property alone says that the
  server reads `n` from it, which other texts may have in common (`R$ 1` and
  `R$ 1,00`), and the next key would then make another number of it. That the mask
  of a number is so written is `MaskIsWritten`; what the plugin reads of it, when
  the last digit is missing or one more is there, `BeginningAlone`, `MaskAlone`
  and `DigitAfter`; what the server reads, `ServerReads`. The number of a text is
  a recursive function (`NumeroAte`). `TextIsRead` shows that it exists, by a least
  place up to which there would be none; what it is of a mask then follows from
  the eight characters at most behind the symbol, one after the other. Once it is not known what the user
  expects it stays so, and nothing is said of caret and text.

Assumed: the constants' assumptions of those modules. There are finitely many
dialogs, and no element of a page is inside itself; the document and the body are no dialogs. The items of a menu
differ, there is one at least, and a submenu comes after the item it belongs to,
as it does in the page, being an element within that item. Prices are below
10.000,00: the mask of a greater one has a second place for a point, which
`Inteiro` does not write.

`CalendarioProofs` proves the properties of the calendar, for any fields, limits
and texts and a calendar of any months:

* First, what the dates need: the days before each month are counted (`Antes`, a
  recursive function, exists and grows with the months), so that each day is in
  one month (`PairOfDay`, `DayOfPair`) and a day too many for its month runs over
  into a later one (`DayRunsOver`).
* `CalendarOfItsField` (`CalendarioDoCampo`), `ChoiceIsRight` (`EscolhaCerta`) and
  `DateIsRead` (`CampoEmDia`), from `CalendarioInv`. Always: what the fields have
  selected leaves a month on either side (`ComMesAoLado`, or going to the next
  month would leave the calendar), their text is the one parsed (`EmDia`), and an
  open calendar is drawn for some field (`Aberto`). Unless a call redrew it for
  another field or disabled its field (`calDesvio`), `Fiel`: it is drawn for its
  own field, which has the focus, if anything has, and every day it offers is
  within the limits. `EscolhaCerta` is about a history variable and says nothing
  of the next choice; `Fiel` does.

Assumed: `ConstantesDoCalendario`. Limits leave a month at both ends of the
calendar, and no month is longer than the last two together: a day that runs
over is then in the calendar, as it is in the real one, where a month has at
most 31 days and two have at least 59.

## What is proved and what is only checked

Proved for all values of the constants: the properties of `pedido_two_sessions`
(two of them when no two tabs share a session), of `pedido_one_tab`, of
`empresa_concurrent`, of `servidor` and of `relatorio` but `CargaTermina`, those
of the autocomplete but `TextoProcurado`, and thirteen of `componentes`.

Only model-checked, and why:

* `TextoProcurado` and `CargaTermina`: liveness.
* `VoltaIgual`: it is no fact of all formats and names. A literal that is a digit
  after a number without a fixed length, or a name that goes on with the
  beginning of what follows it, reads as something else; `Separado` excludes what
  touches among the letters only, and the formats and names of the run have no
  such case. A theorem would need assumptions on them that are as long as what
  they are to show.

## Seen while modelling

Behaviour that no run states, because nothing in the repository says otherwise,
or because a guard alone shows it.

Server and pages of the program:

* With two tabs of one session, opening the form of a new order in one empties
  the list the other one edits; the other's save then merges a shorter list into
  its order and writes its total. `TotalsAgreeUnlessStale` is proved for this
  case too: the order is one of those marked.
* A company deleted between the two queries of its update is inserted again: not
  finding the access user is taken for a company without one.
* A company without access user, such as those of the initial data, can never be
  deleted: looking its user up throws where `EmpresaServiceImpl.java:117` expects
  a null.
* Two tabs share the stack of pages: saving in one leads to where the other came
  from. Reloading a page whose address has the parameter that pops the stack
  pops once more, and an empty stack is an exception.
* `pedido/show.jsp:22` links the company of an order to `/empresa/` and the id of
  `pedido.cliente`.
* A deletion answered with an error that is not JSON leaves `Carregando` and the
  modal over the page: the handler fails first. `Carregando`, shown again while
  it disappears, leaves a backdrop behind.
* A report asked for after a search that found nothing has the page `NaN`; two
  deletions confirmed before the table is loaded again can show an empty page,
  as the offset steps back once. These are the cases that `perdida`, `cruzada`
  and `tabela # Vazia` leave out.
* Erasing the text of a field with suggestions leaves the hidden id: the submit
  handler that would empty it is commented out (`pedido-form.js:52-55`). The
  arrow keys write a label without its id.
* The characters `%` and `'` have the codes of arrow keys and get into the price
  field. Visiting the empty field leaves `R$ 0,00` there, which is a price.
* `MoneyEditor.NUMBER_FORMAT` is one object for all threads.

Widgets of jQuery UI, which no page of the program creates:

* Tabs: a click within the 300 ms after an arrow key is undone when the delayed
  activation comes; Ctrl and an arrow leave `aria-selected` as the last arrow set
  it. A tab opened from the collapsed state leaves the one before in the tab order,
  against the comment at `jquery-ui.js:17963`: the filter at 17969 compares the
  attribute, the string `"0"`, with the number 0 and finds none. `UmaAba` asks only
  that the Tab key reaches the tabs and the active one.
* Dialogs closed out of order leave the document's focus handler, or take it
  away while a modal dialog is open.
* A tooltip closed by Escape or the focus leaves the titles of elements around it
  empty, until the mouse leaves another one.
* A spinner that is disabled while it turns never stops. Its page is not told of
  a change by the wheel without the focus, nor of what was typed before the field
  was disabled; and told of a change by a call during a visit (`stepUp`, 3 to 8),
  it is not told when the field is left with the value it was entered with (3
  again), and goes on with 8.
* With the menu of a select closed, a letter can choose a disabled option.
* A calendar that is open for one field is redrawn for another by a call about
  that one; disabling its field leaves it open; typing the text that was parsed
  last, after another date was chosen, leaves the chosen date.
* Two digits of a year near the end of a century are taken for the past one; the
  day of the year in a format is not among the characters one may type.

The history variables `dialogoDesvio`, `dicaDesvio`, `giroDesvio`, `calado`,
`calDesvio`, `menuCruzado`, `retipado` and `mudada` mark these cases, and the
properties are stated for all others.

## Not modelled, and the plan

* *Login, roles and remember-me tokens*: the framework's own behaviour.
* *Reports to PDF, cities and states*: read-only queries.
* *Configuration and browser tests*: wiring. Keys and foreign keys of the tables
  are guards of the actions that write them.
* *Documents, telephone numbers and the server's dates*: conversions without
  state.
* *The float total*, compared exactly with the one the page formatted with two
  decimals: float arithmetic is out of the model's reach; its check refuses a
  save and changes nothing.
* *Two requests of one session at the same time* on the `ArrayList` of its bean:
  the data race has no outcomes that the code bounds.
* *Effects, positions, drag and drop, sorting, resizing, buttons, check boxes and
  progress bars of jQuery UI*: geometry and style, and used by no page.

Next: disabled items of menus, tabs and headers that come and go.
